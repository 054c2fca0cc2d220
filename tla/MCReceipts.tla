----------------------------- MODULE MCReceipts -----------------------------
(* Small instances of Receipts: two processes on one state directory.       *)
EXTENDS Receipts
=============================================================================
