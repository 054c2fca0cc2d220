---------------------------- MODULE MCFetchPool ----------------------------
(* Small instances of FetchPool: three chunks for two workers, with         *)
(* unlimited attempts and with two.                                         *)
EXTENDS FetchPool
=============================================================================
