---------------------------- MODULE MCPublisher ----------------------------
(* Small instances of Publisher: two tags, each with a watcher of its own;  *)
(* the watchers share the publication root.                                 *)
EXTENDS Publisher, TLC

CONSTANTS w1, w2

TwoOwners == 1 :> w1 @@ 2 :> w2
=============================================================================
