-------------------------- MODULE MCRegistryClient --------------------------
(* A small instance of RegistryClient: a list of two tags to page through.  *)
(* A unit of time is 30 seconds: tokens without a lifetime live two units,  *)
(* the margin is one, and a token of one unit is stale when it is cached.   *)
EXTENDS RegistryClient

TwoTags == [r \in Repos |-> {1, 2}]
=============================================================================
