----------------------------- MODULE ChunkFetch -----------------------------
(***************************************************************************)
(* What Sync relies on when it fetches the missing chunks: each chunk is   *)
(* committed to the cache at most once, nothing is committed after the     *)
(* call returned, and the call succeeds only when nothing is missing.      *)
(***************************************************************************)
CONSTANT Chunks

VARIABLES committed, result

vars == <<committed, result>>

Init == committed = {} /\ result = "running"

Commit(c) ==
    /\ result = "running"
    /\ c \notin committed
    /\ committed' = committed \union {c}
    /\ UNCHANGED result

Succeed ==
    /\ result = "running"
    /\ committed = Chunks
    /\ result' = "ok"
    /\ UNCHANGED committed

Fail ==
    /\ result = "running"
    /\ result' = "error"
    /\ UNCHANGED committed

Next == (\E c \in Chunks : Commit(c)) \/ Succeed \/ Fail

Spec == Init /\ [][Next]_vars
=============================================================================
