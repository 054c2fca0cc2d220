------------------------------ MODULE MCAgent ------------------------------
(* Small instances of Agent: two releases in sequence, a second manifest    *)
(* with the sequence of the newest (equivocation) whose chunks do not make  *)
(* its artifact, and an envelope nobody signed.                             *)
EXTENDS Agent, TLC

CONSTANTS m1, m2, m2x, mbad, c1, c2, a1, a2, u1, u2, p1, p2

MCSeqOf      == m1 :> 1 @@ m2 :> 2 @@ m2x :> 2 @@ mbad :> 3
MCChunksOf   == m1 :> {c1} @@ m2 :> {c1, c2} @@ m2x :> {c2} @@ mbad :> {c2}
MCArtifactOf == m1 :> a1 @@ m2 :> a2 @@ m2x :> a1 @@ mbad :> a2

Service == [offline |-> FALSE, dockerLoad |-> TRUE, url |-> u1]

(* The service on u1; beside it one-shot runs: offline, staging from the    *)
(* same channel, and one started without a url.                            *)
SharedOptions ==
    p1 :> {Service} @@
    p2 :> {[offline |-> TRUE, dockerLoad |-> TRUE, url |-> None],
           [offline |-> FALSE, dockerLoad |-> FALSE, url |-> u1],
           [offline |-> FALSE, dockerLoad |-> TRUE, url |-> None]}

ServiceOptions == p1 :> {Service}
=============================================================================
