---------------------------- MODULE ClientProofs ----------------------------
(***************************************************************************)
(* Proofs about the two parts of the client that run beside its Syncs: the *)
(* config-gated runner (ConfRunner) for every set of releases and every    *)
(* configuration, and the receipts outbox (Receipts) for every number of   *)
(* processes.                                                              *)
(***************************************************************************)
EXTENDS ConfRunner, Receipts, TLAPS

(* The manifest a run works on is one of the channel's, and past the gate  *)
(* an eligible one.                                                        *)
GateInv ==
    /\ channel \in Releases
    /\ pc \notin {"idle", "fetch"} => m \in Releases
    /\ pc \notin {"idle", "fetch", "gate"} => Eligible(m)

(* The process of conf has nothing at first.                               *)
LEMMA GateInit == Init => GateInv
BY DEF Init, GateInv

(* Past the gate a run keeps its manifest.                                 *)
LEMMA GateKeeps ==
    ASSUME GateInv, UNCHANGED <<m, channel>>, pc' = pc \/ pc \notin {"idle", "fetch", "gate"}
    PROVE  GateInv'
BY DEF GateInv, Eligible

(* Every step of conf, of the channel and of the daemon.                   *)
LEMMA GateStep == GateInv /\ [Next]_vars => GateInv'
<1> SUFFICES ASSUME GateInv, [Next]_vars PROVE GateInv'
  OBVIOUS
<1> USE DEF sync, docker, history, bounds
<1>1. CASE Start \/ Fetch \/ Gate
  BY <1>1 DEF Start, Fetch, Gate, GateInv, Eligible
<1>2. CASE Filtered \/ SyncRefuses \/ LoadRefused \/ SyncFails \/ ActReports \/ PsFails \/ Audit \/ Crash
  BY <1>2 DEF Filtered, SyncRefuses, LoadRefused, SyncFails, ActReports, PsFails, Audit, Crash, Exit, GateInv
<1>3. CASE SyncFetch \/ Transfer \/ Load \/ ActRestarts \/ Ps \/ PsDone \/ EachDone \/ Rm \/ Run
  BY <1>3, GateKeeps DEF SyncFetch, Transfer, Load, ActRestarts, Ps, PsDone, EachDone, Rm, Run
<1>4. ASSUME NEW c \in todo, Stop(c) PROVE GateInv'
  BY <1>4, GateKeeps DEF Stop
<1>5. ASSUME NEW r \in Releases, Serve(r) PROVE GateInv'
  BY <1>5 DEF Serve, locals, GateInv, Eligible
<1>6. ASSUME NEW b, NEW i, StartContainer(b, i) PROVE GateInv'
  BY <1>6, GateKeeps DEF StartContainer, locals
<1>7. ASSUME NEW c, EndContainer(c) PROVE GateInv'
  BY <1>7, GateKeeps DEF EndContainer, locals
<1>8. CASE UNCHANGED vars
  BY <1>8, GateKeeps DEF vars, locals
<1> QED BY <1>1, <1>2, <1>3, <1>4, <1>5, <1>6, <1>7, <1>8 DEF Next, Conf

-----------------------------------------------------------------------------
Restarting == {"ps", "each", "rm", "run"}

(* RestartMatching works on signed image IDs of the manifest that passed   *)
(* the gate.                                                               *)
RestartInv ==
    /\ pc \in Restarting => ids \in Seq(Range(ImageIDs[m]))
    /\ pc \in Restarting \ {"ps"} => imageID \in Range(ImageIDs[m])

(* No run restarts anything at first.                                      *)
LEMMA RestartInit == Init => RestartInv
BY DEF Init, RestartInv, Restarting

(* Every step of conf, of the channel and of the daemon.                   *)
LEMMA RestartStep == GateInv /\ RestartInv /\ [Next]_vars => RestartInv'
<1> SUFFICES ASSUME GateInv, RestartInv, [Next]_vars PROVE RestartInv'
  OBVIOUS
<1> USE DEF sync, docker, history, bounds, Restarting
<1>1. CASE Start \/ Fetch \/ Gate \/ SyncFetch \/ Transfer \/ Load
  BY <1>1 DEF Start, Fetch, Gate, SyncFetch, Transfer, Load, DockerLoad, RestartInv
<1>2. CASE Filtered \/ SyncRefuses \/ LoadRefused \/ SyncFails \/ ActReports \/ PsFails \/ Audit \/ Crash
  BY <1>2 DEF Filtered, SyncRefuses, LoadRefused, SyncFails, ActReports, PsFails, Audit, Crash, Exit, RestartInv
<1>3. CASE ActRestarts
  <2>1. m \in Releases /\ ids' = ImageIDs[m]
    BY <1>3 DEF ActRestarts, GateInv
  <2>2. ImageIDs[m] \in Seq(Range(ImageIDs[m]))
    BY <2>1, ConfAssumption DEF Range
  <2> QED BY <1>3, <2>1, <2>2 DEF ActRestarts, RestartInv
<1>4. CASE Ps
  <2>1. ids \in Seq(Range(ImageIDs[m])) /\ ids # <<>>
    BY <1>4 DEF Ps, RestartInv
  <2>2. Head(ids) \in Range(ImageIDs[m]) /\ Tail(ids) \in Seq(Range(ImageIDs[m]))
    BY <2>1
  <2> QED BY <1>4, <2>2 DEF Ps, RestartInv
<1>5. ASSUME UNCHANGED <<ids, imageID, m>>, pc' = pc \/ (pc \in Restarting /\ (pc = "ps" => pc' = "audit"))
      PROVE  RestartInv'
  BY <1>5 DEF RestartInv
<1>6. CASE PsDone \/ EachDone \/ Rm \/ Run
  BY <1>5, <1>6 DEF PsDone, EachDone, Rm, Run
<1>7. ASSUME NEW c \in todo, Stop(c) PROVE RestartInv'
  BY <1>5, <1>7 DEF Stop
<1>8. ASSUME UNCHANGED locals PROVE RestartInv'
  BY <1>5, <1>8 DEF locals
<1>9. ASSUME NEW r, Serve(r) PROVE RestartInv'
  BY <1>8, <1>9 DEF Serve
<1>10. ASSUME NEW b, NEW i, StartContainer(b, i) PROVE RestartInv'
  BY <1>8, <1>10 DEF StartContainer
<1>11. ASSUME NEW c, EndContainer(c) PROVE RestartInv'
  BY <1>8, <1>11 DEF EndContainer
<1>12. CASE UNCHANGED vars
  BY <1>8, <1>12 DEF vars
<1> QED BY <1>1, <1>2, <1>3, <1>4, <1>6, <1>7, <1>9, <1>10, <1>11, <1>12 DEF Next, Conf

-----------------------------------------------------------------------------
Container == [id : Nat, name : Bases \X Nat, image : Images, up : BOOLEAN]

(* The daemon draws a new ID for every container and no two share one.     *)
DaemonInv ==
    /\ born \in Nat
    /\ containers \subseteq Container
    /\ \A c \in containers : c.id <= born
    /\ \A c, d \in containers : c.id = d.id => c = d

(* The containers of a listing are different ones, and the one in hand is  *)
(* no longer listed.                                                       *)
ListedInv ==
    /\ todo \subseteq Container
    /\ \A c \in todo : c.id <= born
    /\ \A c, d \in todo : c.id = d.id => c = d
    /\ pc \in {"rm", "run"} =>
          current \in Container /\ current.id <= born /\ \A c \in todo : c.id # current.id

(* What is removed never returns and is in no listing.                     *)
RemovedInv ==
    /\ \A i \in removed : i \in 0..born /\ \A c \in containers \union todo : c.id # i
    /\ replaced \subseteq removed
    /\ pc = "rm" => current.id \notin removed
    /\ pc = "run" => current.id \in removed \ replaced
    /\ pc \notin Restarting \union {"idle", "audit"} => removed = {}

Noted(i, recs, repl) == \E rec \in recs : rec.container = i /\ (rec.recreated <=> i \in repl)

(* Only the container in hand may be gone without a record.                *)
NotedInv ==
    pc \in Restarting \union {"audit"} =>
        \A i \in removed : (pc = "run" /\ i = current.id) \/ Noted(i, records, replaced)

LossInv == DaemonInv /\ ListedInv /\ RemovedInv /\ NotedInv

(* At first there is no container.                                         *)
LEMMA LossInit == Init => LossInv
BY DEF Init, LossInv, DaemonInv, ListedInv, RemovedInv, NotedInv, Restarting

(* Outside of RestartMatching a step of conf leaves nothing to account for.*)
LEMMA LossQuiet ==
    ASSUME LossInv, UNCHANGED <<docker, todo>>, pc' \notin {"rm", "run"},
           \/ removed' = {} /\ replaced' = {}
           \/ UNCHANGED history /\ pc' \notin Restarting \union {"audit"} /\ (pc' = "idle" \/ removed = {})
    PROVE  LossInv'
BY DEF LossInv, DaemonInv, ListedInv, RemovedInv, NotedInv, Restarting, docker, history

(* A run that ends forgets its listing.                                    *)
LEMMA LossExit ==
    ASSUME LossInv, Exit, UNCHANGED docker, UNCHANGED history \/ (removed' = {} /\ replaced' = {})
    PROVE  LossInv'
<1>1. pc' = "idle" /\ todo' = {}
  BY DEF Exit
<1>2. DaemonInv' /\ ListedInv'
  BY <1>1 DEF LossInv, DaemonInv, ListedInv, docker
<1>3. RemovedInv' /\ NotedInv'
  BY <1>1 DEF LossInv, RemovedInv, NotedInv, docker, history, Restarting
<1> QED BY <1>2, <1>3 DEF LossInv

(* A record of a container that is not replaced accounts for it, and the   *)
(* older records for the others.                                           *)
LEMMA NoteKeeps ==
    ASSUME NEW c, NEW done \in BOOLEAN, Note(c, done)
    PROVE  /\ \A i : Noted(i, records, replaced) => Noted(i, records', replaced)
           /\ \A repl : (done <=> c.id \in repl) => Noted(c.id, records', repl)
<1> DEFINE new == [container |-> c.id, image |-> imageID, release |-> m, recreated |-> done]
<1>1. records' = records \union {new}
  BY DEF Note
<1>2. new.container = c.id /\ new.recreated = done
  OBVIOUS
<1> HIDE DEF new
<1> QED BY <1>1, <1>2 DEF Noted

(* A stopped container keeps its ID, its name and its image.               *)
LEMMA StoppedKeeps ==
    ASSUME NEW c \in Container
    PROVE  /\ [c EXCEPT !.up = FALSE] \in Container /\ [c EXCEPT !.up = FALSE].id = c.id
           /\ [c EXCEPT !.up = FALSE].name = c.name /\ [c EXCEPT !.up = FALSE].image = c.image
BY DEF Container

(* What is there after a step was there before, perhaps running.           *)
Kin(d, old) == \E e \in old : e.id = d.id /\ e.name = d.name /\ e.image = d.image

(* Stopping one container leaves the IDs alone.                            *)
LEMMA DaemonStops ==
    ASSUME DaemonInv, NEW c,
           containers' = (containers \ Named(c)) \union {[d EXCEPT !.up = FALSE] : d \in Named(c)},
           UNCHANGED born
    PROVE  DaemonInv' /\ \A d \in containers' : Kin(d, containers)
<1> DEFINE Stopped(d) == [d EXCEPT !.up = FALSE]
<1>1. \A d \in containers : /\ Stopped(d) \in Container /\ Stopped(d).id = d.id
                            /\ Stopped(d).name = d.name /\ Stopped(d).image = d.image
  BY StoppedKeeps DEF DaemonInv
<1> HIDE DEF Stopped
<1>2. containers' = (containers \ Named(c)) \union {Stopped(d) : d \in Named(c)}
  BY DEF Stopped
<1>3. Named(c) \subseteq containers /\ \A d \in containers : d \in Named(c) <=> d.id = c.id
  BY DEF Named
<1>4. \A d \in containers' : Kin(d, containers)
  BY <1>1, <1>2, <1>3 DEF Kin
<1>5. containers' \subseteq Container /\ \A d \in containers' : d.id <= born
  BY <1>1, <1>2, <1>3 DEF DaemonInv
<1>6. \A d, e \in containers' : d.id = e.id => d = e
  BY <1>1, <1>2, <1>3 DEF DaemonInv
<1> QED BY <1>4, <1>5, <1>6 DEF DaemonInv

(* A new container has a new ID.                                           *)
LEMMA DaemonStarts ==
    ASSUME DaemonInv, NEW n \in Bases \X Nat, NEW i \in Images,
           containers' = containers \union {[id |-> born + 1, name |-> n, image |-> i, up |-> TRUE]},
           born' = born + 1
    PROVE  /\ DaemonInv'
           /\ \A d \in containers' : d.id = born + 1 \/ d \in containers
<1> DEFINE e == [id |-> born + 1, name |-> n, image |-> i, up |-> TRUE]
<1>1. e \in Container /\ e.id = born + 1
  BY DEF DaemonInv, Container
<1> HIDE DEF e
<1>2. containers' = containers \union {e}
  BY DEF e
<1>3. \A d \in containers : d.id \in Nat /\ d.id <= born
  BY DEF DaemonInv, Container
<1>4. \A d \in containers' : d.id <= born'
  BY <1>1, <1>2, <1>3 DEF DaemonInv
<1>5. \A d, f \in containers' : d.id = f.id => d = f
  BY <1>1, <1>2, <1>3 DEF DaemonInv
<1> QED BY <1>1, <1>2, <1>4, <1>5 DEF DaemonInv

(* A container that ends, or is removed.                                   *)
LEMMA DaemonEnds ==
    ASSUME DaemonInv, NEW c \in containers, EndContainer(c)
    PROVE  DaemonInv' /\ \A d \in containers' : Kin(d, containers)
<1>1. Named(c) = {c} /\ UNCHANGED born
  BY DEF DaemonInv, Named, EndContainer
<1>2. CASE containers' = (containers \ {c}) \union {[c EXCEPT !.up = FALSE]}
  <2>1. containers' = (containers \ Named(c)) \union {[d EXCEPT !.up = FALSE] : d \in Named(c)}
    BY <1>1, <1>2
  <2> QED BY <1>1, <2>1, DaemonStops
<1>3. CASE containers' = containers \ {c}
  BY <1>1, <1>3 DEF DaemonInv, Kin
<1> QED BY <1>2, <1>3 DEF EndContainer

(* Others' containers do not touch the account of conf.                    *)
LEMMA LossBeside ==
    ASSUME LossInv, DaemonInv', UNCHANGED <<locals, removed, replaced>>,
           born' \in {born, born + 1},
           \A d \in containers' : d.id = born + 1 \/ \E c \in containers : c.id = d.id
    PROVE  LossInv'
<1>1. born \in Nat /\ \A c \in Container : c.id \in Nat
  BY DEF LossInv, DaemonInv, Container
<1>2. ListedInv'
  BY <1>1 DEF LossInv, ListedInv, locals
<1>3. \A i \in removed : i \in 0..born' /\ i # born + 1
  BY <1>1 DEF LossInv, RemovedInv
<1>4. RemovedInv'
  BY <1>1, <1>3 DEF LossInv, RemovedInv, locals
<1>5. NotedInv'
  BY DEF LossInv, NotedInv, locals
<1> QED BY <1>2, <1>4, <1>5 DEF LossInv

(* Every step of conf, of the channel and of the daemon.                   *)
LEMMA LossStep == GateInv /\ RestartInv /\ LossInv /\ [Next]_vars => LossInv'
<1> SUFFICES ASSUME GateInv, RestartInv, LossInv, [Next]_vars PROVE LossInv'
  OBVIOUS
<1> USE DEF sync, docker, history, bounds, Restarting
<1>n. /\ DaemonInv /\ ListedInv /\ RemovedInv /\ NotedInv
      /\ born \in Nat /\ \A c \in Container : c.id \in Nat
  BY DEF LossInv, DaemonInv, Container
<1>1. CASE Start \/ Fetch \/ Gate \/ SyncFetch \/ Transfer \/ Load
  <2>1. removed' = {} /\ replaced' = {}
    BY <1>1, <1>n DEF Start, Fetch, Gate, SyncFetch, Transfer, Load, RemovedInv
  <2> QED BY <1>1, <2>1, LossQuiet DEF Start, Fetch, Gate, SyncFetch, Transfer, Load
<1>2. CASE ActRestarts
  <2>1. removed' = {} /\ replaced' = {}
    BY <1>2, <1>n DEF ActRestarts, RemovedInv
  <2> QED BY <1>2, <2>1, LossQuiet DEF ActRestarts
<1>3. CASE Ps
  <2>1. todo' \subseteq containers /\ UNCHANGED <<containers, born, removed, replaced, records>>
        /\ pc = "ps" /\ pc' = "each"
    BY <1>3 DEF Ps
  <2>2. DaemonInv' /\ ListedInv'
    BY <2>1, <1>n DEF DaemonInv, ListedInv
  <2>3. RemovedInv' /\ NotedInv'
    BY <2>1, <1>n DEF RemovedInv, NotedInv
  <2> QED BY <2>2, <2>3 DEF LossInv
<1>4. CASE PsDone \/ EachDone
  <2>1. UNCHANGED <<containers, born, todo, removed, replaced, records>>
        /\ pc \in {"ps", "each"} /\ pc' \in {"ps", "audit"}
    BY <1>4 DEF PsDone, EachDone
  <2>2. DaemonInv' /\ ListedInv'
    BY <2>1, <1>n DEF DaemonInv, ListedInv
  <2>3. RemovedInv' /\ NotedInv'
    BY <2>1, <1>n DEF RemovedInv, NotedInv
  <2> QED BY <2>2, <2>3 DEF LossInv
<1>5. ASSUME NEW c \in todo, Stop(c) PROVE LossInv'
  <2>1. /\ c \in Container /\ c.id <= born /\ c.id \notin removed
        /\ pc = "each" /\ todo' = todo \ {c} /\ UNCHANGED <<born, removed, replaced>>
        /\ \A d \in todo' : d.id # c.id
    BY <1>5, <1>n DEF Stop, ListedInv, RemovedInv
  <2>2. CASE /\ containers' = (containers \ Named(c)) \union {[d EXCEPT !.up = FALSE] : d \in Named(c)}
             /\ current' = c /\ pc' = "rm" /\ UNCHANGED records
    <3>1. DaemonInv' /\ \A d \in containers' : \E e \in containers : e.id = d.id
      BY <2>1, <2>2, <1>n, DaemonStops DEF Kin
    <3>2. ListedInv'
      BY <2>1, <2>2, <1>n DEF ListedInv
    <3>3. RemovedInv' /\ NotedInv'
      BY <2>1, <2>2, <3>1, <1>n DEF RemovedInv, NotedInv
    <3> QED BY <3>1, <3>2, <3>3 DEF LossInv
  <2>3. CASE Note(c, FALSE) /\ UNCHANGED <<containers, current, pc>>
    <3>1. DaemonInv' /\ ListedInv' /\ RemovedInv'
      BY <2>1, <2>3, <1>n DEF DaemonInv, ListedInv, RemovedInv
    <3>2. NotedInv'
      BY <2>1, <2>3, <1>n, NoteKeeps DEF NotedInv
    <3> QED BY <3>1, <3>2 DEF LossInv
  <2> QED BY <1>5, <2>2, <2>3 DEF Stop
<1>6. CASE Rm
  <2>1. /\ current \in Container /\ current.id <= born /\ current.id \notin removed
        /\ \A c \in todo : c.id # current.id
        /\ pc = "rm" /\ UNCHANGED <<born, todo, replaced>>
    BY <1>6, <1>n DEF Rm, ListedInv, RemovedInv
  <2>2. CASE /\ containers' = containers \ Named(current)
             /\ removed' = removed \union {current.id}
             /\ pc' = "run" /\ UNCHANGED <<current, records>>
    <3>1. DaemonInv' /\ ListedInv'
      BY <2>1, <2>2, <1>n DEF DaemonInv, ListedInv
    <3>2. \A d \in containers' : d \in containers /\ d.id # current.id
      BY <2>2 DEF Named
    <3>3. RemovedInv'
      BY <2>1, <2>2, <3>2, <1>n DEF RemovedInv
    <3>4. NotedInv'
      BY <2>1, <2>2, <1>n DEF NotedInv
    <3> QED BY <3>1, <3>3, <3>4 DEF LossInv
  <2>3. CASE Note(current, FALSE) /\ pc' = "each" /\ UNCHANGED <<containers, removed>>
    <3>1. DaemonInv' /\ ListedInv' /\ RemovedInv'
      BY <2>1, <2>3, <1>n DEF DaemonInv, ListedInv, RemovedInv
    <3>2. NotedInv'
      BY <2>1, <2>3, <1>n, NoteKeeps DEF NotedInv
    <3> QED BY <3>1, <3>2 DEF LossInv
  <2> QED BY <1>6, <2>2, <2>3 DEF Rm
<1>7. CASE Run
  <2>1. /\ current \in Container /\ current.id <= born /\ current.id \in removed \ replaced
        /\ pc = "run" /\ pc' = "each" /\ UNCHANGED <<todo, removed>>
    BY <1>7, <1>n DEF Run, ListedInv, RemovedInv
  <2>2. CASE Replace
    <3>1. imageID \in Images /\ NewName(current) \in Bases \X Nat
      <4>1. m \in Releases /\ imageID \in Range(ImageIDs[m])
        BY <2>1 DEF GateInv, RestartInv
      <4>2. imageID \in Images
        BY <4>1, ConfAssumption DEF Range
      <4> QED BY <2>1, <4>2 DEF NewName, Container
    <3>2. DaemonInv' /\ \A d \in containers' : d.id = born + 1 \/ d \in containers
      BY <2>2, <3>1, <1>n, DaemonStarts DEF Replace
    <3>3. born' = born + 1 /\ replaced' = replaced \union {current.id} /\ Note(current, TRUE)
      BY <2>2 DEF Replace
    <3>4. ListedInv'
      BY <2>1, <3>3, <1>n DEF ListedInv
    <3>5. \A i \in removed : i \in 0..born' /\ i # born + 1
      BY <3>3, <1>n DEF RemovedInv
    <3>6. RemovedInv'
      BY <2>1, <3>2, <3>3, <3>5, <1>n DEF RemovedInv
    <3>7. \A i \in removed : i # current.id => Noted(i, records', replaced')
      <4> SUFFICES ASSUME NEW i \in removed, i # current.id PROVE Noted(i, records', replaced')
        OBVIOUS
      <4>1. Noted(i, records', replaced)
        BY <2>1, <3>3, <1>n, NoteKeeps DEF NotedInv
      <4> QED BY <4>1, <3>3 DEF Noted
    <3>8. Noted(current.id, records', replaced')
      BY <3>3, NoteKeeps
    <3>9. NotedInv'
      BY <2>1, <3>7, <3>8 DEF NotedInv
    <3> QED BY <3>2, <3>4, <3>6, <3>9 DEF LossInv
  <2>3. CASE Note(current, FALSE) /\ UNCHANGED <<docker, replaced>>
    <3>1. DaemonInv' /\ ListedInv' /\ RemovedInv'
      BY <2>1, <2>3, <1>n DEF DaemonInv, ListedInv, RemovedInv
    <3>2. Noted(current.id, records', replaced)
      BY <2>1, <2>3, NoteKeeps
    <3>3. NotedInv'
      BY <2>1, <2>3, <3>2, <1>n, NoteKeeps DEF NotedInv
    <3> QED BY <3>1, <3>3 DEF LossInv
  <2> QED BY <1>7, <2>2, <2>3 DEF Run
<1>8. CASE Filtered \/ SyncRefuses \/ LoadRefused \/ SyncFails \/ ActReports \/ PsFails \/ Audit \/ Crash
  BY <1>8, LossExit DEF Filtered, SyncRefuses, LoadRefused, SyncFails, ActReports, PsFails, Audit, Crash
<1>9. ASSUME NEW r, Serve(r) PROVE LossInv'
  BY <1>9, <1>n, LossBeside DEF Serve, DaemonInv
<1>10. ASSUME NEW b \in Bases, NEW i \in Images, StartContainer(b, i) PROVE LossInv'
  <2>1. DaemonInv' /\ \A d \in containers' : d.id = born + 1 \/ d \in containers
    BY <1>10, <1>n, DaemonStarts DEF StartContainer
  <2> QED BY <1>10, <2>1, LossBeside DEF StartContainer
<1>11. ASSUME NEW c \in containers, EndContainer(c) PROVE LossInv'
  <2>1. DaemonInv' /\ \A d \in containers' : \E e \in containers : e.id = d.id
    BY <1>11, <1>n, DaemonEnds DEF Kin
  <2> QED BY <1>11, <2>1, LossBeside DEF EndContainer
<1>12. CASE UNCHANGED vars
  BY <1>12, <1>n, LossBeside DEF vars, DaemonInv
<1> QED BY <1>1, <1>2, <1>3, <1>4, <1>5, <1>6, <1>7, <1>8, <1>9, <1>10, <1>11, <1>12 DEF Next, Conf

(* A run that gets as far as its audit has a record of every container it  *)
(* took away, whatever failed on the way, for every configuration, every   *)
(* set of containers and any number of runs and crashes.                   *)
THEOREM ConfLossIsReported == Spec => []LossIsReported
<1>1. LossInv => LossIsReported
  BY DEF LossInv, NotedInv, Noted, LossIsReported, Restarting
<1> QED BY <1>1, GateInit, GateStep, RestartInit, RestartStep, LossInit, LossStep, PTL DEF Spec

-----------------------------------------------------------------------------
(* What the listing for an image ID holds.                                 *)
Fits(c) == c.name \in Selected /\ c.image \in Descendants[imageID]

(* The container that has the ID of a listed one is the one listed.        *)
Same(c, daemon) == \A d \in daemon : d.id = c.id => d.name = c.name /\ d.image = c.image

(* The listing may be stale, but an ID never changes hands.                *)
TouchInv ==
    /\ \A c \in todo : Fits(c) /\ Same(c, containers)
    /\ pc = "rm" => Fits(current) /\ Same(current, containers)
    /\ OnlySelectedIsTouched

(* No container is listed at first.                                        *)
LEMMA TouchInit == Init => TouchInv
BY DEF Init, TouchInv, OnlySelectedIsTouched

(* What the daemon does does not give an ID to another container.          *)
LEMMA SameKeeps ==
    ASSUME DaemonInv, \A d \in containers' : d.id = born + 1 \/ Kin(d, containers),
           NEW c \in Container, c.id <= born, Same(c, containers)
    PROVE  Same(c, containers')
<1>1. c.id # born + 1
  BY DEF DaemonInv, Container
<1> QED BY <1>1 DEF Same, Kin

(* docker stop and rm of a listed container.                               *)
LEMMA TouchAllowed ==
    ASSUME GateInv, RestartInv, TouchInv, pc \in {"each", "rm"},
           NEW c, Fits(c), Same(c, containers), Touch(c)
    PROVE  OnlySelectedIsTouched'
<1>1. Eligible(m) /\ imageID \in Range(ImageIDs[m])
  BY DEF GateInv, RestartInv, Restarting
<1> SUFFICES ASSUME NEW t \in touched'
             PROVE  /\ t.container.name \in Selected
                    /\ \E i \in Range(ImageIDs[t.release]) : t.container.image \in Descendants[i]
                    /\ t.release \notin Ignore
                    /\ Allow # {} => t.release \in Allow
  BY DEF OnlySelectedIsTouched
<1>2. CASE t \in touched
  BY <1>2 DEF TouchInv, OnlySelectedIsTouched
<1>3. ASSUME NEW d \in Named(c), t = [container |-> d, release |-> m]
      PROVE  /\ t.container.name \in Selected
             /\ \E i \in Range(ImageIDs[t.release]) : t.container.image \in Descendants[i]
             /\ t.release \notin Ignore
             /\ Allow # {} => t.release \in Allow
  <2>1. t.container = d /\ t.release = m
    BY <1>3
  <2>2. d.name = c.name /\ d.image = c.image
    BY DEF Named, Same
  <2> QED BY <1>1, <2>1, <2>2 DEF Fits, Eligible
<1> QED BY <1>2, <1>3 DEF Touch

(* Every step of conf, of the channel and of the daemon.                   *)
LEMMA TouchStep == GateInv /\ RestartInv /\ LossInv /\ TouchInv /\ [Next]_vars => TouchInv'
<1> SUFFICES ASSUME GateInv, RestartInv, LossInv, TouchInv, [Next]_vars PROVE TouchInv'
  OBVIOUS
<1> USE DEF sync, docker, history, bounds
<1>n. /\ DaemonInv /\ ListedInv
      /\ \A c \in todo : c \in Container /\ c.id <= born
      /\ pc = "rm" => current \in Container /\ current.id <= born
  BY DEF LossInv, ListedInv
<1>k. ASSUME \A d \in containers' : d.id = born + 1 \/ Kin(d, containers)
      PROVE  /\ \A c \in todo : Same(c, containers')
             /\ pc = "rm" => Same(current, containers')
  BY <1>k, <1>n, SameKeeps DEF TouchInv
<1>s. ASSUME UNCHANGED containers PROVE \A d \in containers' : Kin(d, containers)
  BY <1>s DEF Kin
<1>1. CASE Filtered \/ SyncRefuses \/ LoadRefused \/ SyncFails \/ ActReports \/ PsFails \/ Audit \/ Crash
  <2>1. todo' = {} /\ pc' = "idle" /\ UNCHANGED touched
    BY <1>1 DEF Filtered, SyncRefuses, LoadRefused, SyncFails, ActReports, PsFails, Audit, Crash, Exit
  <2> QED BY <2>1 DEF TouchInv, OnlySelectedIsTouched
<1>2. ASSUME UNCHANGED <<todo, imageID, containers>>, touched' \in {touched, {}}, pc' # "rm" PROVE TouchInv'
  BY <1>2 DEF TouchInv, OnlySelectedIsTouched, Fits
<1>3. CASE Start \/ Fetch \/ Gate \/ SyncFetch \/ Transfer \/ Load \/ ActRestarts \/ PsDone \/ EachDone
  BY <1>2, <1>3 DEF Start, Fetch, Gate, SyncFetch, Transfer, Load, ActRestarts, PsDone, EachDone
<1>4. CASE Ps
  <2>1. /\ imageID' = Head(ids) /\ pc' = "each" /\ UNCHANGED <<containers, touched>>
        /\ \A c \in todo' : c \in containers /\ c.image \in Descendants[imageID'] /\ c.name \in Selected
    BY <1>4 DEF Ps
  <2>2. \A c \in todo' : Same(c, containers')
    BY <2>1, <1>n DEF Same, DaemonInv
  <2> QED BY <2>1, <2>2 DEF TouchInv, OnlySelectedIsTouched, Fits
<1>5. ASSUME NEW c \in todo, Stop(c) PROVE TouchInv'
  <2>1. /\ pc = "each" /\ todo' \subseteq todo /\ UNCHANGED <<imageID, born>>
        /\ Fits(c) /\ Same(c, containers)
    BY <1>5 DEF Stop, TouchInv
  <2>2. CASE /\ containers' = (containers \ Named(c)) \union {[d EXCEPT !.up = FALSE] : d \in Named(c)}
             /\ Touch(c) /\ current' = c /\ pc' = "rm"
    <3>1. \A e \in todo : Same(e, containers')
      BY <2>1, <2>2, <1>n, <1>k, DaemonStops
    <3>2. OnlySelectedIsTouched'
      BY <2>1, <2>2, TouchAllowed
    <3> QED BY <2>1, <2>2, <3>1, <3>2 DEF TouchInv, Fits
  <2>3. CASE UNCHANGED <<containers, touched, current, pc>>
    BY <2>1, <2>3 DEF TouchInv, OnlySelectedIsTouched, Fits
  <2> QED BY <1>5, <2>2, <2>3 DEF Stop
<1>6. CASE Rm
  <2>1. pc = "rm" /\ pc' # "rm" /\ UNCHANGED <<todo, imageID>> /\ containers' \subseteq containers
    BY <1>6 DEF Rm
  <2>2. \A e \in todo : Fits(e)' /\ Same(e, containers')
    BY <2>1 DEF TouchInv, Same, Fits
  <2>3. CASE Touch(current)
    BY <2>1, <2>2, <2>3, TouchAllowed DEF TouchInv
  <2>4. CASE UNCHANGED touched
    BY <2>1, <2>2, <2>4 DEF TouchInv, OnlySelectedIsTouched
  <2> QED BY <1>6, <2>3, <2>4 DEF Rm
<1>7. CASE Run
  <2>1. pc' = "each" /\ UNCHANGED <<todo, imageID, touched>>
    BY <1>7 DEF Run
  <2>2. \A d \in containers' : d.id = born + 1 \/ Kin(d, containers)
    <3>1. CASE Replace
      <4> DEFINE new == [id |-> born + 1, name |-> NewName(current), image |-> imageID, up |-> TRUE]
      <4>1. containers' = containers \union {new} /\ new.id = born + 1
        BY <3>1 DEF Replace
      <4> HIDE DEF new
      <4> QED BY <4>1 DEF Kin
    <3>2. CASE UNCHANGED docker
      BY <1>s, <3>2
    <3> QED BY <1>7, <3>1, <3>2 DEF Run
  <2> QED BY <2>1, <2>2, <1>k DEF TouchInv, OnlySelectedIsTouched, Fits
<1>8. ASSUME UNCHANGED <<locals, touched>>, \A d \in containers' : d.id = born + 1 \/ Kin(d, containers)
      PROVE  TouchInv'
  BY <1>8, <1>k DEF TouchInv, OnlySelectedIsTouched, Fits, locals
<1>9. ASSUME NEW r, Serve(r) PROVE TouchInv'
  BY <1>8, <1>9, <1>s DEF Serve
<1>10. ASSUME NEW b, NEW i, StartContainer(b, i) PROVE TouchInv'
  <2>1. \A d \in containers' : d.id = born + 1 \/ Kin(d, containers)
    BY <1>10 DEF StartContainer, Kin
  <2> QED BY <1>8, <1>10, <2>1 DEF StartContainer
<1>11. ASSUME NEW c \in containers, EndContainer(c) PROVE TouchInv'
  BY <1>8, <1>11, <1>n, DaemonEnds DEF EndContainer
<1>12. CASE UNCHANGED vars
  BY <1>8, <1>12, <1>s DEF vars
<1> QED BY <1>1, <1>3, <1>4, <1>5, <1>6, <1>7, <1>9, <1>10, <1>11, <1>12 DEF Next, Conf

(* conf stops and removes only selected containers of an eligible          *)
(* release's images, however stale its listing is, for every               *)
(* configuration, every relation of images and any number of runs, crashes *)
(* and containers.                                                         *)
THEOREM ConfOnlySelectedIsTouched == Spec => []OnlySelectedIsTouched
<1>1. TouchInv => OnlySelectedIsTouched
  BY DEF TouchInv
<1> QED BY <1>1, GateInit, GateStep, RestartInit, RestartStep, LossInit, LossStep, TouchInit, TouchStep, PTL
        DEF Spec

-----------------------------------------------------------------------------
(* Counting a fault keeps the counter below its bound.                     *)
LEMMA FaultCounted ==
    failures \in 0..MaxFailures /\ Failure => failures' \in 0..MaxFailures
BY ReceiptsAssumption DEF Failure

(* The number of the next receipt is a receipt.                            *)
LEMMA NextReceipt ==
    written \in 0..MaxReceipts /\ written < MaxReceipts
       => written + 1 \in Receipt /\ written + 1 \in 0..MaxReceipts
BY ReceiptsAssumption DEF Receipt

(* What a queued receipt relies on.                                        *)
KeptInv == TypeOK /\ PostedIsStored /\ QueuedIsKept

(* An empty outbox keeps every queued receipt.                             *)
LEMMA KeptInit == ReceiptsInit => KeptInv
BY ReceiptsAssumption DEF ReceiptsInit, KeptInv, TypeOK, PostedIsStored, QueuedIsKept, Receipt

(* Ending a flush early touches nothing but the flusher's locals.          *)
LEMMA EndFlushTypes ==
    ASSUME TypeOK, NEW p \in Procs, EndFlush(p), UNCHANGED <<mine, then>>
    PROVE  /\ at' \in [Procs -> {"idle", "list", "post", "remove", "lock", "sync", "create",
                                 "rename"}]
           /\ entries' \in [Procs -> SUBSET Receipt]
           /\ posting' \in [Procs -> Receipt \union {Nobody}]
           /\ \A q \in Procs : at'[q] = "remove" => at[q] = "remove" /\ posting'[q] = posting[q]
           /\ \A q \in Procs : at'[q] \in {"create", "rename"} => mine'[q] \in Receipt
BY DEF EndFlush, Goto, TypeOK

(* Every step of a process, lost answers and crashes included, keeps the   *)
(* types, removes only what the hub has and loses no queued receipt.       *)
LEMMA KeptStep == KeptInv /\ [ReceiptsNext]_receiptsVars => KeptInv'
<1> SUFFICES ASSUME KeptInv, [ReceiptsNext]_receiptsVars PROVE KeptInv'
    OBVIOUS
<1> USE ReceiptsAssumption DEF KeptInv, TypeOK, PostedIsStored, QueuedIsKept, disk, Goto
<1>1. ASSUME NEW p \in Procs, Begin(p) PROVE KeptInv'
  BY <1>1 DEF Begin
<1>2. ASSUME NEW p \in Procs, List(p) PROVE KeptInv'
  BY <1>2 DEF List
<1>3. ASSUME NEW p \in Procs, Flushed(p) PROVE KeptInv'
  BY <1>3 DEF Flushed
<1>4. ASSUME NEW p \in Procs, NEW r \in Receipt, Post(p, r) PROVE KeptInv'
  BY <1>4 DEF Post
<1>5. ASSUME NEW p \in Procs, NEW r \in Receipt, Vanished(p, r) PROVE KeptInv'
  BY <1>5, EndFlushTypes DEF Vanished
<1>6. ASSUME NEW p \in Procs, NEW r \in Receipt, PostFails(p, r) PROVE KeptInv'
  BY <1>6, EndFlushTypes, FaultCounted DEF PostFails
<1>7. ASSUME NEW p \in Procs, RemovePosted(p) PROVE KeptInv'
  BY <1>7 DEF RemovePosted
<1>8. ASSUME NEW p \in Procs, Refused(p) PROVE KeptInv'
  BY <1>8 DEF Refused
<1>9. ASSUME NEW p \in Procs, Enter(p) PROVE KeptInv'
  BY <1>9 DEF Enter
<1>10. ASSUME NEW p \in Procs, Succeed(p) PROVE KeptInv'
  BY <1>10, NextReceipt DEF Succeed
<1>11. ASSUME NEW p \in Procs, Fail(p) PROVE KeptInv'
  BY <1>11 DEF Fail
<1>12. ASSUME NEW p \in Procs, Create(p) PROVE KeptInv'
  BY <1>12 DEF Create
<1>13. ASSUME NEW p \in Procs, Rename(p) PROVE KeptInv'
  BY <1>13 DEF Rename
<1>14. ASSUME NEW p \in Procs, RenameFails(p) PROVE KeptInv'
  BY <1>14 DEF RenameFails
<1>15. ASSUME NEW p \in Procs, Die(p) PROVE KeptInv'
  BY <1>15, FaultCounted DEF Die
<1>16. CASE UNCHANGED receiptsVars
  BY <1>16 DEF receiptsVars, process
<1> QED
  BY <1>1, <1>2, <1>3, <1>4, <1>5, <1>6, <1>7, <1>8, <1>9, <1>10, <1>11, <1>12, <1>13, <1>14,
     <1>15, <1>16 DEF ReceiptsNext, Sync, Flush

(* A queued receipt is in the outbox or at the hub, for any number of      *)
(* processes, lost answers and crashes.                                    *)
THEOREM ReceiptsQueuedIsKept ==
    ReceiptsSpec => []QueuedIsKept
<1>1. KeptInv => QueuedIsKept
  BY DEF KeptInv
<1>2. ReceiptsInit => KeptInv
  BY KeptInit
<1>3. KeptInv /\ [ReceiptsNext]_receiptsVars => KeptInv'
  BY KeptStep
<1> QED BY <1>1, <1>2, <1>3, PTL DEF ReceiptsSpec

(* Every variable keeps its type: a process that queues has a receipt.     *)
THEOREM ReceiptsTypeOK ==
    ReceiptsSpec => []TypeOK
<1>1. KeptInv => TypeOK
  BY DEF KeptInv
<1>2. ReceiptsInit => KeptInv
  BY KeptInit
<1>3. KeptInv /\ [ReceiptsNext]_receiptsVars => KeptInv'
  BY KeptStep
<1> QED BY <1>1, <1>2, <1>3, PTL DEF ReceiptsSpec
=============================================================================
