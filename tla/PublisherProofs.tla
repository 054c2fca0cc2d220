-------------------------- MODULE PublisherProofs --------------------------
(***************************************************************************)
(* Proofs about Publisher for every number of watchers, tags and digests,  *)
(* and every bound on moves and faults.                                    *)
(***************************************************************************)
EXTENDS Publisher, TLAPS

(* A request is a tag and a digest.                                        *)
LEMMA RequestParts ==
    \A r \in Requests : r[1] \in Tags /\ r[2] \in Digests /\ r = <<r[1], r[2]>>
BY DEF Requests

(* Counting a fault keeps the counter below its bound.                     *)
LEMMA FaultCounted == faults \in 0..MaxFaults /\ Fault => faults' \in 0..MaxFaults
BY PublisherAssumption DEF Fault

(* A step that leaves a watcher waiting for its next poll keeps the types. *)
LEMMA GiveUpTypes ==
    ASSUME TypeOK, NEW w \in Watchers, GiveUp(w)
    PROVE  /\ mutex' \in Watchers \union {None}
           /\ pc' \in [Watchers -> Steps]
           /\ scan' \in [Watchers -> SUBSET Tags]
           /\ batch' \in [Watchers -> SUBSET Requests]
           /\ req' \in [Watchers -> Requests \union {None}]
           /\ drawn' \in [Watchers -> Nat]
           /\ \A v \in Watchers : pc'[v] \in Inside \union {"lock", "ack"} => req'[v] \in Requests
BY DEF TypeOK, GiveUp, Goto, Steps, Inside

(* The map Acknowledge writes, and the file it leaves, are maps of tags to *)
(* acknowledged digests.                                                   *)
LEMMA AckTypes ==
    ASSUME TypeOK, NEW w \in Watchers, pc[w] = "ack"
    PROVE  /\ req[w] \in Requests
           /\ Acknowledged(w) \in Acked
           /\ SaveState(w) => seen' \in Acked
<1>1. req[w] \in Requests
  BY DEF TypeOK
<1>2. req[w][1] \in Tags /\ req[w][2] \in Digests
  BY <1>1, RequestParts
<1>3. Acknowledged(w) \in Acked
  BY <1>2 DEF TypeOK, Acked, Acknowledged
<1>4. SaveState(w) => seen' \in Acked
  BY <1>3 DEF TypeOK, Acked, SaveState
<1> QED BY <1>1, <1>3, <1>4

(* Every step of a watcher, every fault and every change of the registry   *)
(* keeps the types: a watcher inside Trigger has a request.                *)
LEMMA TypeStep == TypeOK /\ [Next]_vars => TypeOK'
<1> SUFFICES ASSUME TypeOK, [Next]_vars PROVE TypeOK'
    OBVIOUS
<1> USE PublisherAssumption
<1> USE DEF TypeOK, Steps, Inside, durable, volatile, Goto
<1>1. ASSUME NEW w \in Watchers, Start(w) PROVE TypeOK'
  BY <1>1 DEF Start, TagsOf, Acked
<1>2. ASSUME NEW w \in Watchers, NEW t \in Tags, PollTag(w, t) PROVE TypeOK'
  <2>1. Unacknowledged(t) => <<t, registry[t]>> \in Requests
    BY DEF Unacknowledged, Acked, Requests
  <2>2. batch' \in [Watchers -> SUBSET Requests]
    BY <1>2, <2>1 DEF PollTag
  <2>3. faults' \in 0..MaxFaults
    BY <1>2, FaultCounted DEF PollTag
  <2>4. scan' \in [Watchers -> SUBSET Tags]
    BY <1>2 DEF PollTag
  <2> QED BY <1>2, <2>2, <2>3, <2>4 DEF PollTag
<1>3. ASSUME NEW w \in Watchers, PollDone(w) PROVE TypeOK'
  BY <1>3 DEF PollDone
<1>4. ASSUME NEW w \in Watchers, NEW r \in Requests, Pick(w, r) PROVE TypeOK'
  BY <1>4 DEF Pick
<1>5. ASSUME NEW w \in Watchers, Sleep(w) \/ Cancel(w) PROVE TypeOK'
  BY <1>5 DEF Sleep, Cancel, TagsOf
<1>6. ASSUME NEW w \in Watchers, Lock(w) PROVE TypeOK'
  BY <1>6 DEF Lock
<1>7. ASSUME NEW w \in Watchers, Export(w) PROVE TypeOK'
  BY <1>7 DEF Export
<1>8. ASSUME NEW w \in Watchers, Draw(w) PROVE TypeOK'
  BY <1>8 DEF Draw
<1>9. ASSUME NEW w \in Watchers, Publish(w) PROVE TypeOK'
  BY <1>9 DEF Publish
<1>10. ASSUME NEW w \in Watchers, Promote(w) PROVE TypeOK'
  BY <1>10 DEF Promote
<1>11. ASSUME NEW w \in Watchers, Ack(w) PROVE TypeOK'
  <2>1. seen' \in Acked /\ memory' \in Acked
    BY <1>11, AckTypes DEF Ack
  <2> QED BY <1>11, <2>1 DEF Ack
<1>12. ASSUME NEW w \in Watchers, Drift(w) PROVE TypeOK'
  BY <1>12, GiveUpTypes DEF Drift
<1>13. ASSUME NEW w \in Watchers, TriggerFails(w) PROVE TypeOK'
  BY <1>13, GiveUpTypes, FaultCounted DEF TriggerFails
<1>14. ASSUME NEW w \in Watchers, AckFails(w) PROVE TypeOK'
  <2>1. seen' \in Acked
    BY <1>14, AckTypes DEF AckFails
  <2> QED BY <1>14, <2>1, GiveUpTypes, FaultCounted DEF AckFails
<1>15. ASSUME Crash PROVE TypeOK'
  BY <1>15, FaultCounted DEF Crash, Acked
<1>16. ASSUME NEW t \in Tags, NEW d \in Digests \union {None}, MoveTag(t, d) PROVE TypeOK'
  BY <1>16 DEF MoveTag, Acked
<1>17. CASE UNCHANGED vars
  BY <1>17 DEF vars
<1> QED
  BY <1>1, <1>2, <1>3, <1>4, <1>5, <1>6, <1>7, <1>8, <1>9, <1>10, <1>11, <1>12, <1>13,
     <1>14, <1>15, <1>16, <1>17 DEF Next, Work

(* publicationMu is held exactly by the watcher inside Trigger.            *)
LEMMA MutexStep == TypeOK /\ MutexHeld /\ [Next]_vars => MutexHeld'
<1> SUFFICES ASSUME TypeOK, MutexHeld, [Next]_vars PROVE MutexHeld'
    OBVIOUS
<1> USE PublisherAssumption DEF MutexHeld, Inside
<1>t. pc \in [Watchers -> Steps]
  BY DEF TypeOK
<1>1. ASSUME NEW w \in Watchers, mutex' = mutex,
             NEW s \in Steps, pc' = [pc EXCEPT ![w] = s], s \in Inside <=> pc[w] \in Inside
      PROVE  MutexHeld'
  BY <1>1, <1>t
<1>2. ASSUME NEW w \in Watchers, Lock(w) PROVE MutexHeld'
  BY <1>2, <1>t DEF Lock, Goto
<1>3. ASSUME NEW w \in Watchers, Promote(w) PROVE MutexHeld'
  BY <1>3, <1>t DEF Promote, Goto
<1>4. ASSUME NEW w \in Watchers, GiveUp(w) PROVE MutexHeld'
  BY <1>4, <1>t DEF GiveUp, Goto
<1>5. ASSUME Crash PROVE MutexHeld'
  BY <1>5 DEF Crash
<1>6. ASSUME NEW w \in Watchers, Start(w) \/ PollDone(w) \/ Sleep(w) \/ Cancel(w) \/ Export(w)
                                 \/ Draw(w) \/ Publish(w) \/ Ack(w)
      PROVE  MutexHeld'
  BY <1>6, <1>1 DEF Start, PollDone, Sleep, Cancel, Export, Draw, Publish, Ack, Goto, Steps, durable
<1>7. ASSUME NEW w \in Watchers, NEW r \in Requests, Pick(w, r) PROVE MutexHeld'
  BY <1>7, <1>1 DEF Pick, Goto, Steps
<1>8. ASSUME UNCHANGED <<mutex, pc>> PROVE MutexHeld'
  BY <1>8
<1>9. ASSUME NEW w \in Watchers, NEW t \in Tags, PollTag(w, t) PROVE MutexHeld'
  BY <1>9, <1>8 DEF PollTag
<1>10. ASSUME NEW t \in Tags, NEW d \in Digests \union {None}, MoveTag(t, d) PROVE MutexHeld'
  BY <1>10, <1>8 DEF MoveTag, volatile
<1>11. CASE UNCHANGED vars
  BY <1>11, <1>8 DEF vars, volatile
<1> QED
  BY <1>2, <1>3, <1>4, <1>5, <1>6, <1>7, <1>9, <1>10, <1>11
  DEF Next, Work, Drift, TriggerFails, AckFails

(* What a watcher has drawn, stored or covered.                            *)
Pending == {"publish", "promote", "ack"}

(* Progress without storing a release, drawing a number or moving the      *)
(* channel keeps the sequence facts, as long as no watcher gets to a step  *)
(* that relies on one of these.                                            *)
LEMMA QuietStep ==
    ASSUME Allocated, UniqueSequences, Stored, UNCHANGED <<releases, seqFile, channel>>,
           \A v \in Watchers : pc'[v] \in Pending =>
              pc'[v] = pc[v] /\ req'[v] = req[v] /\ drawn'[v] = drawn[v]
    PROVE  Allocated' /\ UniqueSequences' /\ Stored'
<1>1. Allocated'
  BY DEF Allocated, Pending
<1>2. UniqueSequences'
  BY DEF UniqueSequences
<1>3. Stored'
  BY DEF Stored, Covered, Pending
<1> QED BY <1>1, <1>2, <1>3

(* The next number is not in use, and no other watcher is inside Trigger.  *)
LEMMA DrawStep ==
    ASSUME TypeOK, MutexHeld, Allocated, UniqueSequences, Stored, NEW w \in Watchers, Draw(w)
    PROVE  Allocated' /\ UniqueSequences' /\ Stored'
<1> USE DEF Draw, Goto
<1>t. /\ pc \in [Watchers -> Steps] /\ drawn \in [Watchers -> Nat]
      /\ releases \in [Requests -> Nat] /\ seqFile \in Nat
  BY DEF TypeOK
<1>1. \A v \in Watchers : v # w => pc[v] \notin Inside
  BY DEF MutexHeld, Inside
<1>2. ASSUME NEW r \in Requests
      PROVE  releases'[r] <= seqFile' /\ releases'[r] < seqFile + 1
  <2>1. releases[r] \in Nat /\ releases[r] <= seqFile /\ releases' = releases
    BY <1>t DEF Allocated
  <2> QED BY <2>1, <1>t
<1>3. ASSUME NEW v \in Watchers, pc'[v] = "publish"
      PROVE  drawn'[v] = seqFile' /\ drawn'[v] # 0 /\ drawn'[v] = seqFile + 1
  <2>1. v = w
    BY <1>3, <1>1, <1>t DEF Inside
  <2> QED BY <2>1, <1>t
<1>4. Allocated'
  BY <1>2, <1>3 DEF Allocated
<1>5. UniqueSequences'
  BY DEF UniqueSequences
<1>6. Stored'
  BY <1>t DEF Stored, Covered
<1> QED BY <1>4, <1>5, <1>6

(* The release stored gets the drawn number, newer than every other one.   *)
LEMMA PublishStep ==
    ASSUME TypeOK, MutexHeld, Allocated, UniqueSequences, Stored, NEW w \in Watchers, Publish(w)
    PROVE  /\ Allocated' /\ UniqueSequences' /\ Stored'
           /\ \A r \in Requests : Covered(r) => Covered(r)'
<1> USE DEF Publish, Goto
<1>t. /\ pc \in [Watchers -> Steps] /\ drawn \in [Watchers -> Nat]
      /\ releases \in [Requests -> Nat] /\ seqFile \in Nat
      /\ req[w] \in Requests /\ channel \in Requests \union {None}
      /\ \A v \in Watchers : pc[v] = "ack" => req[v] \in Requests
  BY DEF TypeOK, Inside
<1>1. \A v \in Watchers : v # w => pc[v] \notin Inside
  BY DEF MutexHeld, Inside
<1>2. drawn[w] = seqFile /\ drawn[w] # 0 /\ \A r \in Requests : releases[r] < drawn[w]
  BY DEF Allocated
<1>3. \A r \in Requests : releases'[r] = IF r = req[w] THEN drawn[w] ELSE releases[r]
  BY <1>t
<1>4. \A r \in Requests : releases'[r] <= seqFile'
  BY <1>2, <1>3, <1>t DEF Allocated
<1>5. \A v \in Watchers : pc'[v] # "publish"
  BY <1>1, <1>t DEF Inside
<1>6. Allocated'
  BY <1>4, <1>5 DEF Allocated
<1>7. UniqueSequences'
  BY <1>2, <1>3, <1>t DEF UniqueSequences
<1>8. ASSUME NEW r \in Requests, Covered(r) PROVE Covered(r)'
  <2>1. r # req[w] /\ channel # None /\ channel # req[w]
    BY <1>8 DEF Covered, Stored
  <2> QED BY <1>8, <2>1, <1>3, <1>t DEF Covered
<1>9. Stored'
  <2>1. (channel # None => releases[channel] # 0)'
    BY <1>2, <1>3, <1>t DEF Stored
  <2>2. \A v \in Watchers : pc'[v] = "promote" => releases'[req'[v]] # 0
    BY <1>1, <1>2, <1>3, <1>t DEF Inside
  <2>3. ASSUME NEW v \in Watchers, pc'[v] = "ack" PROVE Covered(req[v])'
    <3>1. pc[v] = "ack" /\ req[v] \in Requests
      BY <2>3, <1>t
    <3>2. Covered(req[v])
      BY <3>1 DEF Stored
    <3>3. Covered(req[v])'
      BY <3>1, <3>2, <1>8 DEF Covered
    <3> QED BY <3>3
  <2> QED BY <2>1, <2>2, <2>3 DEF Stored
<1> QED BY <1>6, <1>7, <1>8, <1>9

(* promote leaves the channel at the request's release or a newer one, and *)
(* at one no older than before.                                            *)
LEMMA PromoteStep ==
    ASSUME TypeOK, Allocated, UniqueSequences, Stored, NEW w \in Watchers, Promote(w)
    PROVE  /\ Allocated' /\ UniqueSequences' /\ Stored'
           /\ \A r \in Requests : Covered(r) => Covered(r)'
<1> USE DEF Promote, Goto
<1>t. /\ pc \in [Watchers -> Steps] /\ releases \in [Requests -> Nat]
      /\ req[w] \in Requests /\ channel \in Requests \union {None}
      /\ \A v \in Watchers : pc[v] = "ack" => req[v] \in Requests
      /\ None \notin Requests
  BY PublisherAssumption DEF TypeOK, Inside, Requests
<1>1. releases[req[w]] # 0
  BY DEF Stored
<1>2. /\ channel' \in Requests /\ releases[channel'] >= releases[req[w]]
      /\ channel # None => releases[channel'] >= releases[channel]
  <2>1. CASE Supersedes(req[w]) /\ channel' = req[w]
    BY <2>1, <1>t DEF Supersedes
  <2>2. CASE channel # None /\ channel' = channel
             /\ (channel # req[w] => releases[channel] > releases[req[w]])
    <3>1. releases[channel] \in Nat /\ releases[req[w]] \in Nat
      BY <2>2, <1>t
    <3>2. releases[channel] >= releases[req[w]]
      BY <2>2, <3>1
    <3> QED BY <2>2, <3>1, <3>2, <1>t
  <2> QED BY <2>1, <2>2
<1>3. ASSUME NEW r \in Requests, Covered(r) PROVE Covered(r)'
  BY <1>2, <1>3, <1>t DEF Covered
<1>4. Covered(req[w])'
  BY <1>1, <1>2, <1>t DEF Covered
<1>5. Allocated'
  BY <1>t DEF Allocated
<1>6. UniqueSequences'
  BY DEF UniqueSequences
<1>7. Stored'
  <2>1. (channel # None => releases[channel] # 0)'
    BY <1>1, <1>2, <1>t
  <2>2. \A v \in Watchers : pc'[v] = "promote" => releases'[req'[v]] # 0
    BY <1>t DEF Stored
  <2>3. ASSUME NEW v \in Watchers, pc'[v] = "ack" PROVE Covered(req[v])'
    <3>1. CASE v = w
      BY <3>1, <1>4
    <3>2. CASE v # w
      <4>1. pc[v] = "ack" /\ req[v] \in Requests
        BY <2>3, <3>2, <1>t
      <4>2. Covered(req[v])
        BY <4>1 DEF Stored
      <4>3. Covered(req[v])'
        BY <4>1, <4>2, <1>3 DEF Covered
      <4> QED BY <4>3
    <3> QED BY <3>1, <3>2
  <2> QED BY <2>1, <2>2, <2>3 DEF Stored
<1> QED BY <1>3, <1>5, <1>6, <1>7

(* Every step of Next keeps the facts about sequence numbers, and what the *)
(* channel covers it goes on covering.                                     *)
LEMMA SequenceStep ==
    TypeOK /\ MutexHeld /\ Allocated /\ UniqueSequences /\ Stored /\ [Next]_vars
       => /\ Allocated' /\ UniqueSequences' /\ Stored'
          /\ \A r \in Requests : Covered(r) => Covered(r)'
<1> DEFINE Kept == /\ Allocated' /\ UniqueSequences' /\ Stored'
                   /\ \A r \in Requests : Covered(r) => Covered(r)'
<1> SUFFICES ASSUME TypeOK, MutexHeld, Allocated, UniqueSequences, Stored, [Next]_vars
             PROVE  Kept
    OBVIOUS
<1>t. /\ pc \in [Watchers -> Steps] /\ req \in [Watchers -> Requests \union {None}]
      /\ drawn \in [Watchers -> Nat]
  BY DEF TypeOK
<1>1. ASSUME UNCHANGED <<releases, seqFile, channel>>,
             \A v \in Watchers : pc'[v] \in Pending =>
                pc'[v] = pc[v] /\ req'[v] = req[v] /\ drawn'[v] = drawn[v]
      PROVE  Kept
  <2>1. \A r \in Requests : Covered(r) => Covered(r)'
    BY <1>1 DEF Covered
  <2> QED BY <1>1, <2>1, QuietStep
<1>2. ASSUME NEW w \in Watchers, Draw(w) PROVE Kept
  <2>1. \A r \in Requests : Covered(r) => Covered(r)'
    BY <1>2 DEF Covered, Draw
  <2> QED BY <1>2, <2>1, DrawStep
<1>3. ASSUME NEW w \in Watchers, Publish(w) PROVE Kept
  BY <1>3, PublishStep
<1>4. ASSUME NEW w \in Watchers, Promote(w) PROVE Kept
  BY <1>4, PromoteStep
<1>5. ASSUME NEW w \in Watchers, Lock(w) PROVE Kept
  <2>1. UNCHANGED <<releases, seqFile, channel, req, drawn>>
    BY <1>5 DEF Lock, durable
  <2>2. CASE releases[req[w]] = 0
    BY <1>5, <1>1, <2>1, <2>2, <1>t DEF Lock, Goto, Pending
  <2>3. CASE releases[req[w]] # 0
    <3>1. pc' = [pc EXCEPT ![w] = "promote"]
      BY <1>5, <2>3 DEF Lock, Goto
    <3>2. Allocated' /\ UniqueSequences'
      BY <2>1, <3>1, <1>t DEF Allocated, UniqueSequences
    <3>3. Stored'
      BY <2>1, <2>3, <3>1, <1>t DEF Stored, Covered
    <3>4. \A r \in Requests : Covered(r) => Covered(r)'
      BY <2>1 DEF Covered
    <3> QED BY <3>2, <3>3, <3>4
  <2> QED BY <2>2, <2>3
<1>6. ASSUME NEW w \in Watchers, GiveUp(w), UNCHANGED <<releases, seqFile, channel>> PROVE Kept
  BY <1>6, <1>1, <1>t DEF GiveUp, Goto, Pending
<1>7. ASSUME NEW w \in Watchers, Drift(w) \/ TriggerFails(w) \/ AckFails(w) PROVE Kept
  BY <1>7, <1>6 DEF Drift, TriggerFails, AckFails, durable
<1>8. ASSUME NEW w \in Watchers, Start(w) \/ PollDone(w) \/ Sleep(w) \/ Cancel(w) \/ Export(w) \/ Ack(w)
      PROVE  Kept
  BY <1>8, <1>1, <1>t DEF Start, PollDone, Sleep, Cancel, Export, Ack, Goto, Pending, durable
<1>9. ASSUME NEW w \in Watchers, NEW t \in Tags, PollTag(w, t) PROVE Kept
  BY <1>9, <1>1 DEF PollTag, durable
<1>10. ASSUME NEW w \in Watchers, NEW r \in Requests, Pick(w, r) PROVE Kept
  BY <1>10, <1>1, <1>t DEF Pick, Goto, Pending, durable
<1>11. ASSUME Crash PROVE Kept
  BY <1>11, <1>1 DEF Crash, durable, Pending
<1>12. ASSUME NEW t \in Tags, NEW d \in Digests \union {None}, MoveTag(t, d) PROVE Kept
  BY <1>12, <1>1 DEF MoveTag, durable, volatile
<1>13. CASE UNCHANGED vars
  BY <1>13, <1>1 DEF vars, durable, volatile
<1> QED
  BY <1>2, <1>3, <1>4, <1>5, <1>7, <1>8, <1>9, <1>10, <1>11, <1>12, <1>13 DEF Next, Work

(* A map whose digests are covered stays covered when a covered request is *)
(* written to it.                                                          *)
LEMMA CoveredMap ==
    ASSUME TypeOK, MemoryIsCovered, NEW w \in Watchers, pc[w] = "ack", Stored
    PROVE  \A t \in Tags : Acknowledged(w)[t] # None => Covered(<<t, Acknowledged(w)[t]>>)
<1>1. req[w] \in Requests /\ Covered(req[w])
  BY AckTypes DEF Stored
<1>2. req[w] = <<req[w][1], req[w][2]>> /\ req[w][1] \in Tags
  BY <1>1, RequestParts
<1>3. ASSUME NEW t \in Tags
      PROVE  Acknowledged(w)[t] = IF t = req[w][1] THEN req[w][2] ELSE memory[t]
  BY <1>2 DEF TypeOK, Acked, Acknowledged
<1> QED BY <1>1, <1>2, <1>3 DEF MemoryIsCovered

(* Everything acknowledged stays covered: only Acknowledge adds digests,   *)
(* and only of a request the channel covers.                               *)
LEMMA AcknowledgedStep == IInv /\ [Next]_vars => MemoryIsCovered' /\ SeenIsCovered'
<1> SUFFICES ASSUME IInv, [Next]_vars PROVE MemoryIsCovered' /\ SeenIsCovered'
    OBVIOUS
<1>t. /\ TypeOK /\ MutexHeld /\ Allocated /\ UniqueSequences /\ Stored
      /\ MemoryIsCovered /\ SeenIsCovered
  BY DEF IInv
<1>1. \A r \in Requests : Covered(r) => Covered(r)'
  BY <1>t, SequenceStep
<1>2. /\ memory \in Acked /\ seen \in Acked
  BY <1>t DEF TypeOK
<1>3. ASSUME NEW t \in Tags, NEW d \in Digests, Covered(<<t, d>>) PROVE Covered(<<t, d>>)'
  BY <1>1, <1>3 DEF Requests
<1>4. ASSUME UNCHANGED memory PROVE MemoryIsCovered'
  BY <1>2, <1>3, <1>4, <1>t DEF MemoryIsCovered, Acked
<1>5. ASSUME UNCHANGED seen PROVE SeenIsCovered'
  BY <1>2, <1>3, <1>5, <1>t DEF SeenIsCovered, Acked
<1>6. ASSUME NEW w \in Watchers, pc[w] = "ack", SaveState(w) PROVE SeenIsCovered'
  <2>1. Acknowledged(w) \in Acked
    BY <1>6, <1>t, AckTypes
  <2>2. \A t \in Tags : Acknowledged(w)[t] # None => Covered(<<t, Acknowledged(w)[t]>>)
    BY <1>6, <1>t, CoveredMap
  <2>3. \A t \in Tags : seen'[t] # None =>
           seen'[t] \in Digests /\ Covered(<<t, seen'[t]>>)
    BY <1>2, <1>6, <1>t, <2>1, <2>2 DEF SaveState, SeenIsCovered, Acked
  <2>4. \A t \in Tags : seen'[t] # None =>
           /\ releases'[<<t, seen'[t]>>] # 0
           /\ channel' # None
           /\ releases'[channel'] >= releases'[<<t, seen'[t]>>]
    BY <1>3, <2>3 DEF Covered
  <2> QED BY <2>4 DEF SeenIsCovered, Covered
<1>7. ASSUME NEW w \in Watchers, Ack(w) PROVE MemoryIsCovered' /\ SeenIsCovered'
  <2>1. pc[w] = "ack" /\ SaveState(w) /\ memory' = Acknowledged(w)
        /\ UNCHANGED <<releases, channel>>
    BY <1>7 DEF Ack
  <2>2. \A t \in Tags : Acknowledged(w)[t] # None => Covered(<<t, Acknowledged(w)[t]>>)
    BY <2>1, <1>t, CoveredMap
  <2>3. MemoryIsCovered'
    BY <2>1, <2>2 DEF MemoryIsCovered, Covered
  <2> QED BY <2>1, <2>3, <1>6
<1>8. ASSUME NEW w \in Watchers, AckFails(w) PROVE MemoryIsCovered' /\ SeenIsCovered'
  BY <1>8, <1>4, <1>5, <1>6 DEF AckFails
<1>9. ASSUME NEW w \in Watchers, Start(w) PROVE MemoryIsCovered' /\ SeenIsCovered'
  <2>1. UNCHANGED <<seen, releases, channel>>
    BY <1>9 DEF Start, durable
  <2>2. memory' = [t \in Tags |-> IF t \in TagsOf(w) THEN seen[t] ELSE memory[t]]
    BY <1>9 DEF Start
  <2>3. MemoryIsCovered'
    BY <2>1, <2>2, <1>t DEF MemoryIsCovered, SeenIsCovered, Covered
  <2> QED BY <2>1, <2>3, <1>5
<1>10. ASSUME Crash PROVE MemoryIsCovered' /\ SeenIsCovered'
  <2>1. MemoryIsCovered'
    BY <1>10 DEF Crash, MemoryIsCovered
  <2> QED BY <2>1, <1>5, <1>10 DEF Crash, durable
<1>11. ASSUME UNCHANGED <<memory, seen>> PROVE MemoryIsCovered' /\ SeenIsCovered'
  BY <1>4, <1>5, <1>11
<1>12. ASSUME NEW w \in Watchers, PollDone(w) \/ Sleep(w) \/ Cancel(w) \/ Lock(w) \/ Export(w) \/ Draw(w)
                 \/ Publish(w) \/ Promote(w) \/ Drift(w) \/ TriggerFails(w)
       PROVE  MemoryIsCovered' /\ SeenIsCovered'
  BY <1>11, <1>12
  DEF PollDone, Sleep, Cancel, Lock, Export, Draw, Publish, Promote, Drift, TriggerFails, durable
<1>13. ASSUME NEW w \in Watchers, NEW t \in Tags, PollTag(w, t)
       PROVE  MemoryIsCovered' /\ SeenIsCovered'
  BY <1>11, <1>13 DEF PollTag, durable
<1>14. ASSUME NEW w \in Watchers, NEW r \in Requests, Pick(w, r)
       PROVE  MemoryIsCovered' /\ SeenIsCovered'
  BY <1>11, <1>14 DEF Pick, durable
<1>15. ASSUME NEW t \in Tags, NEW d \in Digests \union {None}, MoveTag(t, d)
       PROVE  MemoryIsCovered' /\ SeenIsCovered'
  BY <1>11, <1>15 DEF MoveTag, durable, volatile
<1>16. CASE UNCHANGED vars
  BY <1>11, <1>16 DEF vars, durable, volatile
<1> QED
  BY <1>7, <1>8, <1>9, <1>10, <1>12, <1>13, <1>14, <1>15, <1>16 DEF Next, Work

(* A publication root without releases satisfies the invariant.            *)
LEMMA InitIInv == Init => IInv
<1> SUFFICES ASSUME Init PROVE IInv
    OBVIOUS
<1> USE PublisherAssumption DEF Init
<1>1. TypeOK
  BY DEF TypeOK, Acked, Steps, Inside
<1>2. MutexHeld /\ Allocated /\ Stored
  BY DEF MutexHeld, Allocated, Stored, Inside
<1>3. UniqueSequences
  BY DEF UniqueSequences
<1>4. MemoryIsCovered /\ SeenIsCovered
  BY DEF MemoryIsCovered, SeenIsCovered
<1> QED BY <1>1, <1>2, <1>3, <1>4 DEF IInv

(* The invariant holds of every behaviour of the publisher.                *)
THEOREM PublisherInvariant == Spec => []IInv
<1>1. IInv /\ [Next]_vars => IInv'
  BY TypeStep, MutexStep, SequenceStep, AcknowledgedStep DEF IInv
<1> QED BY <1>1, InitIInv, PTL DEF Spec

(* Every variable keeps its type: a watcher inside Trigger has a request.  *)
THEOREM PublisherTypeOK == Spec => []TypeOK
<1>1. IInv => TypeOK
  BY DEF IInv
<1> QED BY <1>1, PublisherInvariant, PTL

(* No two releases carry the same sequence number, whatever fails or       *)
(* crashes between nextSequence, lab.Publish and promote.                  *)
THEOREM PublisherUniqueSequences == Spec => []UniqueSequences
<1>1. IInv => UniqueSequences
  BY DEF IInv
<1> QED BY <1>1, PublisherInvariant, PTL

(* A digest in the watcher's state file has a stored release, and the      *)
(* channel holds it or a newer one.                                        *)
THEOREM PublisherSeenIsCovered == Spec => []SeenIsCovered
<1>1. IInv => SeenIsCovered
  BY DEF IInv
<1> QED BY <1>1, PublisherInvariant, PTL

(* promote never moves the channel back.                                   *)
THEOREM PublisherChannelAdvances == Spec => ChannelAdvances
<1> DEFINE Advance == channel # None => /\ channel' # None
                                        /\ releases'[channel'] > releases[channel]
<1>1. TypeOK /\ [Next]_vars => [Advance]_channel
  <2> SUFFICES ASSUME TypeOK, [Next]_vars, channel' # channel PROVE Advance
    OBVIOUS
  <2>1. PICK w \in Watchers : Promote(w)
    BY DEF Next, Work, Start, PollTag, PollDone, Pick, Sleep, Cancel, Lock, Export, Draw, Publish, Ack,
           Drift, TriggerFails, AckFails, Crash, MoveTag, vars, durable
  <2>2. /\ Supersedes(req[w]) /\ channel' = req[w] /\ releases' = releases
        /\ req[w] \in Requests
    BY <2>1 DEF Promote, TypeOK, Inside
  <2>3. None \notin Requests
    BY PublisherAssumption DEF Requests
  <2>4. releases \in [Requests -> Nat] /\ channel \in Requests \union {None}
    BY DEF TypeOK
  <2> QED BY <2>2, <2>3, <2>4 DEF Supersedes
<1> QED BY <1>1, PublisherTypeOK, PTL DEF Spec, ChannelAdvances
=============================================================================
