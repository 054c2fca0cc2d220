----------------------------- MODULE Publisher -----------------------------
(***************************************************************************)
(* The registry watcher and its publish trigger                            *)
(* (internal/registry/watcher.go, internal/registry/publish.go,            *)
(* internal/lab/publish.go).  Each watcher polls its tags, and publishes   *)
(* every digest it has not acknowledged: export, draw a sequence number,   *)
(* sign and store an immutable release, promote it to the channel,         *)
(* acknowledge.  Several watchers of one process may share a publication   *)
(* root; Trigger runs under publicationMu.  Each durable write is an       *)
(* action, so a crash or an error can fall between any two of them.        *)
(*                                                                         *)
(* A release is named after the identity of its request, so it is modelled *)
(* by that request <<tag, digest>>.                                        *)
(***************************************************************************)
EXTENDS Naturals, FiniteSets

CONSTANTS
    Watchers,     \* watcher loops of the publisher process
    Tags,         \* repository tags; the order of the numbers is scan order
    Digests,      \* image manifest digests
    OwnerOf,      \* the watcher whose configuration selects a tag
    MaxMoves,     \* bound: changes of the registry
    MaxFaults,    \* bound: failed calls, failed writes and crashes
    None

ASSUME PublisherAssumption ==
    /\ Tags \subseteq Nat
    /\ OwnerOf \in [Tags -> Watchers]
    /\ MaxMoves \in Nat /\ MaxFaults \in Nat
    /\ None \notin Digests /\ None \notin Tags \X Digests /\ None \notin Watchers

VARIABLES
    registry,     \* the digest each tag has in the registry, None if absent
    seen,         \* watcher state file: acknowledged digest per tag
    seqFile,      \* sequence file
    releases,     \* sequence of the stored release of a request, 0 if none
    channel,      \* request whose release the channel file holds
    mutex,        \* holder of publicationMu
    pc,           \* where each watcher is
    memory,       \* Watcher.state, loaded from the state file
    scan,         \* tags this poll has still to ask for
    batch,        \* publish requests found by this poll
    req,          \* the request being triggered
    drawn,        \* sequence number it drew
    moves, faults \* how much of the bounds is used

durable  == <<seen, seqFile, releases, channel>>
volatile == <<mutex, pc, memory, scan, batch, req, drawn>>
vars     == <<registry, durable, volatile, moves, faults>>

Requests == Tags \X Digests
Acked    == [Tags -> Digests \union {None}]

Steps == {"down", "poll", "pick", "lock", "export", "draw", "publish", "promote", "ack"}

(* Steps inside Trigger, which holds publicationMu.                        *)
Inside == {"export", "draw", "publish", "promote"}

TypeOK ==
    /\ registry \in Acked
    /\ seen \in Acked
    /\ seqFile \in Nat
    /\ releases \in [Requests -> Nat]
    /\ channel \in Requests \union {None}
    /\ mutex \in Watchers \union {None}
    /\ pc \in [Watchers -> Steps]
    /\ memory \in Acked
    /\ scan \in [Watchers -> SUBSET Tags]
    /\ batch \in [Watchers -> SUBSET Requests]
    /\ req \in [Watchers -> Requests \union {None}]
    /\ \A w \in Watchers : pc[w] \in Inside \union {"lock", "ack"} => req[w] \in Requests
    /\ drawn \in [Watchers -> Nat]
    /\ moves \in 0..MaxMoves
    /\ faults \in 0..MaxFaults

Init ==
    /\ registry \in Acked
    /\ seen = [t \in Tags |-> None]
    /\ seqFile = 0
    /\ releases = [r \in Requests |-> 0]
    /\ channel = None
    /\ mutex = None
    /\ pc = [w \in Watchers |-> "down"]
    /\ memory = [t \in Tags |-> None]
    /\ scan = [w \in Watchers |-> {}]
    /\ batch = [w \in Watchers |-> {}]
    /\ req = [w \in Watchers |-> None]
    /\ drawn = [w \in Watchers |-> 0]
    /\ moves = 0
    /\ faults = 0

-----------------------------------------------------------------------------
TagsOf(w) == {t \in Tags : OwnerOf[t] = w}

Goto(w, step) == pc' = [pc EXCEPT ![w] = step]

Fault == faults < MaxFaults /\ faults' = faults + 1

(* NewWatcher: loadState.                                                  *)
Start(w) ==
    /\ pc[w] = "down"
    /\ memory' = [t \in Tags |-> IF t \in TagsOf(w) THEN seen[t] ELSE memory[t]]
    /\ scan' = [scan EXCEPT ![w] = TagsOf(w)]
    /\ Goto(w, "poll")
    /\ UNCHANGED <<registry, durable, mutex, batch, req, drawn, moves, faults>>

FirstDigest(t) == \* variant: a tag is published once
    registry[t] # None /\ memory[t] = None

(* A present tag whose digest is not the acknowledged one.                 *)
Unacknowledged(t) == registry[t] \notin {None, memory[t]}

(* PollOnce asks for the tags in sorted order.  A tag the registry answers *)
(* for becomes a request unless it is acknowledged; a tag it fails to      *)
(* answer for is skipped and the scan goes on.                             *)
PollTag(w, t) ==
    /\ pc[w] = "poll"
    /\ t \in scan[w]
    /\ \A u \in scan[w] : t <= u
    /\ scan' = [scan EXCEPT ![w] = @ \ {t}]
    /\ \/ /\ batch' = [batch EXCEPT ![w] =
                IF Unacknowledged(t) THEN @ \union {<<t, registry[t]>>} ELSE @]
          /\ faults' = faults
       \/ Fault /\ batch' = batch
    /\ UNCHANGED <<registry, durable, mutex, pc, memory, req, drawn, moves>>

PollDone(w) ==
    /\ pc[w] = "poll"
    /\ scan[w] = {}
    /\ Goto(w, "pick")
    /\ UNCHANGED <<registry, durable, mutex, memory, scan, batch, req, drawn, moves, faults>>

(* Run takes the requests in the order they were found ...                 *)
Pick(w, r) ==
    /\ pc[w] = "pick"
    /\ r \in batch[w]
    /\ \A s \in batch[w] : r[1] <= s[1]
    /\ batch' = [batch EXCEPT ![w] = @ \ {r}]
    /\ req' = [req EXCEPT ![w] = r]
    /\ Goto(w, "lock")
    /\ UNCHANGED <<registry, durable, mutex, memory, scan, drawn, moves, faults>>

(* ... and sleeps until the next poll once they are done.                  *)
Sleep(w) ==
    /\ pc[w] = "pick"
    /\ batch[w] = {}
    /\ scan' = [scan EXCEPT ![w] = TagsOf(w)]
    /\ Goto(w, "poll")
    /\ UNCHANGED <<registry, durable, mutex, memory, batch, req, drawn, moves, faults>>

(* Cancelled between two polls, Run returns; Agent.Run may be called again.*)
Cancel(w) ==
    /\ pc[w] = "pick"
    /\ batch[w] = {}
    /\ Goto(w, "down")
    /\ UNCHANGED <<registry, durable, mutex, memory, scan, batch, req, drawn, moves, faults>>

LockResumed(w) == \* variant: a stored release counts as published
    /\ pc[w] = "lock"
    /\ mutex = None
    /\ mutex' = IF releases[req[w]] # 0 THEN None ELSE w
    /\ Goto(w, IF releases[req[w]] # 0 THEN "ack" ELSE "export")
    /\ UNCHANGED <<registry, durable, memory, scan, batch, req, drawn, moves, faults>>

(* Trigger: publicationMu, then the stored release of this identity, when  *)
(* there is one, is promoted as it is.                                     *)
Lock(w) ==
    /\ pc[w] = "lock"
    /\ mutex = None
    /\ mutex' = w
    /\ Goto(w, IF releases[req[w]] # 0 THEN "promote" ELSE "export")
    /\ UNCHANGED <<registry, durable, memory, scan, batch, req, drawn, moves, faults>>

(* remoteImage fetches by tag and refuses a digest that drifted.           *)
Export(w) ==
    /\ pc[w] = "export"
    /\ registry[req[w][1]] = req[w][2]
    /\ Goto(w, "draw")
    /\ UNCHANGED <<registry, durable, mutex, memory, scan, batch, req, drawn, moves, faults>>

DrawLater(w) == \* variant: the number is used before it is persisted
    /\ pc[w] = "draw"
    /\ drawn' = [drawn EXCEPT ![w] = seqFile + 1]
    /\ Goto(w, "publish")
    /\ UNCHANGED <<registry, durable, mutex, memory, scan, batch, req, moves, faults>>

(* nextSequence: the bumped number is persisted before it is used.         *)
Draw(w) ==
    /\ pc[w] = "draw"
    /\ seqFile' = seqFile + 1
    /\ drawn' = [drawn EXCEPT ![w] = seqFile + 1]
    /\ Goto(w, "publish")
    /\ UNCHANGED <<registry, seen, releases, channel, mutex, memory, scan, batch, req, moves, faults>>

(* lab.Publish: chunks, signature, then the immutable release file.        *)
Publish(w) ==
    /\ pc[w] = "publish"
    /\ releases[req[w]] = 0
    /\ releases' = [releases EXCEPT ![req[w]] = drawn[w]]
    /\ Goto(w, "promote")
    /\ UNCHANGED <<registry, seen, seqFile, channel, mutex, memory, scan, batch, req, drawn,
                   moves, faults>>

SupersedesAny(r) == channel # r \* variant: as the promote command does

(* promote: the same bytes, or a smaller sequence than the channel's, is a *)
(* success that changes nothing; an equal sequence is an error.            *)
Supersedes(r) == channel # None => releases[channel] < releases[r]

Promote(w) ==
    /\ pc[w] = "promote"
    /\ \/ /\ Supersedes(req[w])
          /\ channel' = req[w]
       \/ /\ channel # None
          /\ channel # req[w] => releases[channel] > releases[req[w]]
          /\ UNCHANGED channel
    /\ mutex' = None
    /\ Goto(w, "ack")
    /\ UNCHANGED <<registry, seen, seqFile, releases, memory, scan, batch, req, drawn, moves,
                   faults>>

(* The map Acknowledge writes: the watcher's own, with the request added.  *)
Acknowledged(w) == [memory EXCEPT ![req[w][1]] = req[w][2]]

SaveState(w) == seen' = [t \in Tags |-> IF t \in TagsOf(w) THEN Acknowledged(w)[t] ELSE seen[t]]

(* Acknowledge: state file, then memory.                                   *)
Ack(w) ==
    /\ pc[w] = "ack"
    /\ SaveState(w)
    /\ memory' = Acknowledged(w)
    /\ req' = [req EXCEPT ![w] = None]
    /\ drawn' = [drawn EXCEPT ![w] = 0]
    /\ Goto(w, "pick")
    /\ UNCHANGED <<registry, seqFile, releases, channel, mutex, scan, batch, moves,
                   faults>>

-----------------------------------------------------------------------------
(* An error breaks off the batch; the rest is found again by a later poll. *)
GiveUp(w) ==
    /\ mutex' = IF mutex = w THEN None ELSE mutex
    /\ batch' = [batch EXCEPT ![w] = {}]
    /\ scan' = [scan EXCEPT ![w] = {}]
    /\ req' = [req EXCEPT ![w] = None]
    /\ drawn' = [drawn EXCEPT ![w] = 0]
    /\ Goto(w, "pick")

(* Digest drift between the poll and the export.                           *)
Drift(w) ==
    /\ pc[w] = "export"
    /\ registry[req[w][1]] # req[w][2]
    /\ GiveUp(w)
    /\ UNCHANGED <<registry, durable, memory, moves, faults>>

(* Any other failed call of Trigger.  (A failure after the rename of an    *)
(* atomic write is the same failure at the next step.)                     *)
TriggerFails(w) ==
    /\ pc[w] \in Inside
    /\ Fault
    /\ GiveUp(w)
    /\ UNCHANGED <<registry, durable, memory, moves>>

(* Acknowledge failed; the state file may have been renamed already, but   *)
(* memory keeps the old map.                                               *)
AckFails(w) ==
    /\ pc[w] = "ack"
    /\ Fault
    /\ SaveState(w) \/ seen' = seen
    /\ GiveUp(w)
    /\ UNCHANGED <<registry, seqFile, releases, channel, memory, moves>>

(* The publisher process dies and all its watchers with it.                *)
Crash ==
    /\ \E w \in Watchers : pc[w] # "down"
    /\ Fault
    /\ pc' = [w \in Watchers |-> "down"]
    /\ mutex' = None
    /\ memory' = [t \in Tags |-> None]
    /\ scan' = [w \in Watchers |-> {}]
    /\ batch' = [w \in Watchers |-> {}]
    /\ req' = [w \in Watchers |-> None]
    /\ drawn' = [w \in Watchers |-> 0]
    /\ UNCHANGED <<registry, durable, moves>>

(* Somebody pushes, moves or deletes a tag.                                *)
MoveTag(t, d) ==
    /\ moves < MaxMoves
    /\ registry[t] # d
    /\ registry' = [registry EXCEPT ![t] = d]
    /\ moves' = moves + 1
    /\ UNCHANGED <<durable, volatile, faults>>

Work(w) ==
    \/ Start(w)
    \/ \E t \in Tags : PollTag(w, t)
    \/ PollDone(w)
    \/ \E r \in Requests : Pick(w, r)
    \/ Sleep(w)
    \/ Lock(w)
    \/ Export(w)
    \/ Draw(w)
    \/ Publish(w)
    \/ Promote(w)
    \/ Ack(w)
    \/ Drift(w)

Next ==
    \/ \E w \in Watchers : Work(w) \/ Cancel(w) \/ TriggerFails(w) \/ AckFails(w)
    \/ Crash
    \/ \E t \in Tags, d \in Digests \union {None} : MoveTag(t, d)

Spec == Init /\ [][Next]_vars

(* Watcher.Run polls for ever and the supervisor restarts the process.     *)
FairSpec == Spec /\ \A w \in Watchers : WF_vars(Work(w))

-----------------------------------------------------------------------------
(* Whatever fails or crashes between drawing a number, storing the release *)
(* and promoting it, no two releases ever carry the same sequence number   *)
(* (receivers would reject the second as equivocation).                    *)
UniqueSequences ==
    \A r, s \in Requests : releases[r] # 0 /\ releases[r] = releases[s] => r = s

(* The channel only moves to a release with a larger sequence number, so a *)
(* retry of an older publication never rolls it back.                      *)
ChannelAdvances ==
    [][channel # None => /\ channel' # None
                         /\ releases'[channel'] > releases[channel]]_channel

Covered(r) ==
    /\ releases[r] # 0
    /\ channel # None
    /\ releases[channel] >= releases[r]

(* An acknowledged digest has a stored release, and the channel holds that *)
(* release or a newer one.                                                 *)
SeenIsCovered == \A t \in Tags : seen[t] # None => Covered(<<t, seen[t]>>)

(* Once the registry rests and faults stop, the watcher's status reports   *)
(* every tag's digest as acknowledged for good.  (The state file may hold  *)
(* an older digest when a failed Acknowledge renamed it and the tag then   *)
(* moved back; the next acknowledgement or restart repairs it.)            *)
EventuallySeen ==
    <>[](\A t \in Tags : registry[t] # None => memory[t] = registry[t])

-----------------------------------------------------------------------------
(* The parts of the inductive invariant.                                   *)
MutexHeld == \A w \in Watchers : pc[w] \in Inside <=> mutex = w

(* Release numbers come from the sequence file, and the number a publisher *)
(* has drawn is newer than every one in use.                               *)
Allocated ==
    /\ \A r \in Requests : releases[r] <= seqFile
    /\ \A w \in Watchers : pc[w] = "publish" =>
        /\ drawn[w] = seqFile
        /\ drawn[w] # 0
        /\ \A r \in Requests : releases[r] < drawn[w]

(* What a step relies on having been stored by the steps before it.        *)
Stored ==
    /\ channel # None => releases[channel] # 0
    /\ \A w \in Watchers : pc[w] = "promote" => releases[req[w]] # 0
    /\ \A w \in Watchers : pc[w] = "ack" => Covered(req[w])

MemoryIsCovered == \A t \in Tags : memory[t] # None => Covered(<<t, memory[t]>>)

(* The inductive invariant: the lock is held by the watcher inside Trigger,*)
(* its number is fresh, and everything acknowledged, on disk or in memory, *)
(* is covered by the channel.                                              *)
IInv ==
    /\ TypeOK
    /\ MutexHeld
    /\ Allocated
    /\ UniqueSequences
    /\ Stored
    /\ MemoryIsCovered
    /\ SeenIsCovered
=============================================================================
