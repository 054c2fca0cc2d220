------------------------------ MODULE Receipts ------------------------------
(***************************************************************************)
(* Sender acknowledgements (internal/lab/telemetry.go) as Sync uses them:  *)
(* the outbox is flushed before Sync takes agent.lock, and a successful    *)
(* Sync queues its receipt and flushes again after it has released the     *)
(* lock.  Several processes share the state directory, so flushes and the  *)
(* write of a receipt overlap each other and the CleanTemps of whoever     *)
(* holds the lock.  The body of Sync is the subject of Agent; here it      *)
(* succeeds or fails.                                                      *)
(*                                                                         *)
(* Receipts are named by the digest of their content, which includes the   *)
(* time: a receipt is the number of the Sync that wrote it.                *)
(***************************************************************************)
EXTENDS Naturals, FiniteSets

CONSTANTS
    Procs,        \* processes that run Sync on the state directory
    MaxReceipts,  \* bound: successful Syncs
    MaxFailures,    \* bound: crashes, failed posts and failed writes
    Nobody

ASSUME ReceiptsAssumption == MaxReceipts \in Nat /\ MaxFailures \in Nat /\ Nobody \notin Procs

VARIABLES
    outbox,       \* receipts in outbox/*.json
    origin,       \* receipts in the hub's receipts directory
    temps,        \* processes whose outbox temp file exists
    lock,         \* holder of agent.lock
    at,           \* where each process is
    then,         \* what it does after a flush
    entries,         \* entries of its ReadDir it has still to post
    posting,      \* the receipt it posts or has posted
    mine,         \* the receipt it has to queue
    written,      \* history: successful Syncs
    queued,       \* history: receipts whose queueReceipt returned nil
    failures

disk   == <<outbox, temps, lock>>
process == <<at, then, entries, posting, mine>>
receiptsVars   == <<disk, origin, process, written, queued, failures>>

Receipt == 1..MaxReceipts

TypeOK ==
    /\ outbox \in SUBSET Receipt /\ origin \in SUBSET Receipt
    /\ temps \in SUBSET Procs
    /\ lock \in Procs \union {Nobody}
    /\ at \in [Procs -> {"idle", "list", "post", "remove", "lock", "sync", "create", "rename"}]
    /\ then \in [Procs -> {"lock", "idle"}]
    /\ entries \in [Procs -> SUBSET Receipt]
    /\ posting \in [Procs -> Receipt \union {Nobody}]
    /\ \A p \in Procs : at[p] = "remove" => posting[p] \in Receipt
    /\ mine \in [Procs -> Receipt \union {Nobody}]
    /\ \A p \in Procs : at[p] \in {"create", "rename"} => mine[p] \in Receipt
    /\ written \in 0..MaxReceipts
    /\ queued \in SUBSET Receipt
    /\ failures \in 0..MaxFailures

ReceiptsInit ==
    /\ outbox = {} /\ origin = {} /\ temps = {}
    /\ lock = Nobody
    /\ at = [p \in Procs |-> "idle"]
    /\ then = [p \in Procs |-> "idle"]
    /\ entries = [p \in Procs |-> {}]
    /\ posting = [p \in Procs |-> Nobody]
    /\ mine = [p \in Procs |-> Nobody]
    /\ written = 0 /\ queued = {} /\ failures = 0

-----------------------------------------------------------------------------
Goto(p, step) == at' = [at EXCEPT ![p] = step]

Failure == failures < MaxFailures /\ failures' = failures + 1

(* Sync starts with a flush.                                               *)
Begin(p) ==
    /\ at[p] = "idle"
    /\ then' = [then EXCEPT ![p] = "lock"]
    /\ Goto(p, "list")
    /\ UNCHANGED <<disk, origin, entries, posting, mine, written, queued, failures>>

(* FlushReceipts: one ReadDir ...                                          *)
List(p) ==
    /\ at[p] = "list"
    /\ entries' = [entries EXCEPT ![p] = outbox]
    /\ Goto(p, "post")
    /\ UNCHANGED <<disk, origin, then, posting, mine, written, queued, failures>>

(* ... ends when the entries are used up ...                               *)
Flushed(p) ==
    /\ at[p] = "post"
    /\ entries[p] = {}
    /\ Goto(p, then[p])
    /\ UNCHANGED <<disk, origin, then, entries, posting, mine, written, queued, failures>>

EndFlush(p) ==
    /\ entries' = [entries EXCEPT ![p] = {}]
    /\ posting' = [posting EXCEPT ![p] = Nobody]
    /\ Goto(p, then[p])

(* ... and posts entry after entry; the hub stores the body under its ID.  *)
Post(p, r) ==
    /\ at[p] = "post"
    /\ r \in entries[p]
    /\ r \in outbox
    /\ origin' = origin \union {r}
    /\ entries' = [entries EXCEPT ![p] = @ \ {r}]
    /\ posting' = [posting EXCEPT ![p] = r]
    /\ Goto(p, "remove")
    /\ UNCHANGED <<disk, then, mine, written, queued, failures>>

(* Another process has removed the file: the flush returns the error.      *)
Vanished(p, r) ==
    /\ at[p] = "post"
    /\ r \in entries[p]
    /\ r \notin outbox
    /\ EndFlush(p)
    /\ UNCHANGED <<disk, origin, then, mine, written, queued, failures>>

PostFailsRemoved(p, r) == \* variant: the file is removed whatever the answer
    /\ at[p] = "post"
    /\ r \in entries[p] \intersect outbox
    /\ Failure
    /\ origin' = origin
    /\ outbox' = outbox \ {r}
    /\ EndFlush(p)
    /\ UNCHANGED <<temps, lock, then, mine, written, queued>>

(* The request or its answer is lost, or the hub is offline.               *)
PostFails(p, r) ==
    /\ at[p] = "post"
    /\ r \in entries[p] \intersect outbox
    /\ Failure
    /\ origin' \in {origin, origin \union {r}}
    /\ EndFlush(p)
    /\ UNCHANGED <<disk, then, mine, written, queued>>

RemoveNothing(p) == \* variant: an acknowledged file stays
    /\ at[p] = "remove"
    /\ posting' = [posting EXCEPT ![p] = Nobody]
    /\ Goto(p, "list")
    /\ UNCHANGED <<disk, origin, then, entries, mine, written, queued, failures>>

(* An accepted receipt leaves the outbox.                                  *)
RemovePosted(p) ==
    /\ at[p] = "remove"
    /\ outbox' = outbox \ {posting[p]}
    /\ posting' = [posting EXCEPT ![p] = Nobody]
    /\ Goto(p, "post")
    /\ UNCHANGED <<temps, lock, origin, then, entries, mine, written, queued, failures>>

(* LockState refuses a second holder; Sync fails and queues nothing.       *)
Refused(p) ==
    /\ at[p] = "lock"
    /\ lock # Nobody
    /\ Goto(p, "idle")
    /\ UNCHANGED <<disk, origin, then, entries, posting, mine, written, queued, failures>>

(* LockState and CleanTemps, which removes every temp file it finds.       *)
Enter(p) ==
    /\ at[p] = "lock"
    /\ lock = Nobody
    /\ lock' = p
    /\ temps' = {}
    /\ Goto(p, "sync")
    /\ UNCHANGED <<outbox, origin, then, entries, posting, mine, written, queued, failures>>

(* Sync returns: the lock is released first, then the receipt is written.  *)
Succeed(p) ==
    /\ at[p] = "sync"
    /\ written < MaxReceipts
    /\ written' = written + 1
    /\ mine' = [mine EXCEPT ![p] = written + 1]
    /\ lock' = Nobody
    /\ Goto(p, "create")
    /\ UNCHANGED <<outbox, temps, origin, then, entries, posting, queued, failures>>

Fail(p) ==
    /\ at[p] = "sync"
    /\ lock' = Nobody
    /\ Goto(p, "idle")
    /\ UNCHANGED <<outbox, temps, origin, then, entries, posting, mine, written, queued, failures>>

(* queueReceipt: AtomicWrite creates a temp file ...                       *)
Create(p) ==
    /\ at[p] = "create"
    /\ temps' = temps \union {p}
    /\ Goto(p, "rename")
    /\ UNCHANGED <<outbox, lock, origin, then, entries, posting, mine, written, queued, failures>>

(* ... and renames it; the outbox is flushed.                              *)
Rename(p) ==
    /\ at[p] = "rename"
    /\ p \in temps
    /\ temps' = temps \ {p}
    /\ outbox' = outbox \union {mine[p]}
    /\ queued' = queued \union {mine[p]}
    /\ mine' = [mine EXCEPT ![p] = Nobody]
    /\ then' = [then EXCEPT ![p] = "idle"]
    /\ Goto(p, "list")
    /\ UNCHANGED <<lock, origin, entries, posting, written, failures>>

(* Somebody cleaned the temp file away: receipt_queue_failed.              *)
RenameFails(p) ==
    /\ at[p] = "rename"
    /\ p \notin temps
    /\ mine' = [mine EXCEPT ![p] = Nobody]
    /\ Goto(p, "idle")
    /\ UNCHANGED <<disk, origin, then, entries, posting, written, queued, failures>>

(* The process dies; its temp file stays.                                  *)
Die(p) ==
    /\ at[p] # "idle"
    /\ Failure
    /\ lock' = IF lock = p THEN Nobody ELSE lock
    /\ mine' = [mine EXCEPT ![p] = Nobody]
    /\ then' = [then EXCEPT ![p] = "idle"]
    /\ entries' = [entries EXCEPT ![p] = {}]
    /\ posting' = [posting EXCEPT ![p] = Nobody]
    /\ Goto(p, "idle")
    /\ UNCHANGED <<outbox, temps, origin, written, queued>>

Flush(p) ==
    \/ List(p) \/ Flushed(p) \/ RemovePosted(p)
    \/ \E r \in Receipt : Post(p, r) \/ Vanished(p, r)

Sync(p) ==
    \/ Begin(p) \/ Flush(p) \/ Refused(p) \/ Enter(p) \/ Succeed(p) \/ Fail(p)
    \/ Create(p) \/ Rename(p) \/ RenameFails(p)

ReceiptsNext ==
    \E p \in Procs : \/ Sync(p)
                     \/ Die(p)
                     \/ \E r \in Receipt : PostFails(p, r)

ReceiptsSpec == ReceiptsInit /\ [][ReceiptsNext]_receiptsVars

(* receiverloop.Run syncs for ever; the service manager restarts it.       *)
FairReceiptsSpec == ReceiptsSpec /\ \A p \in Procs : WF_receiptsVars(Sync(p))

-----------------------------------------------------------------------------
(* A queued receipt stays in the outbox until the hub has stored it,       *)
(* whatever answers are lost, whichever processes flush at the same time   *)
(* and whenever one dies.                                                  *)
QueuedIsKept == queued \subseteq outbox \union origin

(* Only receipts the hub has stored are removed.                           *)
PostedIsStored == \A p \in Procs : at[p] = "remove" => posting[p] \in origin

(* The hub ends up with every queued receipt and the outbox empties.       *)
Delivered == <>[](queued \subseteq origin /\ outbox = {})
=============================================================================
