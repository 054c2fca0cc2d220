------------------------------ MODULE Pipeline ------------------------------
(***************************************************************************)
(* From the channel file to the receivers: the hub's read path and announce *)
(* trigger (Hub) between the publisher, which only moves a channel forward *)
(* (Publisher!ChannelAdvances), and receivers that poll the channel through *)
(* the hub's cache and accept only a newer release (Agent!NoRollback).     *)
(* The requests of a Sync other than that of the channel, and everybody    *)
(* else's, are the other clients, which ask for any object.                *)
(* What the hub serves is then what a receiver runs: a stale body it keeps *)
(* in the cache is a release the receiver does not get.                    *)
(***************************************************************************)
EXTENDS Hub

CONSTANTS
    Receivers,    \* clients that are a Sync loop's requests of the channel
    Channel,      \* the release file that receivers poll
    SeqOf         \* signed sequence of the release a release file holds

ASSUME PipelineAssumption ==
    /\ Receivers \subseteq Clients
    /\ Channel \in Metas
    /\ SeqOf \in [Releases \ Garbled -> Nat \ {0}]

VARIABLE accepted \* sequence each receiver accepted, 0 before the first

PipelineInit == Init /\ accepted = [r \in Receivers |-> 0]

AcceptedNext(r, d) == \* variant: only the next sequence is accepted
    IF d = None \/ d.bad \/ d.body \in Garbled \/ SeqOf[d.body] # accepted[r] + 1 THEN accepted[r] ELSE SeqOf[d.body]

(* Sync refuses a manifest that does not verify and one that is older than *)
(* the accepted one; the accepted one itself changes nothing.              *)
Accepted(r, d) ==
    IF d = None \/ d.bad \/ d.body \in Garbled \/ SeqOf[d.body] <= accepted[r] THEN accepted[r] ELSE SeqOf[d.body]

(* The answer to a GET of the channel reaches the receiver.                *)
Deliver(r) ==
    /\ Serve(r)
    /\ accepted' = IF r \in Receivers
                   THEN [accepted EXCEPT ![r] = Accepted(r, Returned(got[r], r))]
                   ELSE accepted

(* A publish or a promotion of a newer release: a channel that does not    *)
(* verify is not promoted over.                                            *)
Promote(m, b) ==
    /\ m = Channel /\ file[m] # None => file[m] \notin Garbled /\ SeqOf[b] > SeqOf[file[m]]
    /\ Write(m, b)
    /\ UNCHANGED accepted

Work(r) ==
    \/ Deliver(r)
    \/ /\ Lookup(r) \/ Join(r) \/ Lead(r) \/ Read(r) \/ Land(r) \/ Finish(r) \/ Wake(r)
       /\ UNCHANGED accepted

(* A receiver's Sync starts with the channel; other requests are for       *)
(* anything.                                                               *)
Get(r, o) ==
    /\ r \in Receivers => o = Channel
    /\ Arrive(r, o)
    /\ UNCHANGED accepted

Scan == Trigger /\ UNCHANGED accepted

PipelineNext ==
    \/ \E r \in Clients : Work(r)
    \/ \E r \in Clients, o \in Objects : Get(r, o)
    \/ Scan
    \/ \E m \in Metas, b \in Releases \ Garbled : Promote(m, b)

pipelineVars == <<vars, accepted>>

(* Go schedules every runnable goroutine, the trigger's ticker fires again *)
(* and again, and every receiver's loop starts another Sync, whose first   *)
(* request is the channel.                                                 *)
PipelineSpec ==
    /\ PipelineInit /\ [][PipelineNext]_pipelineVars
    /\ \A r \in Clients : WF_pipelineVars(Work(r))
    /\ \A r \in Receivers : WF_pipelineVars(Get(r, Channel))
    /\ WF_pipelineVars(Scan)

-----------------------------------------------------------------------------
(* Every receiver ends up with the release the channel names once an       *)
(* invalidation that no older read overlapped covers the channel: caching, *)
(* shared reads, eviction and a write at any moment of a scan lose no      *)
(* release and leave no receiver behind.  The condition fails when such a  *)
(* read put an older body back, when the channel was written before the    *)
(* trigger's initial scan was over, and when the trigger could not stat or *)
(* read the file or could not tell its stamp from the one before.          *)
ReachesReceivers ==
    <>[](Channel \in clean) =>
        \A r \in Receivers : <>[](file[Channel] \notin Garbled \union {None} => accepted[r] = SeqOf[file[Channel]])
=============================================================================
