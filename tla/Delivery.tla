------------------------------ MODULE Delivery ------------------------------
(***************************************************************************)
(* How a promotion reaches a receiver: the hub's broker and websocket      *)
(* handler (internal/push/push.go), the push client with its reconnects,   *)
(* and the receiver loop (internal/receiverloop/run.go) that syncs on      *)
(* every poll and on every accepted announcement.  Announcements are only  *)
(* hints: any of them may be dropped, and polling has to make up for it.   *)
(*                                                                         *)
(* One receiver is modelled with all its connections, those the hub has    *)
(* not yet noticed to be dead included; the broker treats the connections  *)
(* of other receivers in the same way.  A release is its sequence number,  *)
(* and an announcement of the channel file is the release it holds;        *)
(* Published stands for the announcement of any other release file, whose  *)
(* number nothing depends on, and Foreign for an envelope the pinned key   *)
(* does not verify.  lab.Sync is the subject of Agent: here it fetches,    *)
(* and then succeeds or fails.                                             *)
(***************************************************************************)
EXTENDS Naturals, Sequences

CONSTANTS
    MaxRelease,   \* bound: releases
    Before,       \* releases stored, not yet promoted, before the hub started
    MaxDials,     \* bound: connections
    MaxRuns,      \* bound: calls of Agent.Run that are cancelled
    MaxFaults,    \* bound: failures and foreign envelopes
    SubBuffer,    \* capacity of a subscriber's channel (32 in the code)
    WireBuffer,   \* announcements a connection holds before a write blocks
    Foreign, Published

ASSUME DeliveryAssumption ==
    /\ MaxRelease \in Nat /\ Before \in 0..MaxRelease /\ MaxDials \in Nat /\ MaxRuns \in Nat /\ MaxFaults \in Nat
    /\ SubBuffer \in Nat \ {0} /\ WireBuffer \in Nat \ {0}
    /\ Foreign \notin Nat /\ Published \notin Nat /\ Foreign # Published

Conns    == 1..MaxDials
Announcement == Nat \union {Foreign, Published}

VARIABLES
    stored,       \* release files written so far
    pending,      \* those of them the trigger has not looked at
    channel,      \* release the hub's channel holds
    announced,    \* the newest one the trigger has announced or primed
    served,       \* connections whose handler has subscribed, or has died
    subs,         \* connections subscribed to the broker
    buf,          \* their channels
    wire,         \* what is written and not yet read
    alive,        \* connections that are not broken
    conn,         \* the connection the client reads (0: none so far)
    client,       \* push.Run: "dial", "read", "sleep", "done"
    kick,         \* the token in the kick channel
    hinted,       \* history: newest announcement of the channel OnAnnounce accepted
    owed,         \* history: OnAnnounce accepted one since Sync last asked
    loop,         \* receiverloop.Run: "start", "sync", "wait", "join", "returned"
    got,          \* release the running Sync has fetched
    tried,        \* history: what the channel held when Sync last asked
    synced,       \* release of the last successful Sync
    cancelled,    \* the context is done
    dials, runs, faults

hub      == <<stored, pending, channel, announced>>
network  == <<served, subs, buf, wire, alive>>
push     == <<conn, client, hinted, dials>>
receiver == <<loop, got, tried, synced, owed>>
vars     == <<hub, network, push, kick, receiver, cancelled, runs, faults>>

BuffersOK ==
    /\ buf \in [Conns -> Seq(Announcement)] /\ wire \in [Conns -> Seq(Announcement)]
    /\ \A c \in Conns : Len(buf[c]) <= SubBuffer /\ Len(wire[c]) <= WireBuffer

TypeOK ==
    /\ BuffersOK
    /\ stored \in 0..MaxRelease /\ pending \in 0..stored
    /\ channel \in 0..stored /\ announced \in 0..channel
    /\ served \in SUBSET Conns /\ subs \in SUBSET served /\ alive \in SUBSET Conns
    /\ conn \in 0..dials
    /\ client \in {"dial", "read", "sleep", "done"}
    /\ client = "read" => conn \in Conns
    /\ kick \in BOOLEAN
    /\ hinted \in Nat /\ owed \in BOOLEAN
    /\ loop \in {"start", "sync", "wait", "join", "returned"}
    /\ got \in 0..MaxRelease /\ tried \in 0..MaxRelease /\ synced \in 0..MaxRelease
    /\ cancelled \in BOOLEAN
    /\ dials \in 0..MaxDials /\ runs \in 0..MaxRuns /\ faults \in 0..MaxFaults

Init ==
    /\ stored = Before /\ pending = 0 /\ channel = 0 /\ announced = 0
    /\ served = {} /\ subs = {} /\ alive = {}
    /\ buf = [c \in Conns |-> <<>>] /\ wire = [c \in Conns |-> <<>>]
    /\ conn = 0 /\ client = "dial" /\ hinted = 0 /\ dials = 0
    /\ kick = FALSE /\ owed = FALSE
    /\ loop = "start" /\ got = 0 /\ tried = 0 /\ synced = 0
    /\ cancelled = FALSE
    /\ runs = 0 /\ faults = 0

Fault == faults < MaxFaults /\ faults' = faults + 1

-----------------------------------------------------------------------------
(* Broker.Announce: a full channel drops the announcement.                 *)
Send(a) ==
    buf' = [c \in Conns |-> IF c \in subs /\ Len(buf[c]) < SubBuffer
                            THEN Append(buf[c], a) ELSE buf[c]]

(* A release file is stored, ...                                           *)
Publish ==
    /\ stored < MaxRelease
    /\ stored' = stored + 1
    /\ pending' = pending + 1
    /\ UNCHANGED <<channel, announced, network, push, kick, receiver, cancelled, runs, faults>>

(* ... and the channel is moved forward to a stored release.               *)
Promote ==
    /\ \E r \in channel + 1..stored : channel' = r
    /\ UNCHANGED <<stored, pending, announced, network, push, kick, receiver, cancelled, runs, faults>>

(* A scan announces every release file it has not seen, in the order of    *)
(* their names, which is not that of their sequences, ...                  *)
AnnounceRelease ==
    /\ pending > 0
    /\ pending' = pending - 1
    /\ Send(Published)
    /\ UNCHANGED <<stored, channel, announced, served, subs, wire, alive, push, kick, receiver,
                   cancelled, runs, faults>>

(* ... and the channel file among them.                                    *)
Announce ==
    /\ announced < channel
    /\ announced' = channel
    /\ Send(channel)
    /\ UNCHANGED <<stored, pending, channel, served, subs, wire, alive, push, kick, receiver,
                   cancelled, runs, faults>>

(* Another publisher's file in the origin directory is announced as well.  *)
AnnounceForeign ==
    /\ Fault
    /\ Send(Foreign)
    /\ UNCHANGED <<hub, served, subs, wire, alive, push, kick, receiver, cancelled, runs>>

(* The handler subscribes after the upgrade has completed, maybe a         *)
(* connection that is broken again.                                        *)
Subscribe(c) ==
    /\ c <= dials /\ c \notin served
    /\ served' = served \union {c}
    /\ subs' = subs \union {c}
    /\ UNCHANGED <<hub, buf, wire, alive, push, kick, receiver, cancelled, runs, faults>>

(* serveConn writes announcement after announcement ...                    *)
Write(c) ==
    /\ c \in subs \intersect alive
    /\ buf[c] # <<>>
    /\ Len(wire[c]) < WireBuffer
    /\ wire' = [wire EXCEPT ![c] = Append(@, Head(buf[c]))]
    /\ buf' = [buf EXCEPT ![c] = Tail(@)]
    /\ UNCHANGED <<hub, served, subs, alive, push, kick, receiver, cancelled, runs, faults>>

CloseKept(c) == \* variant: without the deferred cancel
    /\ alive' = alive \ {c}
    /\ buf' = [buf EXCEPT ![c] = <<>>]
    /\ UNCHANGED <<hub, served, subs, wire, push, kick, receiver, cancelled, runs, faults>>

Close(c) ==
    /\ subs' = subs \ {c} /\ alive' = alive \ {c}
    /\ buf' = [buf EXCEPT ![c] = <<>>]
    /\ UNCHANGED <<hub, served, wire, push, kick, receiver, cancelled, runs, faults>>

(* ... until a write misses its deadline ...                               *)
WriteFails(c) ==
    /\ c \in subs
    /\ buf[c] # <<>> /\ Len(wire[c]) = WireBuffer
    /\ Close(c)

(* ... or the reader finds the connection broken.                          *)
ReadErr(c) ==
    /\ c \in subs \ alive
    /\ Close(c)

(* The connection breaks; what was on its way may still arrive.            *)
Cut(c) ==
    /\ c \in alive
    /\ Fault
    /\ alive' = alive \ {c}
    /\ wire' \in {wire, [wire EXCEPT ![c] = <<>>]}
    /\ UNCHANGED <<hub, served, subs, buf, push, kick, receiver, cancelled, runs>>

(* The hub restarts: its first scan records the files without a word.      *)
HubRestart ==
    /\ Fault
    /\ announced' = channel /\ pending' = 0
    /\ served' = 1..dials /\ subs' = {} /\ alive' = {}
    /\ buf' = [c \in Conns |-> <<>>]
    /\ UNCHANGED <<stored, channel, wire, push, kick, receiver, cancelled, runs>>

-----------------------------------------------------------------------------
(* push.Run: dial, ...                                                     *)
Dial ==
    /\ client = "dial" /\ ~cancelled
    /\ dials < MaxDials
    /\ dials' = dials + 1
    /\ conn' = dials + 1
    /\ alive' = alive \union {dials + 1}
    /\ client' = "read"
    /\ UNCHANGED <<hub, served, subs, buf, wire, kick, hinted, receiver, cancelled, runs, faults>>

DialFails ==
    /\ client = "dial"
    /\ Fault
    /\ client' = "sleep"
    /\ UNCHANGED <<hub, network, conn, hinted, dials, kick, receiver, cancelled, runs>>

(* ... read, and hand every announcement to OnAnnounce, which verifies it  *)
(* and leaves at most one token in the kick channel; ...                   *)
Accept(a) == a # Foreign

(* What an accepted announcement leaves behind.                            *)
Hint(a) == owed' = TRUE /\ hinted' = IF a = Published THEN hinted ELSE a

RecvIdle == \* variant: only a waiting loop is kicked
    /\ client = "read" /\ ~cancelled
    /\ wire[conn] # <<>>
    /\ wire' = [wire EXCEPT ![conn] = Tail(@)]
    /\ LET a == Head(wire[conn])
       IN  IF Accept(a) THEN kick' = (loop = "wait" \/ kick) /\ Hint(a) ELSE UNCHANGED <<kick, hinted, owed>>
    /\ UNCHANGED <<hub, served, subs, buf, alive, conn, client, dials, loop, got, tried, synced, cancelled, runs, faults>>

RecvConcurrent == \* variant: a goroutine for every announcement
    /\ client = "read" /\ ~cancelled
    /\ \E i \in 1..Len(wire[conn]) :
         LET a == wire[conn][i]
         IN  /\ wire' = [wire EXCEPT ![conn] = SubSeq(@, 1, i - 1) \o SubSeq(@, i + 1, Len(@))]
             /\ IF Accept(a) THEN kick' = TRUE /\ Hint(a) ELSE UNCHANGED <<kick, hinted, owed>>
    /\ UNCHANGED <<hub, served, subs, buf, alive, conn, client, dials, loop, got, tried, synced, cancelled, runs, faults>>

Recv ==
    /\ client = "read" /\ ~cancelled
    /\ wire[conn] # <<>>
    /\ wire' = [wire EXCEPT ![conn] = Tail(@)]
    /\ LET a == Head(wire[conn])
       IN  IF Accept(a) THEN kick' = TRUE /\ Hint(a) ELSE UNCHANGED <<kick, hinted, owed>>
    /\ UNCHANGED <<hub, served, subs, buf, alive, conn, client, dials, loop, got, tried, synced, cancelled, runs, faults>>

(* ... reconnect after a pause when the connection drops; ...              *)
ReadFails ==
    /\ client = "read"
    /\ conn \notin alive /\ wire[conn] = <<>>
    /\ client' = "sleep"
    /\ UNCHANGED <<hub, network, conn, hinted, dials, kick, receiver, cancelled, runs, faults>>

Backoff ==
    /\ client = "sleep" /\ ~cancelled
    /\ client' = "dial"
    /\ UNCHANGED <<hub, network, conn, hinted, dials, kick, receiver, cancelled, runs, faults>>

(* ... the end of the context closes the connection and ends all waits.    *)
ClientDone ==
    /\ cancelled /\ client # "done"
    /\ client' = "done"
    /\ alive' = alive \ {conn}
    /\ UNCHANGED <<hub, served, subs, buf, wire, conn, hinted, dials, kick, receiver, cancelled, runs, faults>>

-----------------------------------------------------------------------------
(* receiverloop.Run: Sync fetches the manifest, and succeeds ...           *)
Fetch ==
    /\ loop = "start" /\ ~cancelled
    /\ got' = channel /\ tried' = channel
    /\ owed' = FALSE
    /\ loop' = "sync"
    /\ UNCHANGED <<hub, network, push, kick, synced, cancelled, runs, faults>>

Synced ==
    /\ loop = "sync"
    /\ synced' = got
    /\ loop' = "wait"
    /\ UNCHANGED <<hub, network, push, kick, got, tried, owed, cancelled, runs, faults>>

(* ... or fails, before or after it has fetched.                           *)
FetchFails ==
    /\ loop = "start"
    /\ Fault
    /\ tried' = channel
    /\ owed' = FALSE
    /\ loop' = "wait"
    /\ UNCHANGED <<hub, network, push, kick, got, synced, cancelled, runs>>

SyncFails ==
    /\ loop = "sync"
    /\ cancelled \/ faults < MaxFaults
    /\ faults' = IF cancelled THEN faults ELSE faults + 1
    /\ loop' = "wait"
    /\ UNCHANGED <<hub, network, push, kick, got, tried, synced, owed, cancelled, runs>>

PollRearmed == \* variant: while it may be kicked the timer is only set again
    /\ loop = "wait"
    /\ loop' = IF client = "read" THEN "wait" ELSE "start"
    /\ UNCHANGED <<hub, network, push, kick, got, tried, synced, owed, cancelled, runs, faults>>

(* The timer fires, ...                                                    *)
Poll ==
    /\ loop = "wait"
    /\ loop' = "start"
    /\ UNCHANGED <<hub, network, push, kick, got, tried, synced, owed, cancelled, runs, faults>>

(* ... or there is a token.                                                *)
Kicked ==
    /\ loop = "wait" /\ kick
    /\ kick' = FALSE
    /\ loop' = "start"
    /\ UNCHANGED <<hub, network, push, got, tried, synced, owed, cancelled, runs, faults>>

LeaveRetried == \* variant: a cancelled Sync is retried like a failed one
    /\ cancelled /\ loop = "start"
    /\ loop' = "wait"
    /\ UNCHANGED <<hub, network, push, kick, got, tried, synced, owed, cancelled, runs, faults>>

(* A done context ends the loop, which waits for the push client.          *)
Leave ==
    /\ cancelled /\ loop \in {"start", "wait"}
    /\ loop' = "join"
    /\ UNCHANGED <<hub, network, push, kick, got, tried, synced, owed, cancelled, runs, faults>>

Return ==
    /\ loop = "join" /\ client = "done"
    /\ loop' = "returned"
    /\ UNCHANGED <<hub, network, push, kick, got, tried, synced, owed, cancelled, runs, faults>>

(* The owner cancels, and may call Run again once it has returned.         *)
Cancel ==
    /\ ~cancelled /\ runs < MaxRuns
    /\ runs' = runs + 1
    /\ cancelled' = TRUE
    /\ UNCHANGED <<hub, network, push, kick, receiver, faults>>

RunAgain ==
    /\ loop = "returned"
    /\ cancelled' = FALSE
    /\ kick' = FALSE
    /\ client' = "dial"
    /\ loop' = "start"
    /\ UNCHANGED <<hub, network, conn, hinted, dials, got, tried, synced, owed, runs, faults>>

Serve(c) == Subscribe(c) \/ Write(c) \/ WriteFails(c) \/ ReadErr(c)

Client == Dial \/ Recv \/ ReadFails \/ Backoff \/ ClientDone

Loop == Fetch \/ Synced \/ Poll \/ Kicked \/ Leave \/ Return \/ RunAgain

Next ==
    \/ Publish \/ Promote \/ AnnounceRelease \/ Announce \/ AnnounceForeign \/ HubRestart
    \/ \E c \in Conns : Serve(c) \/ Cut(c)
    \/ Client \/ DialFails
    \/ Loop \/ FetchFails \/ SyncFails
    \/ Cancel

Spec == Init /\ [][Next]_vars

(* Goroutines run, timers fire, and a cancelled context is left; a Sync    *)
(* that can return does.  Nothing is assumed of dialling or of faults.     *)
FairSpec ==
    /\ Spec
    /\ WF_vars(Loop)
    /\ WF_vars(Recv \/ ReadFails \/ Backoff \/ ClientDone)
    /\ \A c \in Conns : WF_vars(Serve(c))

-----------------------------------------------------------------------------
(* An accepted hint is never forgotten: until a Sync has asked the hub     *)
(* after it, the loop has a token or is about to ask, whatever overlaps    *)
(* the Sync that is running, however many hints share the one token and    *)
(* whichever file they announce.  When the hint was of the channel, that   *)
(* Sync finds its release or a newer one.                                  *)
HintIsFollowed ==
    owed \/ hinted > tried => kick \/ loop \in {"start", "join", "returned"}

(* Announcements of the channel on their way, and the newest accepted one, *)
(* are releases the channel has held; those of other release files may be  *)
(* ahead of it.                                                            *)
Past == 0..channel \union {Foreign, Published}
HintsArePast ==
    /\ hinted <= channel
    /\ buf \in [Conns -> Seq(Past)] /\ wire \in [Conns -> Seq(Past)]

(* Announcements of the channel are accepted in the order of the           *)
(* promotions, over lost, replaced and half-dead connections.  (Those of   *)
(* the other release files come in the order of the files' names.)         *)
HintsInOrder == [][hinted' >= hinted]_vars

(* "It joins the optional websocket worker before returning" (receiver.go):*)
(* no announcement is handled after Run has returned.                      *)
ReturnedIsJoined == loop = "returned" => client = "done"

(* The inductive invariant behind HintIsFollowed.                          *)
IInv == TypeOK /\ HintsArePast /\ HintIsFollowed /\ ReturnedIsJoined

(* Polling makes up for every hint that was dropped, lost or never sent.   *)
Converges == <>[](synced = channel)

(* The broker forgets connections that are gone.                           *)
DeadIsForgotten == \A c \in Conns : (c \in subs \ alive) ~> (c \notin subs)

(* A cancelled Run returns.                                                *)
CancelReturns == cancelled ~> loop = "returned"
=============================================================================
