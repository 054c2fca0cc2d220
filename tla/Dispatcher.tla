----------------------------- MODULE Dispatcher -----------------------------
(***************************************************************************)
(* The notification dispatcher (internal/notify/notify.go): one bounded    *)
(* queue and one consumer goroutine per notifier, senders that retry, and  *)
(* counters kept by notifier name.  The hub dispatches from the event      *)
(* log's OnEmit hook, which runs after the log's lock is released; `conf`  *)
(* dispatches from its runner; both defer Close.                           *)
(*                                                                         *)
(* An event is the number of the Dispatch call that found the dispatcher   *)
(* open.  Dispatcher.mu makes Dispatch and the first half of Close atomic; *)
(* filling the queues one after the other is one step, for a consumer that *)
(* takes an event meanwhile could have taken it just before or just after. *)
(***************************************************************************)
EXTENDS Naturals, Sequences, FiniteSets

CONSTANTS
    Notifiers,    \* the configured notifiers
    Names,        \* their names: "telegram", "slack"
    NameOf,       \* Name(): two notifiers of one type share it
    Depth,        \* queueDepth
    MaxAttempts,  \* httpSender.maxAttempts
    SlowSets,     \* sets of notifiers whose destination may stall them
    Closers,      \* goroutines that call Close
    MaxEvents,    \* bound: Dispatch calls
    None

ASSUME DispatcherAssumption ==
    /\ IsFiniteSet(Notifiers)
    /\ NameOf \in [Notifiers -> Names]
    /\ Depth \in Nat \ {0}
    /\ MaxAttempts \in Nat \ {0}
    /\ SlowSets \subseteq SUBSET Notifiers
    /\ MaxEvents \in Nat
    /\ None \notin Nat

VARIABLES
    slow,         \* notifiers that were told to wait for ever (Retry-After)
    closed,       \* Dispatcher.closed, and every channel with it
    queue,        \* queue[n]: the notifier's channel
    pc,           \* where each consumer is
    hand,         \* the event it is notifying
    attempt,      \* attempts made for it
    verdict,      \* what Notify returned for it: the counter to bump
    seen,         \* the counter value bump has loaded
    counters,     \* counters[c][name]: sent, failed and dropped
    closer,       \* what each caller of Close is doing
    dispatched    \* Dispatch calls that found the dispatcher open

consumer == <<pc, hand, attempt, verdict, seen>>
vars     == <<slow, closed, queue, consumer, counters, closer, dispatched>>

Verdicts == {"sent", "failed"}

Init ==
    /\ slow \in SlowSets
    /\ closed = FALSE
    /\ queue = [n \in Notifiers |-> <<>>]
    /\ pc = [n \in Notifiers |-> "range"]
    /\ hand = [n \in Notifiers |-> None]
    /\ attempt = [n \in Notifiers |-> 0]
    /\ verdict = [n \in Notifiers |-> None]
    /\ seen = [n \in Notifiers |-> 0]
    /\ counters = [c \in Verdicts \union {"dropped"} |-> [k \in Names |-> 0]]
    /\ closer = [c \in Closers |-> "idle"]
    /\ dispatched = 0

Goto(n, step) == pc' = [pc EXCEPT ![n] = step]

-----------------------------------------------------------------------------
Full(n) == Len(queue[n]) = Depth

Named(k) == {n \in Notifiers : NameOf[n] = k}
NamedFull(k) == {n \in Named(k) : Full(n)}

(* Dispatch: never blocks; a full queue costs its own notifier the event.  *)
(* A closed dispatcher ignores the call.                                   *)
Dispatch ==
    /\ ~closed
    /\ dispatched < MaxEvents
    /\ dispatched' = dispatched + 1
    /\ queue' = [n \in Notifiers |-> IF Full(n) THEN queue[n]
                                     ELSE Append(queue[n], dispatched + 1)]
    /\ counters' = [counters EXCEPT !["dropped"] =
                      [k \in Names |-> @[k] + Cardinality(NamedFull(k))]]
    /\ UNCHANGED <<slow, closed, consumer, closer>>

(* consume: the next event of the channel.                                 *)
Take(n) ==
    /\ pc[n] = "range"
    /\ queue[n] # <<>>
    /\ hand' = [hand EXCEPT ![n] = Head(queue[n])]
    /\ queue' = [queue EXCEPT ![n] = Tail(@)]
    /\ attempt' = [attempt EXCEPT ![n] = 0]
    /\ Goto(n, "send")
    /\ UNCHANGED <<slow, closed, verdict, seen, counters, closer, dispatched>>

LeaveClosed(n) == \* variant: the consumer stops at the close, not at the end
    /\ pc[n] = "range"
    /\ closed
    /\ Goto(n, "gone")
    /\ UNCHANGED <<slow, closed, queue, hand, attempt, verdict, seen, counters, closer, dispatched>>

(* The range over a closed channel ends when the channel is empty.         *)
Leave(n) ==
    /\ pc[n] = "range"
    /\ closed
    /\ queue[n] = <<>>
    /\ Goto(n, "gone")
    /\ UNCHANGED <<slow, closed, queue, hand, attempt, verdict, seen, counters, closer, dispatched>>

Notified(n, v) ==
    /\ verdict' = [verdict EXCEPT ![n] = v]
    /\ Goto(n, "load")

(* httpSender.attempt: one POST.  A 2xx is success; 429, 5xx and transport *)
(* errors, a lost answer to an accepted message among them, are tried      *)
(* again; any other status, and the last attempt, fail.                    *)
Post(n) ==
    /\ pc[n] = "send"
    /\ attempt' = [attempt EXCEPT ![n] = @ + 1]
    /\ \/ Notified(n, "sent")
       \/ Notified(n, "failed")
       \/ /\ attempt[n] + 1 < MaxAttempts
          /\ Goto(n, "backoff")
          /\ UNCHANGED verdict
    /\ UNCHANGED <<slow, closed, queue, hand, seen, counters, closer, dispatched>>

BackoffUnbounded(n) == \* variant: every retry starts the count again
    /\ pc[n] = "backoff"
    /\ attempt' = [attempt EXCEPT ![n] = 0]
    /\ Goto(n, "send")
    /\ UNCHANGED <<slow, closed, queue, hand, verdict, seen, counters, closer, dispatched>>

(* The backoff ends; Retry-After may have made it arbitrarily long.        *)
Backoff(n) ==
    /\ pc[n] = "backoff"
    /\ Goto(n, "send")
    /\ UNCHANGED <<slow, closed, queue, hand, attempt, verdict, seen, counters, closer, dispatched>>

Counted(n, value) ==
    /\ counters' = [counters EXCEPT ![verdict[n]][NameOf[n]] = value]
    /\ hand' = [hand EXCEPT ![n] = None]
    /\ verdict' = [verdict EXCEPT ![n] = None]
    /\ seen' = [seen EXCEPT ![n] = 0]
    /\ Goto(n, "range")

(* bump: LoadOrStore creates the counter or loads it ...                   *)
BumpLoad(n) ==
    /\ pc[n] = "load"
    /\ LET c == counters[verdict[n]][NameOf[n]]
       IN  IF c = 0
           THEN Counted(n, 1)
           ELSE /\ seen' = [seen EXCEPT ![n] = c]
                /\ Goto(n, "swap")
                /\ UNCHANGED <<hand, verdict, counters>>
    /\ UNCHANGED <<slow, closed, queue, attempt, closer, dispatched>>

BumpStore(n) == \* variant: a store instead of a compare-and-swap
    /\ pc[n] = "swap"
    /\ Counted(n, seen[n] + 1)
    /\ UNCHANGED <<slow, closed, queue, attempt, closer, dispatched>>

(* ... and CompareAndSwap raises it, unless another consumer of the same   *)
(* name was faster: load again.                                            *)
BumpSwap(n) ==
    /\ pc[n] = "swap"
    /\ IF counters[verdict[n]][NameOf[n]] = seen[n]
       THEN Counted(n, seen[n] + 1)
       ELSE Goto(n, "load") /\ UNCHANGED <<hand, verdict, seen, counters>>
    /\ UNCHANGED <<slow, closed, queue, attempt, closer, dispatched>>

-----------------------------------------------------------------------------
(* Close, under mu: the first caller closes the channels and waits; a      *)
(* later one returns at once.                                              *)
Close(c) ==
    /\ closer[c] = "idle"
    /\ closed' = TRUE
    /\ closer' = [closer EXCEPT ![c] = IF closed THEN "returned" ELSE "wait"]
    /\ UNCHANGED <<slow, queue, consumer, counters, dispatched>>

(* wg.Wait returns.                                                        *)
CloseReturn(c) ==
    /\ closer[c] = "wait"
    /\ \A n \in Notifiers : pc[n] = "gone"
    /\ closer' = [closer EXCEPT ![c] = "drained"]
    /\ UNCHANGED <<slow, closed, queue, consumer, counters, dispatched>>

Consume(n) ==
    \/ Take(n) \/ Leave(n) \/ Post(n) \/ Backoff(n) \/ BumpLoad(n) \/ BumpSwap(n)

Next ==
    \/ Dispatch
    \/ \E n \in Notifiers : Consume(n)
    \/ \E c \in Closers : Close(c) \/ CloseReturn(c)

Spec == Init /\ [][Next]_vars

(* A consumer runs, its requests end by the client's timeout and its       *)
(* backoff ends, unless its destination has asked for an endless one;      *)
(* wg.Wait returns when it can.  Nothing makes anyone dispatch or close.   *)
FairSpec ==
    /\ Spec
    /\ \A n \in Notifiers : WF_vars(n \notin slow /\ Consume(n))
    /\ \A c \in Closers : WF_vars(CloseReturn(c))

-----------------------------------------------------------------------------
InHand(n) == IF hand[n] = None THEN 0 ELSE 1

(* What Stats reports for a name.                                          *)
Stats(k) == counters["sent"][k] + counters["failed"][k] + counters["dropped"][k]

(* The places of the events that notifiers of a name have queued and in    *)
(* hand: a channel has Depth of them, a consumer one.                      *)
Pending(k) == {x \in Named(k) \X (1..(Depth + 1)) : x[2] <= Len(queue[x[1]]) + InHand(x[1])}

(* Every event dispatched to an open dispatcher is, for each notifier,     *)
(* queued, in hand, or counted exactly once as sent, failed or dropped,    *)
(* also where two notifiers of one name raise the same counter.            *)
Accounted ==
    \A k \in Names :
        dispatched * Cardinality(Named(k)) = Stats(k) + Cardinality(Pending(k))

(* The Close that waited returns only after every accepted event has been  *)
(* sent or has failed, and no consumer or caller adds one afterwards.      *)
CloseDrains ==
    (\E c \in Closers : closer[c] = "drained") =>
        /\ closed
        /\ \A n \in Notifiers : pc[n] = "gone" /\ queue[n] = <<>> /\ hand[n] = None

(* A destination that stalls one notifier holds up no other: each of them  *)
(* settles what it has in hand and ends once the dispatcher is closed; and *)
(* Close waits for nobody but the stalled.                                 *)
Isolated ==
    /\ \A n \in Notifiers : n \notin slow /\ hand[n] # None ~> hand[n] = None
    /\ \A n \in Notifiers : n \notin slow /\ closed ~> pc[n] = "gone"
    /\ \A c \in Closers : slow = {} /\ closer[c] = "wait" ~> closer[c] = "drained"
=============================================================================
