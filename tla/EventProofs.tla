---------------------------- MODULE EventProofs ----------------------------
(***************************************************************************)
(* Proofs about the notification dispatcher (Dispatcher) for every set of  *)
(* notifiers and callers of Close, every queue depth and every limit on    *)
(* attempts, and about the event log whose OnEmit hook feeds it (EventLog) *)
(* for every cap and any number of events and failures.                    *)
(***************************************************************************)
EXTENDS Dispatcher, EventLog, FiniteSetTheorems, NaturalsInduction, WellFoundedInduction, TLAPS

-----------------------------------------------------------------------------
(* The dispatcher.                                                         *)

(* The shapes the argument needs.                                          *)
DrainTypes ==
    /\ closed \in BOOLEAN
    /\ queue \in [Notifiers -> Seq(Nat)]
    /\ DOMAIN pc = Notifiers
    /\ hand \in [Notifiers -> Nat \union {None}]
    /\ DOMAIN closer = Closers
    /\ dispatched \in Nat

(* A consumer between two events holds none; one that is gone left behind  *)
(* an empty, closed channel.                                               *)
GoneIsEmpty ==
    \A n \in Notifiers :
        /\ pc[n] = "range" => hand[n] = None
        /\ pc[n] = "gone" => closed /\ queue[n] = <<>> /\ hand[n] = None

(* The Close that waits has closed the channels, and has seen every        *)
(* consumer leave when it returns.                                         *)
WaiterClosed ==
    \A c \in Closers :
        /\ closer[c] \in {"wait", "drained"} => closed
        /\ closer[c] = "drained" => \A n \in Notifiers : pc[n] = "gone"

DrainInv == DrainTypes /\ GoneIsEmpty /\ WaiterClosed

(* A new dispatcher is open and empty.                                     *)
LEMMA DrainInit == Init => DrainInv
<1> SUFFICES ASSUME Init PROVE DrainInv
  OBVIOUS
<1>1. queue \in [Notifiers -> Seq(Nat)]
  <2>1. <<>> \in Seq(Nat)
    OBVIOUS
  <2> QED BY <2>1 DEF Init
<1>2. DrainTypes
  BY <1>1 DEF Init, DrainTypes
<1>3. GoneIsEmpty /\ WaiterClosed
  BY DEF Init, GoneIsEmpty, WaiterClosed
<1> QED BY <1>2, <1>3 DEF DrainInv

(* A consumer that is neither at the end of its range nor gone does not    *)
(* disturb the argument, as long as it lets go of its event on the way     *)
(* back to the channel.                                                    *)
LEMMA ConsumerMoves ==
    ASSUME DrainInv, NEW n \in Notifiers, NEW s, pc[n] # "gone",
           pc' = [pc EXCEPT ![n] = s], s # "gone",
           \/ hand' = hand /\ s # "range"
           \/ hand' = [hand EXCEPT ![n] = None],
           UNCHANGED <<closed, queue, closer, dispatched>>
    PROVE  DrainInv'
<1>1. DrainTypes'
  BY DEF DrainInv, DrainTypes
<1>2. \A m \in Notifiers : m # n => pc'[m] = pc[m] /\ hand'[m] = hand[m]
  BY DEF DrainInv, DrainTypes
<1>3. pc'[n] = s /\ (s = "range" => hand'[n] = None)
  BY DEF DrainInv, DrainTypes
<1>4. GoneIsEmpty'
  BY <1>2, <1>3 DEF DrainInv, GoneIsEmpty
<1>5. WaiterClosed'
  BY <1>2 DEF DrainInv, WaiterClosed
<1> QED BY <1>1, <1>4, <1>5 DEF DrainInv

(* Every step keeps the invariant.                                         *)
LEMMA DrainStep == DrainInv /\ [Next]_vars => DrainInv'
<1> SUFFICES ASSUME DrainInv, [Next]_vars PROVE DrainInv'
  OBVIOUS
<1>0. DrainTypes /\ GoneIsEmpty /\ WaiterClosed
  BY DEF DrainInv
<1> USE DEF consumer, Goto
<1>1. CASE Dispatch
  <2>1. DrainTypes'
    BY <1>0, <1>1 DEF Dispatch, DrainTypes
  <2>2. GoneIsEmpty' /\ WaiterClosed'
    BY <1>0, <1>1 DEF Dispatch, GoneIsEmpty, WaiterClosed
  <2> QED BY <2>1, <2>2 DEF DrainInv
<1>2. ASSUME NEW n \in Notifiers, Take(n) PROVE DrainInv'
  <2>1. queue[n] \in Seq(Nat) /\ queue[n] # <<>> /\ pc[n] = "range"
    BY <1>0, <1>2 DEF Take, DrainTypes
  <2>2. Head(queue[n]) \in Nat /\ Tail(queue[n]) \in Seq(Nat)
    BY <2>1
  <2>3. DrainTypes'
    BY <1>0, <1>2, <2>2 DEF Take, DrainTypes
  <2>4. pc'[n] = "send" /\ \A m \in Notifiers : m # n =>
            pc'[m] = pc[m] /\ hand'[m] = hand[m] /\ queue'[m] = queue[m]
    BY <1>0, <1>2 DEF Take, DrainTypes
  <2>5. GoneIsEmpty' /\ WaiterClosed'
    BY <1>0, <1>2, <2>1, <2>4 DEF Take, GoneIsEmpty, WaiterClosed
  <2> QED BY <2>3, <2>5 DEF DrainInv
<1>3. ASSUME NEW n \in Notifiers, Leave(n) PROVE DrainInv'
  <2>1. DrainTypes'
    BY <1>0, <1>3 DEF Leave, DrainTypes
  <2>2. pc'[n] = "gone" /\ \A m \in Notifiers : m # n => pc'[m] = pc[m]
    BY <1>0, <1>3 DEF Leave, DrainTypes
  <2>3. GoneIsEmpty' /\ WaiterClosed'
    BY <1>0, <1>3, <2>2 DEF Leave, GoneIsEmpty, WaiterClosed
  <2> QED BY <2>1, <2>3 DEF DrainInv
<1>4. ASSUME NEW n \in Notifiers, Post(n) \/ Backoff(n) PROVE DrainInv'
  BY <1>4, ConsumerMoves DEF Post, Backoff, Notified
<1>5. ASSUME NEW n \in Notifiers, BumpLoad(n) PROVE DrainInv'
  BY <1>5, ConsumerMoves DEF BumpLoad, Counted
<1>6. ASSUME NEW n \in Notifiers, BumpSwap(n) PROVE DrainInv'
  BY <1>6, ConsumerMoves DEF BumpSwap, Counted
<1>7. ASSUME NEW c \in Closers, Close(c) PROVE DrainInv'
  <2>1. DrainTypes'
    BY <1>0, <1>7 DEF Close, DrainTypes
  <2>2. GoneIsEmpty'
    BY <1>0, <1>7 DEF Close, GoneIsEmpty
  <2>3. closer'[c] # "drained" /\ \A b \in Closers : b # c => closer'[b] = closer[b]
    BY <1>0, <1>7 DEF Close, DrainTypes
  <2>4. WaiterClosed'
    BY <1>0, <1>7, <2>3 DEF Close, WaiterClosed
  <2> QED BY <2>1, <2>2, <2>4 DEF DrainInv
<1>8. ASSUME NEW c \in Closers, CloseReturn(c) PROVE DrainInv'
  <2>1. DrainTypes' /\ GoneIsEmpty'
    BY <1>0, <1>8 DEF CloseReturn, DrainTypes, GoneIsEmpty
  <2>2. WaiterClosed'
    BY <1>0, <1>8 DEF CloseReturn, WaiterClosed, DrainTypes
  <2> QED BY <2>1, <2>2 DEF DrainInv
<1>9. CASE UNCHANGED vars
  BY <1>9 DEF vars, DrainInv, DrainTypes, GoneIsEmpty, WaiterClosed
<1> QED
  BY <1>1, <1>2, <1>3, <1>4, <1>5, <1>6, <1>7, <1>8, <1>9 DEF Next, Consume

(* Close drains: when the call that waited has returned, nothing accepted  *)
(* is still queued or in hand.                                             *)
THEOREM DispatcherDrains == Spec => []CloseDrains
<1>1. DrainInv => CloseDrains
  BY DEF DrainInv, GoneIsEmpty, WaiterClosed, CloseDrains
<1> QED BY DrainInit, DrainStep, <1>1, PTL DEF Spec

-----------------------------------------------------------------------------
(* What the counting needs of the consumers and the counters.              *)
CountTypes ==
    /\ queue \in [Notifiers -> Seq(Nat)]
    /\ \A n \in Notifiers : Len(queue[n]) <= Depth
    /\ DOMAIN pc = Notifiers /\ DOMAIN verdict = Notifiers
    /\ hand \in [Notifiers -> Nat \union {None}]
    /\ seen \in [Notifiers -> Nat]
    /\ counters \in [Verdicts \union {"dropped"} -> [Names -> Nat]]
    /\ dispatched \in Nat

(* A consumer at its channel has no event in hand, any other has one,      *)
(* unless it is gone; one that counts has a verdict.                       *)
HandInv ==
    \A n \in Notifiers :
        /\ pc[n] = "range" => hand[n] = None
        /\ pc[n] \in {"send", "backoff", "load", "swap"} => hand[n] # None
        /\ pc[n] \in {"load", "swap"} => verdict[n] \in Verdicts

CountInv == CountTypes /\ HandInv /\ Accounted

(* The events of one notifier.                                             *)
Load(n) == Len(queue[n]) + InHand(n)

(* Pending in other words.                                                 *)
LEMMA PendingIs ==
    ASSUME CountTypes, NEW k
    PROVE  /\ \A n \in Notifiers : Load(n) \in 0..(Depth + 1)
           /\ \A n \in Named(k), i \in Nat : <<n, i>> \in Pending(k) <=> 1 <= i /\ i <= Load(n)
           /\ \A x \in Pending(k) : x = <<x[1], x[2]>> /\ x[1] \in Named(k) /\ x[2] \in Nat
           /\ IsFiniteSet(Named(k)) /\ Cardinality(Named(k)) \in Nat
           /\ IsFiniteSet(Pending(k)) /\ Cardinality(Pending(k)) \in Nat
<1>1. Depth \in Nat
  BY DispatcherAssumption
<1>2. \A n \in Notifiers : Load(n) \in 0..(Depth + 1)
  <2> SUFFICES ASSUME NEW n \in Notifiers PROVE Load(n) \in 0..(Depth + 1)
    OBVIOUS
  <2>1. Len(queue[n]) \in Nat /\ Len(queue[n]) <= Depth
    BY DEF CountTypes
  <2>2. InHand(n) \in {0, 1}
    BY DEF InHand
  <2> QED BY <1>1, <2>1, <2>2 DEF Load
<1>3. Named(k) \subseteq Notifiers
  BY DEF Named
<1>4. ASSUME NEW n \in Named(k), NEW i \in Nat
      PROVE  <<n, i>> \in Pending(k) <=> 1 <= i /\ i <= Load(n)
  <2>1. Load(n) \in 0..(Depth + 1)
    BY <1>2, <1>3
  <2>2. <<n, i>> \in Pending(k) <=> i \in 1..(Depth + 1) /\ i <= Load(n)
    BY DEF Pending, Load
  <2> QED BY <1>1, <2>1, <2>2
<1>5. \A x \in Pending(k) : x = <<x[1], x[2]>> /\ x[1] \in Named(k) /\ x[2] \in Nat
  BY <1>1 DEF Pending
<1>6. IsFiniteSet(Named(k)) /\ Cardinality(Named(k)) \in Nat
  BY <1>3, FS_Subset, FS_CardinalityType, DispatcherAssumption
<1>7. IsFiniteSet(Pending(k))
  <2>1. IsFiniteSet(1..(Depth + 1))
    BY <1>1, FS_Interval
  <2>2. IsFiniteSet(Named(k) \X (1..(Depth + 1)))
    BY <1>6, <2>1, FS_Product
  <2>3. Pending(k) \in SUBSET (Named(k) \X (1..(Depth + 1)))
    BY DEF Pending
  <2> QED BY <2>2, <2>3, FS_Subset
<1>8. Cardinality(Pending(k)) \in Nat
  BY <1>7, FS_CardinalityType
<1> QED BY <1>2, <1>4, <1>5, <1>6, <1>7, <1>8

(* The same of the next state.                                             *)
LEMMA PendingNext ==
    ASSUME CountTypes', NEW k
    PROVE  /\ \A n \in Notifiers : Load(n)' \in 0..(Depth + 1)
           /\ \A n \in Named(k), i \in Nat : <<n, i>> \in Pending(k)' <=> 1 <= i /\ i <= Load(n)'
           /\ \A x \in Pending(k)' : x = <<x[1], x[2]>> /\ x[1] \in Named(k) /\ x[2] \in Nat
<1>1. Depth \in Nat
  BY DispatcherAssumption
<1>2. \A n \in Notifiers : Load(n)' \in 0..(Depth + 1)
  <2> SUFFICES ASSUME NEW n \in Notifiers PROVE Load(n)' \in 0..(Depth + 1)
    OBVIOUS
  <2>1. Len(queue'[n]) \in Nat /\ Len(queue'[n]) <= Depth
    BY DEF CountTypes
  <2>2. InHand(n)' \in {0, 1}
    BY DEF InHand
  <2> QED BY <1>1, <2>1, <2>2 DEF Load
<1>3. Named(k) \subseteq Notifiers
  BY DEF Named
<1>4. ASSUME NEW n \in Named(k), NEW i \in Nat
      PROVE  <<n, i>> \in Pending(k)' <=> 1 <= i /\ i <= Load(n)'
  <2>1. Load(n)' \in 0..(Depth + 1)
    BY <1>2, <1>3
  <2>2. <<n, i>> \in Pending(k)' <=> i \in 1..(Depth + 1) /\ i <= Load(n)'
    BY DEF Pending, Load, Named
  <2> QED BY <1>1, <2>1, <2>2
<1>5. \A x \in Pending(k)' : x = <<x[1], x[2]>> /\ x[1] \in Named(k) /\ x[2] \in Nat
  BY <1>1 DEF Pending, Named
<1> QED BY <1>2, <1>4, <1>5

(* Nothing is pending at first.                                            *)
LEMMA CountInit == Init => CountInv
<1> SUFFICES ASSUME Init PROVE CountInv
  OBVIOUS
<1>0. Depth \in Nat
  BY DispatcherAssumption
<1>1. CountTypes
  <2>1. <<>> \in Seq(Nat) /\ Len(<<>>) <= Depth
    BY <1>0
  <2>2. queue \in [Notifiers -> Seq(Nat)] /\ \A n \in Notifiers : Len(queue[n]) <= Depth
    BY <2>1 DEF Init
  <2>3. counters \in [Verdicts \union {"dropped"} -> [Names -> Nat]]
    BY DEF Init
  <2> QED BY <2>2, <2>3 DEF Init, CountTypes
<1>2. HandInv
  BY DEF Init, HandInv
<1>3. ASSUME NEW k \in Names PROVE dispatched * Cardinality(Named(k)) = Stats(k) + Cardinality(Pending(k))
  <2>1. Cardinality(Named(k)) \in Nat
    BY <1>1, PendingIs
  <2>2. Pending(k) = {}
    <3>1. \A n \in Named(k) : Len(queue[n]) + InHand(n) = 0
      BY DEF Init, InHand, Named
    <3>2. \A i \in 1..(Depth + 1) : ~(i <= 0)
      BY <1>0
    <3> QED BY <3>1, <3>2 DEF Pending
  <2>3. Cardinality(Pending(k)) = 0
    BY <2>2, FS_EmptySet
  <2>4. Stats(k) = 0
    BY DEF Init, Stats, Verdicts
  <2>5. dispatched = 0
    BY DEF Init
  <2> QED BY <2>1, <2>3, <2>4, <2>5
<1> QED BY <1>1, <1>2, <1>3 DEF CountInv, Accounted

(* A step that moves no event and counts none.                             *)
LEMMA CountSame ==
    ASSUME Accounted, CountTypes, CountTypes', UNCHANGED <<dispatched, counters>>,
           \A n \in Notifiers : Load(n)' = Load(n)
    PROVE  Accounted'
<1> SUFFICES ASSUME NEW k \in Names
             PROVE  dispatched' * Cardinality(Named(k)) = Stats(k)' + Cardinality(Pending(k)')
  BY DEF Accounted, Named
<1>1. Pending(k)' = Pending(k)
  BY DEF Pending, Load, Named
<1>2. Stats(k)' = Stats(k)
  BY DEF Stats
<1> QED BY <1>1, <1>2 DEF Accounted

(* An event in hand is counted once: it leaves the hand and enters one     *)
(* counter of the notifier's name.                                         *)
LEMMA CountOne ==
    ASSUME CountInv, NEW n \in Notifiers, pc[n] \in {"load", "swap"},
           NEW value, value = counters[verdict[n]][NameOf[n]] + 1, Counted(n, value),
           UNCHANGED <<queue, dispatched>>
    PROVE  CountInv'
<1> DEFINE v == verdict[n]
           key == NameOf[n]
<1>0. /\ CountTypes /\ HandInv /\ Accounted /\ key \in Names
      /\ v \in Verdicts /\ hand[n] # None
  BY DispatcherAssumption DEF CountInv, HandInv
<1>1. /\ counters' = [counters EXCEPT ![v][key] = value] /\ value = counters[v][key] + 1
      /\ hand' = [hand EXCEPT ![n] = None] /\ seen' = [seen EXCEPT ![n] = 0]
      /\ verdict' = [verdict EXCEPT ![n] = None] /\ pc' = [pc EXCEPT ![n] = "range"]
  BY DEF Counted, Goto
<1> HIDE DEF v, key
<1>2. counters[v] \in [Names -> Nat] /\ counters[v][key] \in Nat /\ value \in Nat
  BY <1>0, <1>1 DEF CountTypes
<1>3. CountTypes'
  <2>1. counters' \in [Verdicts \union {"dropped"} -> [Names -> Nat]]
    BY <1>0, <1>1, <1>2 DEF CountTypes
  <2>2. hand' \in [Notifiers -> Nat \union {None}] /\ seen' \in [Notifiers -> Nat]
    BY <1>0, <1>1 DEF CountTypes
  <2>3. DOMAIN pc' = Notifiers /\ DOMAIN verdict' = Notifiers
    BY <1>0, <1>1 DEF CountTypes
  <2> QED BY <1>0, <2>1, <2>2, <2>3 DEF CountTypes
<1>4. HandInv'
  <2>1. pc'[n] = "range" /\ hand'[n] = None
    BY <1>0, <1>1 DEF CountTypes
  <2>2. \A m \in Notifiers : m # n => pc'[m] = pc[m] /\ hand'[m] = hand[m] /\ verdict'[m] = verdict[m]
    BY <1>0, <1>1 DEF CountTypes
  <2> QED BY <1>0, <2>1, <2>2 DEF HandInv
<1>5. /\ Load(n) \in Nat /\ Load(n) >= 1 /\ Load(n)' = Load(n) - 1
      /\ \A m \in Notifiers : m # n => Load(m)' = Load(m)
  <2>1. Len(queue[n]) \in Nat /\ hand'[n] = None /\ \A m \in Notifiers : m # n => hand'[m] = hand[m]
    BY <1>0, <1>1 DEF CountTypes
  <2>2. Load(n) = Len(queue[n]) + 1 /\ Load(n)' = Len(queue[n]) + 0
    BY <1>0, <2>1 DEF Load, InHand
  <2>3. \A m \in Notifiers : m # n => Load(m)' = Load(m)
    BY <2>1 DEF Load, InHand
  <2> QED BY <2>1, <2>2, <2>3
<1>6. ASSUME NEW k \in Names
      PROVE  dispatched' * Cardinality(Named(k)) = Stats(k)' + Cardinality(Pending(k)')
  <2>1. /\ counters["sent"][k] \in Nat /\ counters["failed"][k] \in Nat /\ counters["dropped"][k] \in Nat
        /\ Cardinality(Pending(k)) \in Nat /\ IsFiniteSet(Pending(k))
        /\ dispatched * Cardinality(Named(k)) = Stats(k) + Cardinality(Pending(k))
    BY <1>0, PendingIs DEF CountTypes, Accounted, Verdicts
  <2>2. CASE k # key
    <3>1. \A m \in Named(k) : m \in Notifiers /\ m # n
      BY <2>2 DEF Named, key
    <3>2. Pending(k)' = Pending(k)
      BY <1>5, <3>1 DEF Pending, Load, Named
    <3>3. \A c \in Verdicts \union {"dropped"} : counters'[c][k] = counters[c][k]
      BY <1>0, <1>1, <2>2 DEF CountTypes
    <3>4. Stats(k)' = Stats(k)
      BY <3>3 DEF Stats, Verdicts
    <3> QED BY <2>1, <3>2, <3>4
  <2>3. CASE k = key
    <3>1. n \in Named(k)
      BY <2>3 DEF Named, key
    <3>2. /\ counters'[v][k] = counters[v][k] + 1
          /\ \A c \in Verdicts \union {"dropped"} : c # v => counters'[c][k] = counters[c][k]
      BY <1>0, <1>1, <2>3 DEF CountTypes
    <3>3. v \in {"sent", "failed"}
      BY <1>0 DEF Verdicts
    <3>4. Stats(k)' = Stats(k) + 1
      <4>1. CASE v = "sent"
        BY <2>1, <3>2, <4>1 DEF Stats, Verdicts
      <4>2. CASE v = "failed"
        BY <2>1, <3>2, <4>2 DEF Stats, Verdicts
      <4> QED BY <3>3, <4>1, <4>2
    <3> DEFINE e == <<n, Load(n)>>
    <3>5. e \in Pending(k)
      BY <1>0, <1>5, <3>1, PendingIs
    <3>6. /\ \A m \in Named(k), i \in Nat : <<m, i>> \in Pending(k) <=> 1 <= i /\ i <= Load(m)
          /\ \A x \in Pending(k) : x = <<x[1], x[2]>> /\ x[1] \in Named(k) /\ x[2] \in Nat
      BY <1>0, PendingIs
    <3>7. /\ \A m \in Named(k), i \in Nat : <<m, i>> \in Pending(k)' <=> 1 <= i /\ i <= Load(m)'
          /\ \A x \in Pending(k)' : x = <<x[1], x[2]>> /\ x[1] \in Named(k) /\ x[2] \in Nat
      BY <1>3, PendingNext
    <3>8. \A m \in Named(k), i \in Nat : <<m, i>> \in Pending(k)' <=> <<m, i>> \in Pending(k) /\ <<m, i>> # e
      <4> SUFFICES ASSUME NEW m \in Named(k), NEW i \in Nat
                   PROVE  <<m, i>> \in Pending(k)' <=> <<m, i>> \in Pending(k) /\ <<m, i>> # e
        OBVIOUS
      <4>1. CASE m = n
        <5>1. <<m, i>> # e <=> i # Load(n)
          BY <4>1
        <5>2. 1 <= i /\ i <= Load(n) - 1 <=> 1 <= i /\ i <= Load(n) /\ i # Load(n)
          BY <1>5
        <5> QED BY <1>5, <3>6, <3>7, <4>1, <5>1, <5>2
      <4>2. CASE m # n
        <5>1. <<m, i>> # e /\ m \in Notifiers
          BY <4>2 DEF Named
        <5> QED BY <1>5, <3>6, <3>7, <4>2, <5>1
      <4> QED BY <4>1, <4>2
    <3> HIDE DEF e
    <3>9. Pending(k)' = Pending(k) \ {e}
      BY <3>6, <3>7, <3>8
    <3>10. Cardinality(Pending(k)') = Cardinality(Pending(k)) - 1
      BY <2>1, <3>5, <3>9, FS_RemoveElement
    <3>11. Stats(k) \in Nat
      BY <2>1 DEF Stats
    <3> QED BY <2>1, <3>4, <3>10, <3>11
  <2> QED BY <2>2, <2>3
<1>7. Accounted'
  BY <1>6 DEF Accounted, Named
<1> QED BY <1>3, <1>4, <1>7 DEF CountInv

(* Distribution, for the product that Dispatch raises.                     *)
LEMMA OneMore == \A d, c \in Nat : (d + 1) * c = d * c + c
OBVIOUS

(* Dispatch gives every notifier of a name one more event, or counts it.   *)
LEMMA CountDispatch == ASSUME CountInv, Dispatch PROVE CountInv'
<1>0. CountTypes /\ HandInv /\ Accounted /\ Depth \in Nat /\ Depth # 0
  BY DispatcherAssumption DEF CountInv
<1>1. /\ dispatched' = dispatched + 1 /\ dispatched \in Nat /\ dispatched' \in Nat
      /\ UNCHANGED <<pc, hand, verdict, seen>>
      /\ queue' = [n \in Notifiers |-> IF Full(n) THEN queue[n] ELSE Append(queue[n], dispatched + 1)]
      /\ counters' = [counters EXCEPT !["dropped"] =
                         [k \in Names |-> counters["dropped"][k] + Cardinality(NamedFull(k))]]
  BY <1>0 DEF Dispatch, consumer, CountTypes
<1>2. ASSUME NEW k PROVE /\ IsFiniteSet(Named(k)) /\ Cardinality(Named(k)) \in Nat
                         /\ IsFiniteSet(NamedFull(k)) /\ Cardinality(NamedFull(k)) \in Nat
  <2>1. IsFiniteSet(Named(k)) /\ Cardinality(Named(k)) \in Nat
    BY <1>0, PendingIs
  <2>2. NamedFull(k) \in SUBSET Named(k)
    BY DEF NamedFull
  <2> QED BY <2>1, <2>2, FS_Subset, FS_CardinalityType
<1>3. \A n \in Notifiers :
         /\ queue'[n] \in Seq(Nat) /\ Len(queue'[n]) <= Depth
         /\ Len(queue'[n]) = IF Full(n) THEN Len(queue[n]) ELSE Len(queue[n]) + 1
  <2> SUFFICES ASSUME NEW n \in Notifiers
               PROVE  /\ queue'[n] \in Seq(Nat) /\ Len(queue'[n]) <= Depth
                      /\ Len(queue'[n]) = IF Full(n) THEN Len(queue[n]) ELSE Len(queue[n]) + 1
    OBVIOUS
  <2>1. queue[n] \in Seq(Nat) /\ Len(queue[n]) \in Nat /\ Len(queue[n]) <= Depth
    BY <1>0 DEF CountTypes
  <2>2. CASE Full(n)
    <3>1. queue'[n] = queue[n]
      BY <1>1, <2>2
    <3> QED BY <2>1, <2>2, <3>1
  <2>3. CASE ~Full(n)
    <3>1. queue'[n] = Append(queue[n], dispatched + 1)
      BY <1>1, <2>3
    <3>2. queue'[n] \in Seq(Nat) /\ Len(queue'[n]) = Len(queue[n]) + 1
      BY <1>1, <2>1, <3>1
    <3>3. Len(queue[n]) + 1 <= Depth
      BY <1>0, <2>1, <2>3 DEF Full
    <3> QED BY <2>3, <3>2, <3>3
  <2> QED BY <2>2, <2>3
<1>4. counters' \in [Verdicts \union {"dropped"} -> [Names -> Nat]]
  <2>1. counters["dropped"] \in [Names -> Nat]
    BY <1>0 DEF CountTypes
  <2>2. [k \in Names |-> counters["dropped"][k] + Cardinality(NamedFull(k))] \in [Names -> Nat]
    BY <1>2, <2>1
  <2> QED BY <1>0, <1>1, <2>2 DEF CountTypes
<1>5. CountTypes'
  <2>1. queue' \in [Notifiers -> Seq(Nat)]
    BY <1>1, <1>3
  <2> QED BY <1>0, <1>1, <1>3, <1>4, <2>1 DEF CountTypes
<1>6. HandInv'
  BY <1>0, <1>1 DEF HandInv
<1>7. \A n \in Notifiers : Load(n) \in Nat /\ Load(n)' = IF Full(n) THEN Load(n) ELSE Load(n) + 1
  <2> SUFFICES ASSUME NEW n \in Notifiers
               PROVE  Load(n) \in Nat /\ Load(n)' = IF Full(n) THEN Load(n) ELSE Load(n) + 1
    OBVIOUS
  <2>1. InHand(n)' = InHand(n) /\ InHand(n) \in Nat /\ Len(queue[n]) \in Nat
    BY <1>0, <1>1 DEF InHand, CountTypes
  <2>2. Len(queue'[n]) = IF Full(n) THEN Len(queue[n]) ELSE Len(queue[n]) + 1
    BY <1>3
  <2> QED BY <2>1, <2>2 DEF Load
<1>8. ASSUME NEW k \in Names
      PROVE  dispatched' * Cardinality(Named(k)) = Stats(k)' + Cardinality(Pending(k)')
  <2> DEFINE rest == Named(k) \ NamedFull(k)
             new == {<<n, Load(n) + 1>> : n \in rest}
  <2>1. /\ counters["sent"][k] \in Nat /\ counters["failed"][k] \in Nat /\ counters["dropped"][k] \in Nat
        /\ Cardinality(Pending(k)) \in Nat /\ IsFiniteSet(Pending(k))
        /\ dispatched * Cardinality(Named(k)) = Stats(k) + Cardinality(Pending(k))
    BY <1>0, PendingIs DEF CountTypes, Accounted, Verdicts
  <2>2. Stats(k)' = Stats(k) + Cardinality(NamedFull(k)) /\ Stats(k) \in Nat
    <3>1. /\ counters'["sent"][k] = counters["sent"][k] /\ counters'["failed"][k] = counters["failed"][k]
          /\ counters'["dropped"][k] = counters["dropped"][k] + Cardinality(NamedFull(k))
      BY <1>0, <1>1 DEF CountTypes, Verdicts
    <3> QED BY <1>2, <2>1, <3>1 DEF Stats
  <2>3. IsFiniteSet(rest) /\ Cardinality(rest) \in Nat
        /\ Cardinality(Named(k)) = Cardinality(NamedFull(k)) + Cardinality(rest)
    <3>1. Named(k) \cap NamedFull(k) = NamedFull(k)
      BY DEF NamedFull
    <3>2. IsFiniteSet(rest) /\ Cardinality(rest) = Cardinality(Named(k)) - Cardinality(NamedFull(k))
      BY <1>2, <3>1, FS_Difference
    <3>3. Cardinality(rest) \in Nat
      BY <3>2, FS_CardinalityType
    <3> QED BY <1>2, <3>2, <3>3
  <2>4. IsFiniteSet(new) /\ Cardinality(new) = Cardinality(rest)
    <3> DEFINE f == [n \in rest |-> <<n, Load(n) + 1>>]
    <3>1. f \in Bijection(rest, new)
      BY DEF Bijection, Injection, IsInjective, Surjection
    <3>2. ExistsBijection(rest, new)
      BY <3>1 DEF ExistsBijection
    <3> HIDE DEF rest, new
    <3> QED BY <2>3, <3>2, FS_Bijection
  <2>5. /\ \A m \in Named(k), i \in Nat : <<m, i>> \in Pending(k) <=> 1 <= i /\ i <= Load(m)
        /\ \A x \in Pending(k) : x = <<x[1], x[2]>> /\ x[1] \in Named(k) /\ x[2] \in Nat
    BY <1>0, PendingIs
  <2>6. /\ \A m \in Named(k), i \in Nat : <<m, i>> \in Pending(k)' <=> 1 <= i /\ i <= Load(m)'
        /\ \A x \in Pending(k)' : x = <<x[1], x[2]>> /\ x[1] \in Named(k) /\ x[2] \in Nat
    BY <1>5, PendingNext
  <2>7. \A m \in Named(k), i \in Nat : <<m, i>> \in new <=> ~Full(m) /\ i = Load(m) + 1
    BY DEF NamedFull
  <2>8. \A x \in new : x = <<x[1], x[2]>> /\ x[1] \in Named(k) /\ x[2] \in Nat
    BY <1>7 DEF Named
  <2> HIDE DEF new, rest
  <2>9. \A m \in Named(k), i \in Nat :
           /\ <<m, i>> \in Pending(k)' <=> <<m, i>> \in Pending(k) \/ <<m, i>> \in new
           /\ ~(<<m, i>> \in Pending(k) /\ <<m, i>> \in new)
    <3> SUFFICES ASSUME NEW m \in Named(k), NEW i \in Nat
                 PROVE  /\ <<m, i>> \in Pending(k)' <=> <<m, i>> \in Pending(k) \/ <<m, i>> \in new
                        /\ ~(<<m, i>> \in Pending(k) /\ <<m, i>> \in new)
      OBVIOUS
    <3>1. Load(m) \in Nat /\ Load(m)' = IF Full(m) THEN Load(m) ELSE Load(m) + 1
      BY <1>7 DEF Named
    <3>2. /\ <<m, i>> \in Pending(k) <=> 1 <= i /\ i <= Load(m)
          /\ <<m, i>> \in Pending(k)' <=> 1 <= i /\ i <= Load(m)'
          /\ <<m, i>> \in new <=> ~Full(m) /\ i = Load(m) + 1
      BY <2>5, <2>6, <2>7
    <3> QED BY <3>1, <3>2
  <2>10. Pending(k)' = Pending(k) \union new
    BY <2>5, <2>6, <2>8, <2>9
  <2>11. Pending(k) \cap new = {}
    BY <2>5, <2>9
  <2>12. Cardinality(Pending(k)') = Cardinality(Pending(k)) + Cardinality(new)
    <3>1. Cardinality(Pending(k) \union new)
            = Cardinality(Pending(k)) + Cardinality(new) - Cardinality(Pending(k) \cap new)
      BY <2>1, <2>4, FS_Union
    <3>2. Cardinality(Pending(k) \cap new) = 0
      BY <2>11, FS_EmptySet
    <3> QED BY <2>1, <2>3, <2>4, <2>10, <3>1, <3>2
  <2>13. dispatched' * Cardinality(Named(k)) = dispatched * Cardinality(Named(k)) + Cardinality(Named(k))
    BY <1>1, <1>2, OneMore
  <2> QED BY <1>2, <2>1, <2>2, <2>3, <2>4, <2>12, <2>13
<1>9. Accounted'
  BY <1>8 DEF Accounted, Named
<1> QED BY <1>5, <1>6, <1>9 DEF CountInv

(* A consumer that keeps its event, or waits, changes no count.            *)
LEMMA CountMoves ==
    ASSUME CountInv, NEW n \in Notifiers, NEW s,
           pc' = [pc EXCEPT ![n] = s],
           s \in {"send", "backoff", "load", "swap"} => hand[n] # None,
           s = "range" => hand[n] = None,
           s \in {"load", "swap"} => verdict'[n] \in Verdicts,
           \A m \in Notifiers : m # n => verdict'[m] = verdict[m],
           DOMAIN verdict' = Notifiers, seen' \in [Notifiers -> Nat],
           UNCHANGED <<queue, hand, counters, dispatched>>
    PROVE  CountInv'
<1>0. CountTypes /\ HandInv /\ Accounted
  BY DEF CountInv
<1>1. CountTypes'
  BY <1>0 DEF CountTypes
<1>2. pc'[n] = s /\ \A m \in Notifiers : m # n => pc'[m] = pc[m]
  BY <1>0 DEF CountTypes
<1>3. HandInv'
  BY <1>0, <1>2 DEF HandInv
<1>4. \A m \in Notifiers : Load(m)' = Load(m)
  BY DEF Load, InHand
<1>5. Accounted'
  BY <1>0, <1>1, <1>4, CountSame
<1> QED BY <1>1, <1>3, <1>5 DEF CountInv

(* Every step keeps the account.                                           *)
LEMMA CountStep == CountInv /\ [Next]_vars => CountInv'
<1> SUFFICES ASSUME CountInv, [Next]_vars PROVE CountInv'
  OBVIOUS
<1>0. CountTypes /\ HandInv /\ Accounted /\ NameOf \in [Notifiers -> Names] /\ None \notin Nat
  BY DispatcherAssumption DEF CountInv
<1> USE DEF Goto
<1>1. CASE Dispatch
  BY <1>1, CountDispatch
<1>2. ASSUME NEW n \in Notifiers, Take(n) PROVE CountInv'
  <2>1. queue[n] \in Seq(Nat) /\ queue[n] # <<>> /\ Len(queue[n]) <= Depth /\ hand[n] = None
    BY <1>0, <1>2 DEF Take, CountTypes, HandInv
  <2>2. /\ Head(queue[n]) \in Nat /\ Tail(queue[n]) \in Seq(Nat)
        /\ Len(queue[n]) \in Nat /\ Len(Tail(queue[n])) = Len(queue[n]) - 1
        /\ Len(queue[n]) - 1 <= Depth
    BY <2>1, <1>0, DispatcherAssumption
  <2>3. /\ queue' = [queue EXCEPT ![n] = Tail(queue[n])] /\ hand' = [hand EXCEPT ![n] = Head(queue[n])]
        /\ pc' = [pc EXCEPT ![n] = "send"] /\ UNCHANGED <<verdict, seen, counters, dispatched>>
    BY <1>2 DEF Take
  <2>4. /\ queue'[n] = Tail(queue[n]) /\ hand'[n] = Head(queue[n]) /\ pc'[n] = "send"
        /\ \A m \in Notifiers : m # n => queue'[m] = queue[m] /\ hand'[m] = hand[m] /\ pc'[m] = pc[m]
    BY <1>0, <2>3 DEF CountTypes
  <2>5. CountTypes'
    <3>1. queue' \in [Notifiers -> Seq(Nat)] /\ hand' \in [Notifiers -> Nat \union {None}] /\ DOMAIN pc' = Notifiers
      BY <1>0, <2>2, <2>3 DEF CountTypes
    <3>2. \A m \in Notifiers : Len(queue'[m]) <= Depth
      BY <1>0, <2>2, <2>4 DEF CountTypes
    <3> QED BY <1>0, <2>3, <3>1, <3>2 DEF CountTypes
  <2>6. HandInv'
    BY <1>0, <2>2, <2>3, <2>4 DEF HandInv
  <2>7. \A m \in Notifiers : Load(m)' = Load(m)
    <3>1. Load(n) = Len(queue[n]) + 0 /\ Load(n)' = Len(Tail(queue[n])) + 1
      BY <1>0, <2>1, <2>2, <2>4 DEF Load, InHand
    <3>2. Load(n)' = Load(n)
      BY <2>2, <3>1
    <3>3. \A m \in Notifiers : m # n => Load(m)' = Load(m)
      BY <2>4 DEF Load, InHand
    <3> QED BY <3>2, <3>3
  <2>8. Accounted'
    BY <1>0, <2>3, <2>5, <2>7, CountSame
  <2> QED BY <2>5, <2>6, <2>8 DEF CountInv
<1>3. ASSUME NEW n \in Notifiers, Leave(n) PROVE CountInv'
  BY <1>0, <1>3, CountMoves DEF Leave, CountTypes, HandInv
<1>4. ASSUME NEW n \in Notifiers, Post(n) PROVE CountInv'
  <2>1. hand[n] # None /\ UNCHANGED <<queue, hand, seen, counters, dispatched>>
    BY <1>0, <1>4 DEF Post, HandInv
  <2>2. ASSUME NEW v \in Verdicts, Notified(n, v) PROVE CountInv'
    <3>1. /\ verdict'[n] = v /\ DOMAIN verdict' = Notifiers
          /\ \A m \in Notifiers : m # n => verdict'[m] = verdict[m]
      BY <1>0, <2>2 DEF Notified, CountTypes
    <3> QED BY <1>0, <2>1, <2>2, <3>1, CountMoves DEF Notified, CountTypes
  <2>3. CASE Goto(n, "backoff") /\ UNCHANGED verdict
    BY <1>0, <2>1, <2>3, CountMoves DEF CountTypes
  <2>4. "sent" \in Verdicts /\ "failed" \in Verdicts
    BY DEF Verdicts
  <2> QED BY <1>4, <2>2, <2>3, <2>4 DEF Post
<1>5. ASSUME NEW n \in Notifiers, Backoff(n) PROVE CountInv'
  BY <1>0, <1>5, CountMoves DEF Backoff, CountTypes, HandInv
<1>6. ASSUME NEW n \in Notifiers, pc[n] \in {"load", "swap"}
      PROVE  /\ verdict[n] \in Verdicts /\ hand[n] # None
             /\ counters[verdict[n]][NameOf[n]] \in Nat
  <2>1. verdict[n] \in Verdicts /\ hand[n] # None
    BY <1>0, <1>6 DEF HandInv
  <2>2. counters[verdict[n]] \in [Names -> Nat]
    BY <1>0, <2>1 DEF CountTypes
  <2> QED BY <1>0, <2>1, <2>2
<1>7. ASSUME NEW n \in Notifiers, BumpLoad(n) PROVE CountInv'
  <2> DEFINE c == counters[verdict[n]][NameOf[n]]
  <2>1. pc[n] = "load" /\ UNCHANGED <<queue, dispatched>>
    BY <1>7 DEF BumpLoad
  <2>2. c \in Nat /\ verdict[n] \in Verdicts /\ hand[n] # None
    BY <1>6, <2>1
  <2>3. CASE c = 0
    <3>1. Counted(n, 1) /\ 1 = c + 1
      BY <1>7, <2>3 DEF BumpLoad
    <3> QED BY <2>1, <3>1, CountOne
  <2>4. CASE c # 0
    <3>1. /\ seen' = [seen EXCEPT ![n] = c] /\ pc' = [pc EXCEPT ![n] = "swap"]
          /\ UNCHANGED <<hand, verdict, counters>>
      BY <1>7, <2>4 DEF BumpLoad
    <3>2. seen' \in [Notifiers -> Nat]
      BY <1>0, <2>2, <3>1 DEF CountTypes
    <3> QED BY <1>0, <2>1, <2>2, <3>1, <3>2, CountMoves DEF CountTypes
  <2> QED BY <2>3, <2>4
<1>8. ASSUME NEW n \in Notifiers, BumpSwap(n) PROVE CountInv'
  <2> DEFINE c == counters[verdict[n]][NameOf[n]]
  <2>1. pc[n] = "swap" /\ UNCHANGED <<queue, dispatched>>
    BY <1>8 DEF BumpSwap
  <2>2. c \in Nat /\ verdict[n] \in Verdicts /\ hand[n] # None
    BY <1>6, <2>1
  <2>3. CASE c = seen[n]
    <3>1. Counted(n, c + 1)
      BY <1>8, <2>3 DEF BumpSwap
    <3> QED BY <2>1, <3>1, CountOne
  <2>4. CASE c # seen[n]
    <3>1. pc' = [pc EXCEPT ![n] = "load"] /\ UNCHANGED <<hand, verdict, seen, counters>>
      BY <1>8, <2>4 DEF BumpSwap
    <3> QED BY <1>0, <2>1, <2>2, <3>1, CountMoves DEF CountTypes
  <2> QED BY <2>3, <2>4
<1>9. ASSUME UNCHANGED <<queue, pc, hand, verdict, seen, counters, dispatched>> PROVE CountInv'
  <2>1. CountTypes' /\ HandInv'
    BY <1>0, <1>9 DEF CountTypes, HandInv
  <2>2. \A m \in Notifiers : Load(m)' = Load(m)
    BY <1>9 DEF Load, InHand
  <2> QED BY <1>0, <1>9, <2>1, <2>2, CountSame DEF CountInv
<1>10. ASSUME NEW c, Close(c) \/ CloseReturn(c) PROVE CountInv'
  BY <1>9, <1>10 DEF Close, CloseReturn, consumer
<1>11. CASE UNCHANGED vars
  BY <1>9, <1>11 DEF vars, consumer
<1> QED BY <1>1, <1>2, <1>3, <1>4, <1>5, <1>7, <1>8, <1>10, <1>11 DEF Next, Consume

(* Every event is queued, in hand or counted once for each notifier, for   *)
(* every set of notifiers, however names are shared.                       *)
THEOREM DispatcherAccounted == Spec => []Accounted
<1>1. CountInv => Accounted
  BY DEF CountInv
<1> QED BY <1>1, CountInit, CountStep, PTL DEF Spec

-----------------------------------------------------------------------------
(* A bounded nonempty set of naturals has a maximum: the bound minus the   *)
(* least distance from it.                                                 *)
LEMMA MaxExists ==
    ASSUME NEW T \in SUBSET Nat, T # {}, NEW b \in Nat, \A k \in T : k <= b
    PROVE  Max(T) \in T /\ \A k \in T : k <= Max(T)
<1> DEFINE R == OpToRel(<, Nat)
           D == {b - k : k \in T}
<1>1. IsWellFoundedOn(R, Nat)
  BY NatLessThanWellFounded
<1>2. \A x, y \in Nat : x < y => <<x, y>> \in R
  BY DEF OpToRel
<1>3. D \in SUBSET Nat /\ D # {}
  <2>1. \A k \in T : b - k \in Nat
    OBVIOUS
  <2>2. PICK k \in T : TRUE
    OBVIOUS
  <2> QED BY <2>1, <2>2
<1> HIDE DEF R
<1>4. PICK d \in D : \A k \in D : ~(<<k, d>> \in R)
  BY <1>1, <1>3, WFMin
<1>5. PICK n \in T : d = b - n
  BY <1>4
<1>6. \A k \in T : ~(b - k < b - n)
  BY <1>2, <1>3, <1>4, <1>5
<1>7. \A k \in T : k <= n
  BY <1>6
<1>8. \E x \in T : \A y \in T : x >= y
  BY <1>5, <1>7
<1>9. Max(T) \in T /\ \A y \in T : Max(T) >= y
  BY <1>8 DEF Max
<1> QED BY <1>9

-----------------------------------------------------------------------------
Line == [ids : SUBSET Nat, seq : Nat, nl : BOOLEAN]

(* A line is one of the file's.                                            *)
LEMMA LinesAre ==
    ASSUME NEW f \in Seq(Line)
    PROVE  /\ \A i \in DOMAIN f : f[i] \in Line /\ f[i] \in LinesOf(f)
           /\ \A l \in LinesOf(f) : \E i \in DOMAIN f : l = f[i]
           /\ LinesOf(f) \subseteq Line
BY DEF LinesOf

(* What a line consists of.                                                *)
LEMMA LineTypes == \A l \in Line : l.ids \subseteq Nat /\ l.seq \in Nat /\ l.nl \in BOOLEAN
BY DEF Line

(* lastSeq is the largest number of a file.                                *)
LEMMA LastSeqIs ==
    ASSUME NEW f \in Seq(Line), NEW b \in Nat, \A l \in LinesOf(f) : l.seq <= b
    PROVE  lastSeq(f) \in 0..b /\ \A l \in LinesOf(f) : l.seq <= lastSeq(f)
<1> DEFINE T == {l.seq : l \in LinesOf(f)} \union {0}
<1>1. T \in SUBSET Nat /\ T # {} /\ \A k \in T : k <= b
  BY LinesAre, LineTypes
<1>2. \A l \in LinesOf(f) : l.seq \in T
  OBVIOUS
<1>3. lastSeq(f) = Max(T)
  BY DEF lastSeq
<1> HIDE DEF T
<1>4. Max(T) \in T /\ \A k \in T : k <= Max(T)
  BY <1>1, MaxExists
<1>5. Max(T) \in 0..b
  <2>1. \A k \in T : k \in Nat /\ k <= b
    BY <1>1
  <2>2. Max(T) \in Nat /\ Max(T) <= b
    BY <1>4, <2>1
  <2> QED BY <2>2
<1>6. \A l \in LinesOf(f) : l.seq <= Max(T)
  BY <1>2, <1>4
<1> QED BY <1>3, <1>5, <1>6

(* g is f with an event appended: all lines but the last are alone; the    *)
(* last one is new, or is the unterminated one with the event glued to it. *)
Grown(f, id, n, nl, g) ==
    /\ g \in Seq(Line) /\ Len(g) \in Nat \ {0}
    /\ \A i \in DOMAIN g : i < Len(g) => i \in DOMAIN f /\ g[i] = f[i]
    /\ g[Len(g)].nl = nl
    /\ \/ /\ Len(g) = Len(f) + 1
          /\ g[Len(g)].ids = {id} /\ g[Len(g)].seq = n
          /\ f # <<>> => f[Len(f)].nl
       \/ /\ Len(g) = Len(f) /\ ~f[Len(f)].nl
          /\ g[Len(g)].ids = f[Len(f)].ids \union {id} /\ g[Len(g)].seq = 0

(* This is what Appended makes.                                            *)
LEMMA AppendedIs ==
    ASSUME NEW f \in Seq(Line), NEW id \in Nat, NEW n \in Nat, NEW nl \in BOOLEAN
    PROVE  Grown(f, id, n, nl, Appended(f, id, n, nl))
<1> DEFINE g == Appended(f, id, n, nl)
<1> HIDE DEF g
<1> SUFFICES Grown(f, id, n, nl, g)
  BY DEF g
<1>1. CASE f # <<>> /\ ~f[Len(f)].nl
  <2> DEFINE l == f[Len(f)]
             k == [ids |-> l.ids \union {id}, seq |-> 0, nl |-> nl]
  <2>1. g = [f EXCEPT ![Len(f)] = k]
    BY <1>1 DEF Appended, g
  <2>2. Len(f) \in Nat /\ Len(f) # 0 /\ DOMAIN f = 1..Len(f)
    BY <1>1
  <2>3. l \in Line
    BY <2>2
  <2>4. k \in Line /\ k.ids = l.ids \union {id} /\ k.seq = 0 /\ k.nl = nl
    BY <2>3, LineTypes DEF Line
  <2> HIDE DEF k
  <2>5. g \in Seq(Line) /\ Len(g) = Len(f) /\ g[Len(f)] = k
    BY <2>1, <2>2, <2>4
  <2>6. \A i \in DOMAIN g : i < Len(g) => i \in DOMAIN f /\ g[i] = f[i]
    BY <2>1, <2>2, <2>5
  <2> QED BY <1>1, <2>2, <2>4, <2>5, <2>6 DEF Grown
<1>2. CASE ~(f # <<>> /\ ~f[Len(f)].nl)
  <2> DEFINE k == [ids |-> {id}, seq |-> n, nl |-> nl]
  <2>1. g = Append(f, k)
    BY <1>2 DEF Appended, g
  <2>2. k \in Line /\ k.ids = {id} /\ k.seq = n /\ k.nl = nl
    BY DEF Line
  <2> HIDE DEF k
  <2>3. /\ g \in Seq(Line) /\ Len(f) \in Nat /\ Len(g) = Len(f) + 1 /\ g[Len(g)] = k
        /\ DOMAIN g = 1..(Len(f) + 1) /\ DOMAIN f = 1..Len(f)
    BY <2>1, <2>2
  <2>4. \A i \in DOMAIN g : i < Len(g) => i \in DOMAIN f /\ g[i] = f[i]
    BY <2>1, <2>2, <2>3
  <2>5. f # <<>> => f[Len(f)].nl
    BY <1>2
  <2>6. Len(g) \in Nat \ {0}
    BY <2>3
  <2> QED BY <2>2, <2>3, <2>4, <2>5, <2>6 DEF Grown
<1> QED BY <1>1, <1>2

-----------------------------------------------------------------------------
(* All events of a line are older than those of another.                   *)
Earlier(k, l) == \A a \in k.ids, b \in l.ids : a < b

(* A file with events up to e: a readable line has one event, numbers and  *)
(* events increase, and only the last line may lack its newline.           *)
FileOK(f, e) ==
    /\ f \in Seq(Line)
    /\ \A i \in DOMAIN f : f[i].seq <= e /\ f[i].ids \subseteq 1..e
    /\ \A i \in DOMAIN f : f[i].seq # 0 => \E a \in f[i].ids : f[i].ids = {a}
    /\ \A i, j \in DOMAIN f : i < j => Earlier(f[i], f[j])
    /\ \A i \in DOMAIN f : i < Len(f) => f[i].nl
    /\ Increasing(f)

(* The events of the previous generation are older.                        *)
FilesOK(p, c, e) ==
    /\ FileOK(p, e) /\ FileOK(c, e)
    /\ \A k \in LinesOf(p), l \in LinesOf(c) : Earlier(k, l)

(* An empty file is a generation like any other.                           *)
LEMMA EmptyOK == ASSUME NEW e \in Nat PROVE FileOK(<<>>, e) /\ LinesOf(<<>>) = {}
BY DEF FileOK, LinesOf, Increasing

(* A file that starts its life as the previous generation.                 *)
LEMMA RotationOK ==
    ASSUME NEW e \in Nat, NEW p, NEW c, FilesOK(p, c, e)
    PROVE  FilesOK(c, <<>>, e)
BY EmptyOK DEF FilesOK

(* Lines of a file that grew: old ones, and the last.                      *)
LEMMA GrownLines ==
    ASSUME NEW f \in Seq(Line), NEW id, NEW n, NEW nl, NEW g, Grown(f, id, n, nl, g)
    PROVE  /\ \A l \in LinesOf(g) : l \in LinesOf(f) \/ l = g[Len(g)]
           /\ g[Len(g)] \in LinesOf(g)
           /\ \A i \in DOMAIN g : i <= Len(g) /\ (i # Len(g) => i < Len(g))
           /\ \/ g[Len(g)].ids = {id}
              \/ /\ f[Len(f)] \in LinesOf(f) /\ Len(f) \in DOMAIN f /\ Len(g) = Len(f)
                 /\ g[Len(g)].ids = f[Len(f)].ids \union {id}
<1>1. /\ g \in Seq(Line) /\ Len(g) \in Nat \ {0}
      /\ \A i \in DOMAIN g : i < Len(g) => i \in DOMAIN f /\ g[i] = f[i]
      /\ \/ Len(g) = Len(f) + 1 /\ g[Len(g)].ids = {id}
         \/ Len(g) = Len(f) /\ g[Len(g)].ids = f[Len(f)].ids \union {id}
  BY DEF Grown
<1>2. DOMAIN g = 1..Len(g) /\ Len(g) \in DOMAIN g
  BY <1>1
<1>3. \A i \in DOMAIN g : i <= Len(g) /\ (i # Len(g) => i < Len(g))
  <2>1. \A k \in Nat : \A i \in 1..k : i <= k /\ (i # k => i < k)
    OBVIOUS
  <2>2. Len(g) \in Nat
    BY <1>1
  <2> QED BY <1>2, <2>1, <2>2
<1>4. \A l \in LinesOf(g) : l \in LinesOf(f) \/ l = g[Len(g)]
  BY <1>1, <1>3 DEF LinesOf
<1>5. Len(g) = Len(f) => Len(f) \in DOMAIN f /\ f[Len(f)] \in LinesOf(f)
  BY <1>1 DEF LinesOf
<1>6. g[Len(g)] \in LinesOf(g)
  BY <1>2 DEF LinesOf
<1> QED BY <1>1, <1>3, <1>4, <1>5, <1>6

(* A line that is terminated stays.                                        *)
LEMMA KeptLines ==
    ASSUME NEW f \in Seq(Line), NEW id, NEW n, NEW nl, NEW g, Grown(f, id, n, nl, g),
           NEW r \in LinesOf(f), r.nl
    PROVE  r \in LinesOf(g)
<1>1. PICK i \in DOMAIN f : r = f[i]
  BY DEF LinesOf
<1>2. g \in Seq(Line) /\ i \in Nat /\ i <= Len(f) /\ Len(f) \in Nat /\ Len(g) \in Nat /\ i >= 1
  BY <1>1 DEF Grown
<1>3. i < Len(g)
  <2>1. CASE Len(g) = Len(f) + 1
    BY <1>2, <2>1
  <2>2. CASE Len(g) = Len(f)
    <3>1. i # Len(f)
      BY <1>1, <2>2 DEF Grown
    <3> QED BY <1>2, <2>2, <3>1
  <2> QED BY <2>1, <2>2 DEF Grown
<1>4. i \in DOMAIN g
  BY <1>2, <1>3
<1>5. g[i] = r
  BY <1>1, <1>3, <1>4 DEF Grown
<1> QED BY <1>4, <1>5 DEF LinesOf

(* A generation grows by an event with a number above those of its         *)
(* terminated lines, or with none.                                         *)
LEMMA GrowthOK ==
    ASSUME NEW e \in Nat, NEW f, FileOK(f, e), NEW n \in 0..(e + 1), NEW nl \in BOOLEAN,
           n # 0 => \A i \in DOMAIN f : f[i].nl => f[i].seq < n,
           NEW g, Grown(f, e + 1, n, nl, g)
    PROVE  FileOK(g, e + 1)
<1> n \in Nat /\ e + 1 \in Nat /\ f \in Seq(Line)
  BY DEF FileOK
<1> DEFINE m == Len(g)
           last == g[m]
<1>1. /\ g \in Seq(Line) /\ m \in Nat \ {0}
      /\ \A i \in DOMAIN g : i < m => i \in DOMAIN f /\ g[i] = f[i]
      /\ \/ /\ m = Len(f) + 1
            /\ last.ids = {e + 1} /\ last.seq = n
            /\ f # <<>> => f[Len(f)].nl
         \/ /\ m = Len(f)
            /\ last.ids = f[Len(f)].ids \union {e + 1} /\ last.seq = 0
  BY DEF Grown
<1>2. \A i \in DOMAIN g : i <= m /\ (i # m => i < m)
  BY GrownLines
<1>3. DOMAIN g = 1..m /\ DOMAIN f = 1..Len(f) /\ Len(f) \in Nat
  BY <1>1
<1>4. \A i \in DOMAIN f : /\ f[i].seq \in Nat /\ f[i].seq <= e
                          /\ f[i].ids \subseteq 1..e
                          /\ f[i] \in Line
  BY LineTypes DEF FileOK
<1> HIDE DEF m, last
<1>5. m = Len(f) => Len(f) \in DOMAIN f
  <2>1. m \in Nat \ {0} /\ DOMAIN f = 1..Len(f)
    BY <1>1, <1>3
  <2>2. m \in 1..m
    BY <2>1
  <2> QED BY <2>1, <2>2
<1>6. last.seq <= e + 1 /\ last.ids \subseteq 1..(e + 1)
  BY <1>1, <1>4, <1>5
<1>7. \A i \in DOMAIN g : g[i].seq <= e + 1 /\ g[i].ids \subseteq 1..(e + 1)
  <2> SUFFICES ASSUME NEW i \in DOMAIN g PROVE g[i].seq <= e + 1 /\ g[i].ids \subseteq 1..(e + 1)
    OBVIOUS
  <2>1. CASE i = m
    BY <2>1, <1>6 DEF last
  <2>2. CASE i < m
    <3>1. i \in DOMAIN f /\ g[i] = f[i]
      BY <2>2, <1>1
    <3>2. f[i].seq <= e + 1 /\ 1..e \subseteq 1..(e + 1)
      BY <3>1, <1>4
    <3> QED BY <3>1, <3>2, <1>4
  <2> QED BY <1>2, <2>1, <2>2
<1>8. \A i \in DOMAIN g : g[i].seq # 0 => \E a \in g[i].ids : g[i].ids = {a}
  <2> SUFFICES ASSUME NEW i \in DOMAIN g, g[i].seq # 0 PROVE \E a \in g[i].ids : g[i].ids = {a}
    OBVIOUS
  <2>1. CASE i = m
    <3>1. g[i].ids = {e + 1}
      BY <2>1, <1>1 DEF last
    <3> QED BY <3>1
  <2>2. CASE i < m
    <3>1. i \in DOMAIN f /\ g[i] = f[i]
      BY <2>2, <1>1
    <3> QED BY <3>1 DEF FileOK
  <2> QED BY <1>2, <2>1, <2>2
<1>9. \A i, j \in DOMAIN g : i < j => Earlier(g[i], g[j])
  <2> SUFFICES ASSUME NEW i \in DOMAIN g, NEW j \in DOMAIN g, i < j PROVE Earlier(g[i], g[j])
    OBVIOUS
  <2>1. i < m
    <3>1. i \in 1..m /\ j \in 1..m
      BY <1>3
    <3> QED BY <3>1, <1>1
  <2>2. i \in DOMAIN f /\ g[i] = f[i] /\ f[i].ids \subseteq 1..e
    BY <2>1, <1>1, <1>4
  <2>3. CASE j < m
    BY <2>2, <2>3, <1>1 DEF FileOK
  <2>4. CASE j = m
    <3>1. \A a \in f[i].ids : a < e + 1
      BY <2>2
    <3>2. m = Len(f) => \A a \in f[i].ids, b \in f[Len(f)].ids : a < b
      BY <2>1, <2>2, <1>5 DEF FileOK, Earlier
    <3>3. \A a \in f[i].ids, b \in last.ids : a < b
      BY <3>1, <3>2, <1>1
    <3> QED BY <2>2, <2>4, <3>3 DEF Earlier, last
  <2> QED BY <1>2, <2>3, <2>4
<1>10. \A i \in DOMAIN g : i < m => g[i].nl
  <2> SUFFICES ASSUME NEW i \in DOMAIN g, i < m PROVE g[i].nl
    OBVIOUS
  <2>1. i \in DOMAIN f /\ g[i] = f[i]
    BY <1>1
  <2>2. CASE i < Len(f)
    BY <2>1, <2>2 DEF FileOK
  <2>3. CASE ~(i < Len(f))
    <3>1. i = Len(f) /\ f # <<>>
      BY <2>1, <2>3, <1>3
    <3>2. m = Len(f) + 1
      BY <3>1, <1>1, <1>3
    <3>3. f[Len(f)].nl
      BY <3>1, <3>2, <1>1, <1>3
    <3> QED BY <2>1, <3>1, <3>3
  <2> QED BY <2>2, <2>3
<1>11. Increasing(g)
  <2> SUFFICES ASSUME NEW i \in DOMAIN g, NEW j \in DOMAIN g, i < j, g[i].seq # 0, g[j].seq # 0
               PROVE  g[i].seq < g[j].seq
    BY DEF Increasing
  <2>1. i < m
    <3>1. i \in 1..m /\ j \in 1..m
      BY <1>3
    <3> QED BY <3>1, <1>1
  <2>2. i \in DOMAIN f /\ g[i] = f[i] /\ g[i].nl
    BY <2>1, <1>1, <1>10
  <2>3. CASE j < m
    BY <2>2, <2>3, <1>1 DEF FileOK, Increasing
  <2>4. CASE j = m
    <3>1. g[j].seq = n /\ n # 0
      BY <2>4, <1>1 DEF last
    <3>2. f[i].seq < n
      BY <2>2, <3>1
    <3> QED BY <2>2, <3>1, <3>2
  <2> QED BY <1>2, <2>3, <2>4
<1> QED BY <1>1, <1>7, <1>8, <1>9, <1>10, <1>11 DEF FileOK, m

(* The two files stay in order.                                            *)
LEMMA GrowthInOrder ==
    ASSUME NEW e \in Nat, NEW p, NEW f, FilesOK(p, f, e), NEW n, NEW nl,
           NEW g, Grown(f, e + 1, n, nl, g),
           NEW k \in LinesOf(p), NEW l \in LinesOf(g)
    PROVE  Earlier(k, l)
<1>1. f \in Seq(Line)
  BY DEF FilesOK, FileOK
<1>2. k.ids \subseteq 1..e
  BY DEF FilesOK, FileOK, LinesOf
<1>3. \A a \in k.ids : a < e + 1
  BY <1>2
<1>4. \A h \in LinesOf(f) : Earlier(k, h)
  BY DEF FilesOK
<1>5. CASE l \in LinesOf(f)
  BY <1>4, <1>5
<1>6. CASE l.ids = {e + 1}
  BY <1>3, <1>6 DEF Earlier
<1>7. CASE f[Len(f)] \in LinesOf(f) /\ l.ids = f[Len(f)].ids \union {e + 1}
  BY <1>3, <1>4, <1>7 DEF Earlier
<1> HIDE DEF Earlier
<1>8. /\ l \in LinesOf(f) \/ l = g[Len(g)]
      /\ \/ g[Len(g)].ids = {e + 1}
         \/ f[Len(f)] \in LinesOf(f) /\ g[Len(g)].ids = f[Len(f)].ids \union {e + 1}
  BY <1>1, GrownLines
<1> QED BY <1>5, <1>6, <1>7, <1>8

-----------------------------------------------------------------------------
(* Above the numbers of the lines, but for one that lacks its newline.     *)
Covers(s, f) == \A l \in LinesOf(f) : l.seq <= s \/ (~l.nl /\ l.seq = s + 1)

(* An open log continues above its current file, and no number is beyond   *)
(* the count of events.                                                    *)
LogInv ==
    /\ up \in BOOLEAN /\ handle \in BOOLEAN /\ forgot \in BOOLEAN
    /\ size \in Nat /\ events \in Nat /\ seq \in 0..events
    /\ FilesOK(previous, current, events)
    /\ up => Covers(seq, current)

(* The first log is empty.                                                 *)
LEMMA NumbersInit == LogInit => LogInv
<1>1. FileOK(<<>>, 0) /\ LinesOf(<<>>) = {}
  BY EmptyOK
<1>2. FilesOK(<<>>, <<>>, 0)
  BY <1>1 DEF FilesOK
<1> SUFFICES ASSUME LogInit PROVE LogInv
  OBVIOUS
<1>3. FilesOK(previous, current, events)
  BY <1>2 DEF LogInit
<1>4. seq \in 0..events /\ size \in Nat /\ events \in Nat
  BY DEF LogInit
<1> QED BY <1>3, <1>4 DEF LogInit, LogInv

(* What a write does, rotation included.                                   *)
Writes(n, nl) ==
    /\ Rotate
    /\ events' = events + 1
    /\ current' = Appended(Rotated, events + 1, n, nl)

(* The files after a write.                                                *)
LEMMA WriteOK ==
    ASSUME LogInv, up, NEW n \in {0, seq + 1}, NEW nl \in BOOLEAN, Writes(n, nl)
    PROVE  /\ FilesOK(previous', current', events') /\ events' \in Nat /\ seq + 1 \in 0..events'
           /\ Covers(seq + 1, current')
           /\ ~nl => Covers(seq, current')
           /\ Grown(Rotated, events + 1, n, nl, current')
<1> DEFINE g == Rotated
<1>1. events \in Nat /\ seq \in Nat /\ n \in 0..(events + 1) /\ n \in Nat /\ seq + 1 \in 0..(events + 1)
  BY DEF LogInv
<1>2. FilesOK(previous', g, events)
  BY <1>1, RotationOK DEF LogInv, Writes, Rotate, Rotated
<1>3. Covers(seq, g)
  BY EmptyOK, <1>1 DEF LogInv, Rotated, Covers
<1> HIDE DEF g
<1>4. FileOK(g, events) /\ g \in Seq(Line)
  BY <1>2 DEF FilesOK, FileOK
<1>5. Grown(g, events + 1, n, nl, current')
  <2>1. events + 1 \in Nat
    BY <1>1
  <2> QED BY <1>1, <1>4, <2>1, AppendedIs DEF Writes, g
<1>6. n # 0 => \A i \in DOMAIN g : g[i].nl => g[i].seq < n
  <2>1. \A l \in LinesOf(g) : l.seq \in Nat
    BY <1>4, LinesAre, LineTypes
  <2>2. n # 0 => \A l \in LinesOf(g) : l.nl => l.seq < n
    BY <1>1, <1>3, <2>1 DEF Covers
  <2> QED BY <1>4, <2>2, LinesAre
<1>7. FileOK(current', events + 1)
  BY <1>1, <1>4, <1>5, <1>6, GrowthOK
<1>8. FileOK(previous', events + 1)
  <2>1. \A i \in DOMAIN previous' : /\ previous'[i].seq <= events /\ previous'[i].ids \subseteq 1..events
                                    /\ previous'[i].seq \in Nat
    BY <1>2, LineTypes DEF FilesOK, FileOK
  <2>2. \A i \in DOMAIN previous' : previous'[i].seq <= events + 1
    BY <1>1, <2>1
  <2>3. 1..events \subseteq 1..(events + 1)
    BY <1>1
  <2> QED BY <1>2, <2>1, <2>2, <2>3 DEF FilesOK, FileOK
<1>9. \A k \in LinesOf(previous'), l \in LinesOf(current') : Earlier(k, l)
  BY <1>1, <1>2, <1>5, GrowthInOrder
<1>10. FilesOK(previous', current', events')
  BY <1>7, <1>8, <1>9 DEF FilesOK, Writes
<1>11. /\ \A l \in LinesOf(current') : l \in LinesOf(g) \/ l = current'[Len(current')]
       /\ current'[Len(current')].seq \in {0, n} /\ current'[Len(current')].nl = nl
  <2>1. \A l \in LinesOf(current') : l \in LinesOf(g) \/ l = current'[Len(current')]
    BY <1>4, <1>5, GrownLines
  <2>2. current'[Len(current')].seq \in {0, n} /\ current'[Len(current')].nl = nl
    BY <1>5 DEF Grown
  <2> QED BY <2>1, <2>2
<1>12. \A l \in LinesOf(g) : l.seq \in Nat
  BY <1>4, LinesAre, LineTypes
<1>13. Covers(seq + 1, current')
  <2>1. \A l \in LinesOf(g) : l.seq <= seq + 1
    BY <1>1, <1>3, <1>12 DEF Covers
  <2>2. current'[Len(current')].seq <= seq + 1
    BY <1>1, <1>11
  <2> QED BY <1>11, <2>1, <2>2 DEF Covers
<1>14. ~nl => Covers(seq, current')
  <2>1. current'[Len(current')].seq <= seq \/ current'[Len(current')].seq = seq + 1
    BY <1>1, <1>11
  <2> QED BY <1>3, <1>11, <2>1 DEF Covers
<1> QED BY <1>1, <1>5, <1>10, <1>13, <1>14 DEF Writes, g

(* Every step keeps the files in order.                                    *)
LEMMA NumbersStep == LogInv /\ [LogNext]_logVars => LogInv'
<1> SUFFICES ASSUME LogInv, [LogNext]_logVars PROVE LogInv'
  OBVIOUS
<1>n. events \in Nat /\ seq \in Nat /\ seq \in 0..events /\ size \in Nat /\ Size \in Nat /\ Size + 1 \in Nat
  BY DEF LogInv, Size
<1>f. /\ FilesOK(previous, current, events) /\ FilesOK(current, <<>>, events)
      /\ \A s : Covers(s, <<>>)
  BY RotationOK, EmptyOK DEF LogInv, Covers
<1> USE DEF files, log, client, CanEmit
<1>1. CASE Open
  <2>1. current \in Seq(Line) /\ \A l \in LinesOf(current) : l.seq <= events
    BY <1>f DEF FilesOK, FileOK, LinesOf
  <2>2. lastSeq(current) \in 0..events /\ Covers(lastSeq(current), current)
    BY <1>n, <2>1, LastSeqIs DEF Covers
  <2>3. Len(current) \in Nat
    BY <2>1
  <2>4. CASE FullGeneration(Len(current))
    BY <1>1, <1>f, <1>n, <2>2, <2>4 DEF Open, LogInv
  <2>5. CASE ~FullGeneration(Len(current))
    BY <1>1, <1>f, <1>n, <2>2, <2>3, <2>5 DEF Open, LogInv
  <2> QED BY <2>4, <2>5
<1>2. CASE Emit
  <2>1. Writes(seq + 1, TRUE) /\ up
    BY <1>2 DEF Emit, Writes
  <2>2. /\ FilesOK(previous', current', events') /\ events' \in Nat
        /\ seq + 1 \in 0..events' /\ Covers(seq + 1, current')
    BY <2>1, WriteOK
  <2> QED BY <1>2, <1>n, <2>2 DEF Emit, LogInv
<1>3. CASE EmitUnsynced
  <2>1. Writes(seq + 1, TRUE) /\ up
    BY <1>3 DEF EmitUnsynced, Writes
  <2>2. /\ FilesOK(previous', current', events') /\ events' \in Nat
        /\ seq + 1 \in 0..events' /\ Covers(seq + 1, current')
    BY <2>1, WriteOK
  <2> QED BY <1>3, <1>n, <2>2 DEF EmitUnsynced, LogInv
<1>4. CASE EmitTorn
  <2>1. PICK n \in {0, seq + 1} : Writes(n, FALSE) /\ up
    BY <1>4 DEF EmitTorn, Writes
  <2>2. FilesOK(previous', current', events') /\ events' \in Nat /\ Covers(seq, current')
    BY <2>1, WriteOK
  <2>3. seq \in 0..events' /\ forgot' \in BOOLEAN
    BY <1>4, <1>n DEF EmitTorn, LogInv
  <2> QED BY <1>4, <1>n, <2>2, <2>3 DEF EmitTorn, LogInv
<1>5. CASE RotateFails
  BY <1>5, <1>f, <1>n DEF RotateFails, LogInv
<1>6. CASE EmitNothing
  <2>1. CASE FullGeneration(size)
    BY <1>6, <1>f, <1>n, <2>1 DEF EmitNothing, Rotate, Rotated, Size, LogInv
  <2>2. CASE ~FullGeneration(size)
    BY <1>6, <1>f, <1>n, <2>2 DEF EmitNothing, Rotate, Rotated, Size, LogInv
  <2> QED BY <2>1, <2>2
<1>7. CASE Stop
  <2>1. up /\ up' = FALSE /\ handle' = FALSE /\ UNCHANGED <<size, seq>>
    BY <1>7 DEF Stop
  <2>2. CASE UNCHANGED <<files, events, forgot>>
    BY <2>1, <2>2, <1>f, <1>n DEF LogInv
  <2>3. CASE current' = <<>> /\ previous' = current /\ UNCHANGED <<events, forgot>>
    BY <2>1, <2>3, <1>f, <1>n DEF LogInv
  <2>4. ASSUME NEW n \in {0, seq + 1}, NEW nl \in BOOLEAN, Writes(n, nl),
               forgot' = (forgot \/ (n # 0 /\ ~nl))
        PROVE  LogInv'
    <3>1. FilesOK(previous', current', events') /\ events' \in Nat
      BY <2>1, <2>4, WriteOK
    <3>2. seq \in 0..events' /\ forgot' \in BOOLEAN
      BY <2>4, <1>n DEF Writes, LogInv
    <3> QED BY <2>1, <1>n, <3>1, <3>2 DEF LogInv
  <2> QED BY <1>7, <2>2, <2>3, <2>4 DEF Stop, Writes
<1>8. CASE Poll
  BY <1>8, <1>f, <1>n DEF Poll, LogInv
<1>9. CASE UNCHANGED logVars
  BY <1>9, <1>f, <1>n DEF logVars, LogInv
<1> QED BY <1>1, <1>2, <1>3, <1>4, <1>5, <1>6, <1>7, <1>8, <1>9 DEF LogNext

-----------------------------------------------------------------------------
(* An event is on a line of the file.                                      *)
Holds(f, a) == \E l \in LinesOf(f) : a \in l.ids

(* An acknowledged event is on disk or MaxLines events old; and it is in   *)
(* the current file or at least as old as that file is long, in lines and, *)
(* as long as the log can rotate, in its own count.                        *)
Retained(a) ==
    /\ Holds(previous, a) \/ Holds(current, a) \/ a + MaxLines <= events
    /\ Holds(current, a) \/ a + Len(current) <= events
    /\ up /\ handle => Holds(current, a) \/ a + size <= events

Acked == {acked[i] : i \in DOMAIN acked}

RetainInv ==
    /\ acked \in Seq(Nat)
    /\ \A a \in Acked : a <= events /\ Retained(a)

(* Nothing is acknowledged at first.                                       *)
LEMMA RetainInit == LogInit => RetainInv
BY DEF LogInit, RetainInv, Acked

(* Holding an event is holding it on a line.                               *)
LEMMA GrownHolds ==
    ASSUME NEW f \in Seq(Line), NEW id, NEW n, NEW nl, NEW g, Grown(f, id, n, nl, g)
    PROVE  /\ Holds(g, id)
           /\ \A a : Holds(f, a) => Holds(g, a)
<1> DEFINE last == g[Len(g)]
<1>1. last \in LinesOf(g) /\ id \in last.ids
  <2>1. last \in LinesOf(g) /\ (last.ids = {id} \/ last.ids = f[Len(f)].ids \union {id})
    BY GrownLines
  <2> QED BY <2>1
<1>2. ASSUME NEW a, Holds(f, a) PROVE Holds(g, a)
  <2>1. PICK i \in DOMAIN f : a \in f[i].ids
    BY <1>2 DEF Holds, LinesOf
  <2>2. DOMAIN f = 1..Len(f) /\ Len(f) \in Nat /\ g \in Seq(Line) /\ DOMAIN g = 1..Len(g) /\ Len(g) \in Nat
    BY DEF Grown
  <2>3. CASE i < Len(g)
    <3>1. i \in DOMAIN g
      BY <2>2, <2>3
    <3>2. g[i] = f[i]
      BY <2>3, <3>1 DEF Grown
    <3> QED BY <2>1, <3>1, <3>2 DEF Holds, LinesOf
  <2>4. CASE ~(i < Len(g))
    <3>1. i \in Nat /\ i <= Len(f) /\ Len(g) <= i
      BY <2>2, <2>4
    <3>2. \/ Len(g) = Len(f) + 1
          \/ Len(g) = Len(f) /\ last.ids = f[Len(f)].ids \union {id}
      BY DEF Grown
    <3>3. \A x, y \in Nat : i <= x /\ y <= i => y # x + 1 /\ (y = x => i = x)
      BY <3>1
    <3>4. Len(g) # Len(f) + 1 /\ (Len(g) = Len(f) => i = Len(f))
      BY <2>2, <3>1, <3>3
    <3>5. i = Len(f) /\ last.ids = f[Len(f)].ids \union {id}
      BY <3>2, <3>4
    <3> QED BY <1>1, <2>1, <3>5 DEF Holds
  <2> QED BY <2>3, <2>4
<1> HIDE DEF last
<1>3. Holds(g, id)
  BY <1>1 DEF Holds
<1> QED BY <1>2, <1>3

(* A write keeps what is retained, counted or not.                         *)
LEMMA WriteRetains ==
    ASSUME LogInv, up, handle, NEW n \in {0, seq + 1}, NEW nl \in BOOLEAN, Writes(n, nl),
           NEW a \in Nat, a <= events, Retained(a)
    PROVE  /\ Holds(previous', a) \/ Holds(current', a) \/ a + MaxLines <= events'
           /\ Holds(current', a) \/ a + Len(current') <= events'
           /\ Holds(current', a) \/ (a + Size <= events' /\ a + Size + 1 <= events')
<1>1. /\ Grown(Rotated, events + 1, n, nl, current') /\ events \in Nat /\ size \in Nat
      /\ current \in Seq(Line) /\ MaxLines \in Nat
  BY WriteOK, EventLogAssumption DEF LogInv, FilesOK, FileOK
<1>2. /\ Len(current') <= Len(Rotated) + 1 /\ Len(current') \in Nat
      /\ Holds(Rotated, a) => Holds(current', a)
  <2>1. Rotated \in Seq(Line)
    BY <1>1 DEF Rotated
  <2>2. Holds(Rotated, a) => Holds(current', a)
    BY <1>1, <2>1, GrownHolds
  <2>3. Len(current') \in {Len(Rotated), Len(Rotated) + 1} /\ Len(Rotated) \in Nat
    BY <1>1, <2>1 DEF Grown
  <2> QED BY <2>2, <2>3
<1>3. events' = events + 1
  BY DEF Writes
<1>4. CASE FullGeneration(size)
  <2>1. previous' = current /\ Len(Rotated) = 0 /\ Size = 0 /\ size >= MaxLines
    BY <1>4 DEF Writes, Rotate, Rotated, Size, FullGeneration
  <2>2. Holds(previous', a) \/ a + MaxLines <= events'
    <3>1. Holds(current, a) \/ a + size <= events
      BY DEF Retained
    <3>2. a + size <= events => a + MaxLines <= events + 1
      BY <1>1, <2>1
    <3> QED BY <2>1, <3>1, <3>2, <1>3
  <2>3. a + Len(current') <= events' /\ a + Size + 1 <= events' /\ a + Size <= events'
    BY <1>1, <1>2, <1>3, <2>1
  <2> QED BY <2>2, <2>3
<1>5. CASE ~FullGeneration(size)
  <2>1. previous' = previous /\ Rotated = current /\ Size = size
    BY <1>5 DEF Writes, Rotate, Rotated, Size
  <2>2. a + MaxLines <= events => a + MaxLines <= events'
    BY <1>1, <1>3
  <2>3. a + Len(current) <= events => a + Len(current') <= events'
    BY <1>1, <1>2, <1>3, <2>1
  <2>4. a + size <= events => a + Size <= events' /\ a + Size + 1 <= events'
    BY <1>1, <1>3, <2>1
  <2> QED BY <1>2, <2>1, <2>2, <2>3, <2>4 DEF Retained
<1> QED BY <1>4, <1>5

(* A rotation without a write.                                             *)
LEMMA RotationRetains ==
    ASSUME LogInv, NEW a \in Nat, a <= events, Retained(a), NEW s \in Nat, FullGeneration(s),
           Holds(current, a) \/ a + s <= events,
           current' = <<>>, previous' = current, UNCHANGED events, ~(up' /\ handle') \/ size' = 0
    PROVE  Retained(a)'
<1>1. events \in Nat /\ MaxLines \in Nat /\ s >= MaxLines
  BY EventLogAssumption DEF LogInv, FullGeneration
<1>2. a + s <= events => a + MaxLines <= events
  BY <1>1
<1>3. a + Len(current') <= events' /\ (size' = 0 => a + size' <= events')
  BY <1>1
<1> QED BY <1>2, <1>3 DEF Retained

(* Every step retains what was acknowledged.                               *)
LEMMA RetainStep == LogInv /\ RetainInv /\ [LogNext]_logVars => RetainInv'
<1> SUFFICES ASSUME LogInv, RetainInv, [LogNext]_logVars PROVE RetainInv'
  OBVIOUS
<1>n. events \in Nat /\ size \in Nat /\ Size \in Nat /\ current \in Seq(Line) /\ Len(current) \in Nat
  BY DEF LogInv, Size, FilesOK, FileOK
<1>a. acked \in Seq(Nat) /\ \A a \in Acked : a \in Nat /\ a <= events /\ Retained(a)
  BY DEF RetainInv, Acked
<1>k. ASSUME UNCHANGED acked, events' \in {events, events + 1},
             \A a \in Nat : a <= events /\ Retained(a) => Retained(a)'
      PROVE  RetainInv'
  <2>1. \A a \in Nat : a <= events => a <= events'
    BY <1>n, <1>k
  <2> QED BY <1>a, <1>k, <2>1 DEF RetainInv, Acked
<1> USE DEF files, log, client, CanEmit
<1>1. CASE Open
  <2> SUFFICES ASSUME NEW a \in Nat, a <= events, Retained(a) PROVE Retained(a)'
    BY <1>1, <1>k DEF Open
  <2>1. Holds(current, a) \/ a + Len(current) <= events
    BY DEF Retained
  <2>2. CASE FullGeneration(Len(current))
    BY <1>1, <1>n, <2>1, <2>2, RotationRetains DEF Open
  <2>3. CASE ~FullGeneration(Len(current))
    BY <1>1, <2>3 DEF Open, Retained
  <2> QED BY <2>2, <2>3
<1>2. CASE Emit
  <2>1. Writes(seq + 1, TRUE) /\ up /\ handle /\ UNCHANGED <<up, handle>> /\ size' = Size + 1
        /\ acked' = Append(acked, events + 1) /\ events' = events + 1
    BY <1>2 DEF Emit, Writes
  <2>2. \A a \in Nat : a <= events /\ Retained(a) => Retained(a)' /\ a <= events'
    <3> SUFFICES ASSUME NEW a \in Nat, a <= events, Retained(a) PROVE Retained(a)' /\ a <= events'
      OBVIOUS
    <3>1. /\ Holds(previous', a) \/ Holds(current', a) \/ a + MaxLines <= events'
          /\ Holds(current', a) \/ a + Len(current') <= events'
          /\ Holds(current', a) \/ a + Size + 1 <= events'
      BY <2>1, WriteRetains
    <3>2. a + Size + 1 <= events' => a + (Size + 1) <= events'
      BY <1>n, <2>1
    <3>3. a <= events'
      BY <1>n, <2>1
    <3> QED BY <2>1, <3>1, <3>2, <3>3 DEF Retained
  <2>3. Holds(current', events + 1)
    <3>1. Grown(Rotated, events + 1, seq + 1, TRUE, current')
      BY <2>1, WriteOK
    <3>2. Rotated \in Seq(Line)
      BY <1>n DEF Rotated
    <3> QED BY <3>1, <3>2, GrownHolds
  <2>4. \A a \in Nat : a = events + 1 => Retained(a)' /\ a <= events'
    <3> SUFFICES ASSUME NEW a \in Nat, a = events + 1 PROVE Retained(a)' /\ a <= events'
      OBVIOUS
    <3>1. Holds(current', a) /\ a <= events'
      BY <1>n, <2>1, <2>3
    <3> QED BY <3>1 DEF Retained
  <2>5. /\ acked' \in Seq(Nat)
        /\ \A i \in DOMAIN acked' : acked'[i] = events + 1 \/ (i \in DOMAIN acked /\ acked'[i] = acked[i])
    BY <2>1, <1>n, <1>a
  <2>6. \A a \in Acked' : a = events + 1 \/ a \in Acked
    BY <2>5 DEF Acked
  <2>7. events + 1 \in Nat
    BY <1>n
  <2>8. \A a \in Acked' : a <= events' /\ Retained(a)'
    BY <1>a, <2>2, <2>4, <2>6, <2>7
  <2> QED BY <2>5, <2>8 DEF RetainInv
<1>3. ASSUME NEW n \in {0, seq + 1}, NEW nl \in BOOLEAN, Writes(n, nl), up, handle,
             UNCHANGED acked, ~(up' /\ handle') \/ size' = Size
      PROVE  RetainInv'
  <2> SUFFICES ASSUME NEW a \in Nat, a <= events, Retained(a) PROVE Retained(a)'
    BY <1>3, <1>k DEF Writes
  <2>1. /\ Holds(previous', a) \/ Holds(current', a) \/ a + MaxLines <= events'
        /\ Holds(current', a) \/ a + Len(current') <= events'
        /\ Holds(current', a) \/ a + Size <= events'
    BY <1>3, WriteRetains
  <2> QED BY <1>3, <2>1 DEF Retained
<1>4. CASE EmitUnsynced
  BY <1>3, <1>4 DEF EmitUnsynced, Writes
<1>5. CASE EmitTorn
  <2>1. PICK n \in {0, seq + 1} : Writes(n, FALSE)
    BY <1>5 DEF EmitTorn, Writes
  <2> QED BY <1>3, <1>5, <2>1 DEF EmitTorn
<1>6. ASSUME up, handle, FullGeneration(size), current' = <<>>, previous' = current, UNCHANGED <<acked, events>>,
             ~(up' /\ handle') \/ size' = 0
      PROVE  RetainInv'
  <2> SUFFICES ASSUME NEW a \in Nat, a <= events, Retained(a) PROVE Retained(a)'
    BY <1>6, <1>k
  <2>1. Holds(current, a) \/ a + size <= events
    BY <1>6 DEF Retained
  <2> QED BY <1>6, <1>n, <2>1, RotationRetains
<1>7. ASSUME UNCHANGED <<files, size, events, acked>>, up' /\ handle' => up /\ handle PROVE RetainInv'
  <2>1. \A a \in Nat : Retained(a) => Retained(a)'
    BY <1>7 DEF Retained
  <2> QED BY <1>7, <1>k, <2>1
<1>8. CASE RotateFails
  BY <1>6, <1>7, <1>8 DEF RotateFails
<1>9. CASE EmitNothing
  <2>1. CASE FullGeneration(size)
    BY <1>6, <1>9, <2>1 DEF EmitNothing, Rotate, Rotated, Size
  <2>2. CASE ~FullGeneration(size)
    BY <1>7, <1>9, <2>2 DEF EmitNothing, Rotate, Rotated, Size
  <2> QED BY <2>1, <2>2
<1>10. CASE Stop
  <2>1. up /\ up' = FALSE /\ UNCHANGED <<size, acked>>
    BY <1>10 DEF Stop
  <2>2. CASE UNCHANGED <<files, events, forgot>>
    BY <1>7, <2>1, <2>2
  <2>3. CASE handle /\ FullGeneration(size) /\ current' = <<>> /\ previous' = current /\ UNCHANGED events
    BY <1>6, <2>1, <2>3
  <2>4. ASSUME NEW n \in {0, seq + 1}, NEW nl \in BOOLEAN, Writes(n, nl), handle PROVE RetainInv'
    BY <1>3, <2>1, <2>4
  <2> QED BY <1>10, <2>2, <2>3, <2>4 DEF Stop, Writes
<1>11. CASE Poll
  BY <1>7, <1>11 DEF Poll
<1>12. CASE UNCHANGED logVars
  BY <1>7, <1>12 DEF logVars
<1> QED BY <1>1, <1>2, <1>4, <1>5, <1>8, <1>9, <1>10, <1>11, <1>12 DEF LogNext

(* Of the last MaxLines events, those that were acknowledged are on disk,  *)
(* for every cap and any number of failures.                               *)
THEOREM LogRecentRetained == LogSpec => []RecentRetained
<1>1. LogInv /\ RetainInv => RecentRetained
  <2> SUFFICES ASSUME LogInv, RetainInv, NEW i \in DOMAIN acked, acked[i] + MaxLines > events
               PROVE  acked[i] \in OnDisk
    BY DEF RecentRetained
  <2>1. acked[i] \in Nat /\ Retained(acked[i])
    BY DEF RetainInv, Acked
  <2>2. ~(acked[i] + MaxLines <= events)
    BY <2>1, EventLogAssumption DEF LogInv
  <2>3. Holds(previous, acked[i]) \/ Holds(current, acked[i])
    BY <2>1, <2>2 DEF Retained
  <2> QED BY <2>3 DEF Holds, OnDisk
<1>2. RetainInv /\ LogInv /\ [LogNext]_logVars => RetainInv'
  BY RetainStep
<1> QED BY <1>1, <1>2, NumbersInit, NumbersStep, RetainInit, PTL DEF LogSpec

-----------------------------------------------------------------------------
(* Past the client: a readable line newer than what it was given last.     *)
Past(f) == \A l \in LinesOf(f) : l.seq # 0 /\ (\A id \in l.ids : id > lastRead) => l.seq > cursor

(* What an open of the file recovers is not below the client's cursor:     *)
(* with any readable line there is one, with its newline, at or above it.  *)
Anchored(f) ==
    /\ \A l \in LinesOf(f) : l.seq # 0 => l.nl
    /\ (\E l \in LinesOf(f) : l.seq # 0) => \E l \in LinesOf(f) : l.seq >= cursor

(* While no number is forgotten, the numbers of the current file are above *)
(* those of the previous one, those of an open log above all numbers read  *)
(* or on disk, and an open that finds a readable line will recover one     *)
(* that is above them again.                                               *)
CursorInv ==
    /\ cursor \in Nat /\ lastRead \in Nat /\ lastRead <= events /\ cursor <= events
    /\ ~forgot =>
         /\ Past(previous) /\ Past(current)
         /\ Anchored(current)
         /\ \A k \in LinesOf(previous), l \in LinesOf(current) :
               k.seq # 0 /\ l.seq # 0 => k.seq < l.seq
         /\ up => /\ cursor <= seq
                  /\ \A l \in LinesOf(previous) \union LinesOf(current) : l.seq <= seq

(* The client has read nothing at first.                                   *)
LEMMA CursorInit == LogInit => CursorInv
BY DEF LogInit, CursorInv, Past, Anchored, LinesOf

(* What a write does to a log that forgot nothing.                         *)
LEMMA WriteCursor ==
    ASSUME LogInv, CursorInv, ~forgot, up, NEW n \in {0, seq + 1}, NEW nl \in BOOLEAN, Writes(n, nl),
           UNCHANGED client
    PROVE  /\ Past(previous)' /\ Past(current)'
           /\ \A k \in LinesOf(previous'), l \in LinesOf(current') :
                 k.seq # 0 /\ l.seq # 0 => k.seq < l.seq
           /\ cursor' <= seq + 1
           /\ \A l \in LinesOf(previous') \union LinesOf(current') :
                 l.seq <= seq + 1 /\ (n = 0 => l.seq <= seq)
           /\ n = 0 \/ nl => Anchored(current)'
<1> DEFINE last == current'[Len(current')]
<1>1. /\ Grown(Rotated, events + 1, n, nl, current') /\ events \in Nat /\ seq \in Nat /\ cursor \in Nat
      /\ current \in Seq(Line) /\ previous \in Seq(Line)
      /\ UNCHANGED <<cursor, lastRead>>
  BY WriteOK DEF LogInv, FilesOK, FileOK, CursorInv, client
<1>2. /\ Rotated \in Seq(Line)
      /\ \A l \in LinesOf(Rotated) : l \in LinesOf(current)
      /\ \A l \in LinesOf(previous') : l \in LinesOf(previous) \union LinesOf(current)
      /\ \A k \in LinesOf(previous'), l \in LinesOf(Rotated) : k.seq # 0 /\ l.seq # 0 => k.seq < l.seq
  BY <1>1, EmptyOK DEF Rotated, Rotate, Writes, CursorInv
<1>3. \A l \in LinesOf(previous) \union LinesOf(current) : l.seq \in Nat /\ l.seq <= seq
  BY <1>1, LinesAre, LineTypes DEF CursorInv
<1>4. /\ \A l \in LinesOf(current') : l \in LinesOf(Rotated) \/ l = last
      /\ last.seq \in {0, n}
  <2>1. \A l \in LinesOf(current') : l \in LinesOf(Rotated) \/ l = last
    BY <1>1, <1>2, GrownLines
  <2>2. last.seq \in {0, n}
    BY <1>1 DEF Grown
  <2> QED BY <2>1, <2>2
<1> HIDE DEF last
<1>5. last.seq \in Nat /\ (last.seq # 0 => last.seq = seq + 1 /\ n # 0)
  BY <1>1, <1>4
<1>6. cursor <= seq
  BY DEF CursorInv
<1>7. Past(previous)' /\ Past(current)'
  <2>1. \A l \in LinesOf(previous) \union LinesOf(current) :
           l.seq # 0 /\ (\A id \in l.ids : id > lastRead) => l.seq > cursor
    BY DEF CursorInv, Past
  <2>2. last.seq # 0 => last.seq > cursor
    BY <1>1, <1>5, <1>6
  <2>3. Past(previous)'
    BY <1>1, <1>2, <2>1 DEF Past
  <2>4. Past(current)'
    BY <1>1, <1>2, <1>4, <2>1, <2>2 DEF Past
  <2> QED BY <2>3, <2>4
<1>8. ASSUME NEW k \in LinesOf(previous'), NEW l \in LinesOf(current'), k.seq # 0, l.seq # 0
      PROVE  k.seq < l.seq
  <2>1. CASE l \in LinesOf(Rotated)
    BY <1>2, <1>8, <2>1
  <2>2. CASE l = last
    <3>1. k.seq \in Nat /\ k.seq <= seq /\ l.seq = seq + 1
      BY <1>2, <1>3, <1>5, <1>8, <2>2
    <3> QED BY <1>1, <3>1
  <2> QED BY <1>4, <2>1, <2>2
<1>9. ASSUME NEW l \in LinesOf(previous') \union LinesOf(current')
      PROVE  l.seq <= seq + 1 /\ (n = 0 => l.seq <= seq)
  <2>1. CASE l \in LinesOf(previous) \union LinesOf(current)
    <3>1. l.seq \in Nat /\ l.seq <= seq
      BY <1>3, <2>1
    <3> QED BY <1>1, <3>1
  <2>2. CASE l = last
    BY <1>1, <1>5, <2>2
  <2> QED BY <1>2, <1>4, <2>1, <2>2
<1>10. cursor' <= seq + 1
  BY <1>1, <1>6
<1>11. ASSUME n = 0 \/ nl PROVE Anchored(current)'
  <2>1. last \in LinesOf(current') /\ last.nl = nl
    <3>1. last \in LinesOf(current')
      BY <1>1, <1>2, GrownLines DEF last
    <3>2. last.nl = nl
      BY <1>1 DEF Grown, last
    <3> QED BY <3>1, <3>2
  <2>2. \A l \in LinesOf(Rotated) : l.seq # 0 => l.nl
    BY <1>2 DEF CursorInv, Anchored
  <2>3. \A l \in LinesOf(current') : l.seq # 0 => l.nl
    BY <1>4, <1>5, <1>11, <2>1, <2>2
  <2>4. ASSUME NEW l \in LinesOf(current'), l.seq # 0
        PROVE  \E k \in LinesOf(current') : k.seq >= cursor
    <3>1. CASE last.seq # 0
      <4>1. last.seq >= cursor
        BY <1>1, <1>5, <1>6, <3>1
      <4> QED BY <2>1, <4>1
    <3>2. CASE last.seq = 0
      <4>1. l \in LinesOf(Rotated) /\ Rotated = current
        <5>1. l \in LinesOf(Rotated)
          BY <1>4, <2>4, <3>2
        <5> QED BY <5>1, EmptyOK DEF Rotated
      <4>2. PICK r \in LinesOf(Rotated) : r.seq >= cursor
        BY <2>4, <4>1 DEF CursorInv, Anchored
      <4>3. CASE r.seq = 0
        <5>1. l.seq \in Nat /\ l.seq >= cursor
          BY <1>1, <1>3, <4>1, <4>2, <4>3
        <5> QED BY <2>4, <5>1
      <4>4. CASE r.seq # 0
        BY <1>1, <1>2, <2>2, <4>2, <4>4, KeptLines
      <4> QED BY <4>3, <4>4
    <3> QED BY <3>1, <3>2
  <2>5. UNCHANGED cursor
    BY <1>1
  <2> QED BY <2>3, <2>4, <2>5 DEF Anchored
<1> QED BY <1>7, <1>8, <1>9, <1>10, <1>11

(* A rotation without a write.                                             *)
LEMMA RotationCursor ==
    ASSUME CursorInv, current' = <<>>, previous' = current, UNCHANGED <<client, events, forgot, seq>>,
           up' => up
    PROVE  CursorInv'
<1>1. LinesOf(current') = {}
  BY EmptyOK
<1> QED BY <1>1 DEF CursorInv, Past, Anchored, client

(* Reading a line leaves only later ones past the client.                  *)
LEMMA PollCursor ==
    ASSUME LogInv, CursorInv, Poll PROVE CursorInv'
<1>1. PICK i \in DOMAIN Recent :
        Recent[i].seq > cursor /\ cursor' = Recent[i].seq /\ lastRead' = Max(Recent[i].ids)
  BY DEF Poll, Query
<1>2. /\ up /\ UNCHANGED <<previous, current, events, forgot, up, seq>>
      /\ FileOK(previous, events) /\ FileOK(current, events) /\ events \in Nat
      /\ previous \in Seq(Line) /\ current \in Seq(Line) /\ cursor \in Nat
  BY DEF Poll, files, log, LogInv, FilesOK, FileOK, CursorInv
<1> DEFINE l == Recent[i]
<1>3. l \in LinesOf(previous) \union LinesOf(current)
  <2>1. \/ i \in DOMAIN previous /\ l = previous[i]
        \/ i - Len(previous) \in DOMAIN current /\ l = current[i - Len(previous)]
    BY <1>2 DEF Recent
  <2> QED BY <2>1 DEF LinesOf
<1> HIDE DEF l
<1>4. l.seq \in Nat /\ l.seq # 0 /\ cursor' = l.seq /\ lastRead' = Max(l.ids)
  BY <1>1, <1>2, <1>3, LinesAre, LineTypes DEF l
<1>5. PICK a \in l.ids : l.ids = {a} /\ a \in Nat /\ a <= events
  <2>1. l.ids \subseteq 1..events /\ \E a \in l.ids : l.ids = {a}
    BY <1>2, <1>3, <1>4 DEF FileOK, LinesOf
  <2>2. \A a \in 1..events : a \in Nat /\ a <= events
    BY <1>2
  <2> QED BY <2>1, <2>2
<1>6. lastRead' = a
  BY <1>4, <1>5 DEF Max
<1>7. ASSUME ~forgot, NEW k \in LinesOf(previous) \union LinesOf(current), k.seq # 0,
             \A id \in k.ids : id > a
      PROVE  k.seq > l.seq
  <2>1. PICK b \in k.ids : b \in Nat /\ b > a
    BY <1>2, <1>7 DEF FileOK, LinesOf
  <2>2. ~Earlier(k, l) /\ k # l
    BY <1>5, <2>1 DEF Earlier
  <2>3. CASE k \in LinesOf(previous) /\ l \in LinesOf(current)
    BY <2>2, <2>3 DEF LogInv, FilesOK
  <2>4. CASE k \in LinesOf(current) /\ l \in LinesOf(previous)
    BY <1>4, <1>7, <2>4, LinesAre, LineTypes, <1>2 DEF CursorInv
  <2>5. ASSUME NEW f, FileOK(f, events), k \in LinesOf(f), l \in LinesOf(f) PROVE k.seq > l.seq
    <3>1. f \in Seq(Line)
      BY <2>5 DEF FileOK
    <3>2. PICK x \in DOMAIN f, y \in DOMAIN f : k = f[x] /\ l = f[y]
      BY <2>5 DEF LinesOf
    <3>3. x \in Nat /\ y \in Nat /\ ~(x < y) /\ x # y
      BY <2>2, <2>5, <3>1, <3>2 DEF FileOK
    <3>4. y < x
      BY <3>3
    <3>5. f[y].seq < f[x].seq
      BY <1>4, <1>7, <2>5, <3>2, <3>4 DEF FileOK, Increasing
    <3> QED BY <3>1, <3>2, <3>5, LineTypes
  <2> QED BY <1>2, <1>3, <1>7, <2>3, <2>4, <2>5
<1>8. ~forgot => Past(previous)' /\ Past(current)'
  BY <1>2, <1>4, <1>6, <1>7 DEF Past
<1>9. ~forgot => cursor' <= seq
  BY <1>2, <1>3, <1>4 DEF CursorInv
<1>10. cursor' <= events
  BY <1>2, <1>3, <1>4 DEF FileOK, LinesOf
<1>11. ~forgot => Anchored(current)'
  <2> SUFFICES ASSUME ~forgot, NEW k \in LinesOf(current), k.seq # 0
               PROVE  \E h \in LinesOf(current) : h.seq >= l.seq
    BY <1>2, <1>4 DEF CursorInv, Anchored
  <2>1. CASE l \in LinesOf(current)
    BY <1>4, <2>1
  <2>2. CASE l \in LinesOf(previous)
    <3>1. l.seq < k.seq /\ k.seq \in Nat
      BY <1>2, <1>4, <2>2, LinesAre, LineTypes DEF CursorInv
    <3> QED BY <1>4, <3>1
  <2> QED BY <1>3, <2>1, <2>2
<1> QED BY <1>2, <1>4, <1>5, <1>6, <1>8, <1>9, <1>10, <1>11 DEF CursorInv

(* Every step keeps the cursor working.                                    *)
LEMMA CursorStep == LogInv /\ CursorInv /\ [LogNext]_logVars => CursorInv'
<1> SUFFICES ASSUME LogInv, CursorInv, [LogNext]_logVars PROVE CursorInv'
  OBVIOUS
<1>n. /\ events \in Nat /\ seq \in Nat /\ cursor \in Nat /\ lastRead \in Nat /\ lastRead <= events
      /\ previous \in Seq(Line) /\ current \in Seq(Line) /\ forgot \in BOOLEAN
      /\ lastRead <= events + 1 /\ cursor <= events /\ cursor <= events + 1
  BY DEF LogInv, FilesOK, FileOK, CursorInv
<1> USE DEF files, log, CanEmit
<1>1. CASE Open
  <2>1. /\ \A l \in LinesOf(current) \union LinesOf(previous) : l.seq \in Nat /\ l.seq <= events
    BY <1>n, LinesAre, LineTypes DEF LogInv, FilesOK, FileOK, LinesOf
  <2>2. /\ lastSeq(current) \in Nat /\ lastSeq(previous) \in Nat
        /\ \A l \in LinesOf(current) : l.seq <= lastSeq(current)
        /\ \A l \in LinesOf(previous) : l.seq <= lastSeq(previous)
    BY <1>n, <2>1, LastSeqIs
  <2>3. /\ seq' = lastSeq(current) /\ UNCHANGED <<cursor, lastRead, events>>
        /\ ~forgot' => ~forgot /\ (events > 0 => \E l \in LinesOf(current) : l.seq # 0)
    BY <1>1 DEF Open, client
  <2>4. ~forgot' => cursor <= seq' /\ \A l \in LinesOf(previous) \union LinesOf(current) : l.seq <= seq'
    <3> SUFFICES ASSUME ~forgot'
                 PROVE  cursor <= seq' /\ \A l \in LinesOf(previous) \union LinesOf(current) : l.seq <= seq'
      OBVIOUS
    <3>1. seq' \in Nat /\ \A l \in LinesOf(current) : l.seq <= seq'
      BY <2>2, <2>3
    <3>2. CASE events = 0
      <4>1. cursor = 0 /\ \A l \in LinesOf(previous) : l.seq = 0
        BY <1>n, <2>1, <3>2
      <4> QED BY <3>1, <4>1
    <3>3. CASE events # 0
      <4>1. PICK l \in LinesOf(current) : l.seq # 0
        BY <1>n, <2>3, <3>3
      <4>2. PICK r \in LinesOf(current) : r.seq >= cursor
        BY <2>3, <4>1 DEF CursorInv, Anchored
      <4>3. cursor <= seq'
        BY <1>n, <2>1, <3>1, <4>2
      <4>4. ASSUME NEW k \in LinesOf(previous) PROVE k.seq <= seq'
        <5>1. CASE k.seq = 0
          BY <3>1, <5>1
        <5>2. CASE k.seq # 0
          <6>1. k.seq < l.seq /\ l.seq <= seq' /\ k.seq \in Nat /\ l.seq \in Nat
            BY <2>1, <2>3, <3>1, <4>1, <5>2 DEF CursorInv
          <6> QED BY <3>1, <6>1
        <5> QED BY <5>1, <5>2
      <4> QED BY <3>1, <4>3, <4>4
    <3> QED BY <3>2, <3>3
  <2>5. CASE FullGeneration(Len(current))
    <3>1. LinesOf(current') = {} /\ previous' = current
      BY <1>1, <2>5, EmptyOK DEF Open
    <3> QED BY <1>n, <2>3, <2>4, <3>1 DEF CursorInv, Past, Anchored
  <2>6. CASE ~FullGeneration(Len(current))
    <3>1. UNCHANGED <<current, previous>>
      BY <1>1, <2>6 DEF Open
    <3> QED BY <1>n, <2>3, <2>4, <3>1 DEF CursorInv, Past, Anchored
  <2> QED BY <2>5, <2>6
<1>2. ASSUME NEW n \in {0, seq + 1}, NEW nl \in BOOLEAN, Writes(n, nl), up, UNCHANGED client,
             ~forgot' => ~forgot /\ (n = 0 \/ nl),
             up' /\ ~forgot' => seq' = seq + 1 \/ (n = 0 /\ seq' = seq)
      PROVE  CursorInv'
  <2>1. events' = events + 1 /\ UNCHANGED <<cursor, lastRead>>
    BY <1>2 DEF Writes, client
  <2>2. CASE forgot'
    BY <1>n, <2>1, <2>2 DEF CursorInv
  <2>3. CASE ~forgot'
    <3>1. /\ Past(previous)' /\ Past(current)'
          /\ \A k \in LinesOf(previous'), l \in LinesOf(current') :
                 k.seq # 0 /\ l.seq # 0 => k.seq < l.seq
          /\ cursor' <= seq + 1
          /\ \A l \in LinesOf(previous') \union LinesOf(current') :
                 l.seq <= seq + 1 /\ (n = 0 => l.seq <= seq)
          /\ Anchored(current)'
      BY <1>2, <2>3, WriteCursor
    <3>2. cursor <= seq
      BY <1>2, <2>3 DEF CursorInv
    <3>3. up' => cursor' <= seq' /\ \A l \in LinesOf(previous') \union LinesOf(current') : l.seq <= seq'
      BY <1>2, <2>1, <2>3, <3>1, <3>2
    <3> QED BY <1>n, <2>1, <3>1, <3>3 DEF CursorInv
  <2> QED BY <2>2, <2>3
<1>3. CASE Emit
  BY <1>2, <1>3 DEF Emit, Writes
<1>4. CASE EmitUnsynced
  BY <1>2, <1>4 DEF EmitUnsynced, Writes
<1>5. CASE EmitTorn
  <2>1. PICK n \in {0, seq + 1} : Writes(n, FALSE) /\ forgot' = (forgot \/ n # 0)
    BY <1>5 DEF EmitTorn, Writes
  <2> QED BY <1>2, <1>5, <2>1 DEF EmitTorn
<1>6. CASE RotateFails
  <2>1. CASE UNCHANGED files
    BY <1>6, <2>1 DEF RotateFails, CursorInv, Past, Anchored, client
  <2>2. CASE current' = <<>> /\ previous' = current
    BY <1>6, <2>2, RotationCursor DEF RotateFails
  <2> QED BY <1>6, <2>1, <2>2 DEF RotateFails
<1>7. CASE EmitNothing
  <2>1. CASE FullGeneration(size)
    BY <1>7, <2>1, RotationCursor DEF EmitNothing, Rotate, Rotated
  <2>2. CASE ~FullGeneration(size)
    <3>1. UNCHANGED <<current, previous, cursor, lastRead, events, forgot, up, seq>>
      BY <1>7, <2>2 DEF EmitNothing, Rotate, Rotated, client
    <3> QED BY <3>1 DEF CursorInv, Past, Anchored
  <2> QED BY <2>1, <2>2
<1>8. CASE Stop
  <2>1. up /\ up' = FALSE /\ UNCHANGED <<seq, client>>
    BY <1>8 DEF Stop
  <2>2. CASE UNCHANGED <<files, events, forgot>>
    BY <2>1, <2>2 DEF CursorInv, Past, Anchored, client
  <2>3. CASE current' = <<>> /\ previous' = current /\ UNCHANGED <<events, forgot>>
    BY <2>1, <2>3, RotationCursor
  <2>4. ASSUME NEW n \in {0, seq + 1}, NEW nl \in BOOLEAN, Writes(n, nl),
               forgot' = (forgot \/ (n # 0 /\ ~nl))
        PROVE  CursorInv'
    BY <1>2, <2>1, <2>4
  <2> QED BY <1>8, <2>2, <2>3, <2>4 DEF Stop, Writes
<1>9. CASE Poll
  BY <1>9, PollCursor
<1>10. CASE UNCHANGED logVars
  BY <1>10 DEF logVars, CursorInv, Past, Anchored, client
<1> QED BY <1>1, <1>3, <1>4, <1>5, <1>6, <1>7, <1>8, <1>9, <1>10 DEF LogNext

(* The numbers of a generation increase, an open log is at or above its    *)
(* current file but for a line it took back, and until a number is         *)
(* forgotten they increase through both generations, for every cap and any *)
(* number of failures and restarts.                                        *)
THEOREM LogNumbersIncrease == LogSpec => []NumbersIncrease
<1>1. ASSUME LogInv, CursorInv PROVE NumbersIncrease
  <2>1. /\ Increasing(previous) /\ Increasing(current)
        /\ previous \in Seq(Line) /\ current \in Seq(Line)
    BY <1>1 DEF LogInv, FilesOK, FileOK
  <2>2. ~forgot => Increasing(Recent)
    <3> SUFFICES ASSUME ~forgot, NEW i \in DOMAIN Recent, NEW j \in DOMAIN Recent, i < j,
                        Recent[i].seq # 0, Recent[j].seq # 0
                 PROVE  Recent[i].seq < Recent[j].seq
      BY DEF Increasing
    <3> DEFINE m == Len(previous)
    <3>1. m \in Nat /\ i \in Nat /\ j \in Nat
      BY <2>1 DEF Recent
    <3>2. \A x \in DOMAIN Recent :
             \/ x <= m /\ x \in DOMAIN previous /\ Recent[x] = previous[x]
             \/ x > m /\ x - m \in DOMAIN current /\ Recent[x] = current[x - m]
      BY <2>1 DEF Recent
    <3> HIDE DEF m
    <3>3. CASE i <= m /\ j <= m
      BY <2>1, <3>1, <3>2, <3>3 DEF Increasing
    <3>4. CASE i <= m /\ j > m
      <4>1. Recent[i] \in LinesOf(previous) /\ Recent[j] \in LinesOf(current)
        BY <3>1, <3>2, <3>4 DEF LinesOf
      <4> QED BY <1>1, <4>1 DEF CursorInv
    <3>5. CASE i > m /\ j > m
      <4>1. i - m < j - m
        BY <3>1
      <4> QED BY <2>1, <3>1, <3>2, <3>5, <4>1 DEF Increasing
    <3> QED BY <3>1, <3>3, <3>4, <3>5
  <2>3. up => \A l \in LinesOf(current) : l.seq <= seq \/ (~l.nl /\ l.seq = seq + 1)
    BY <1>1 DEF LogInv, Covers
  <2> QED BY <2>1, <2>2, <2>3 DEF NumbersIncrease
<1> QED BY <1>1, NumbersInit, NumbersStep, CursorInit, CursorStep, PTL DEF LogSpec

(* While every open found a readable line and no readable line lacked its  *)
(* newline, every readable event that is newer than what a client was      *)
(* given is past its cursor, for every cap and any number of failures,     *)
(* rotations and restarts: recovering the number from the tail of the      *)
(* current file is enough then.                                            *)
THEOREM LogCursorKeepsWorking == LogSpec => []CursorKeepsWorking
<1>1. CursorInv => CursorKeepsWorking
  BY DEF CursorInv, Past, CursorKeepsWorking
<1> QED BY <1>1, NumbersInit, NumbersStep, CursorInit, CursorStep, PTL DEF LogSpec
=============================================================================
