--------------------------- MODULE DeliveryProofs ---------------------------
(***************************************************************************)
(* No accepted hint is forgotten, for any number of promotions,            *)
(* connections, runs and failures and any capacity of the buffers.         *)
(***************************************************************************)
EXTENDS Delivery, TLAPS

USE DEF Conns, Announcement

(* Sequences over a set are sequences over a larger one.                   *)
LEMMA SeqMono ==
    ASSUME NEW S, NEW T, S \subseteq T, NEW q \in Seq(S)
    PROVE  q \in Seq(T)
  OBVIOUS

(* Appending and taking the tail stay within the sequences over a set.     *)
LEMMA AppendTail ==
    ASSUME NEW S, NEW q \in Seq(S)
    PROVE  /\ \A a \in S : Append(q, a) \in Seq(S) /\ Len(Append(q, a)) = Len(q) + 1
           /\ q # <<>> => Head(q) \in S /\ Tail(q) \in Seq(S) /\ Len(Tail(q)) = Len(q) - 1
           /\ Len(q) \in Nat
  OBVIOUS

(* The empty sequence is a sequence over any set.                          *)
LEMMA Empty ==
    ASSUME NEW S
    PROVE  <<>> \in Seq(S) /\ Len(<<>>) = 0
  OBVIOUS

(* Emptying one of several sequences keeps their type.                     *)
LEMMA Emptied ==
    ASSUME NEW S, NEW C, NEW f \in [C -> Seq(S)], NEW c \in C
    PROVE  [f EXCEPT ![c] = <<>>] \in [C -> Seq(S)]
<1> DEFINE T == Seq(S)
<1>1. <<>> \in T /\ f \in [C -> T]
  BY Empty
<1> HIDE DEF T
<1>2. [f EXCEPT ![c] = <<>>] \in [C -> T]
  BY <1>1
<1> QED
  BY <1>2 DEF T

(* Initially nothing is hinted and nothing is on its way.                  *)
LEMMA DeliveryInit == Init => IInv
<1> SUFFICES ASSUME Init PROVE IInv
  OBVIOUS
<1>1. BuffersOK
  BY DeliveryAssumption, Empty DEF Init, BuffersOK
<1>2. TypeOK
  <2>1. /\ 0 \in 0..MaxRelease /\ 0 \in 0..MaxDials /\ 0 \in 0..MaxRuns /\ 0 \in 0..MaxFaults /\ 0 \in 0..0
        /\ Before \in 0..MaxRelease /\ 0 \in 0..Before
    BY DeliveryAssumption
  <2> QED
    BY <1>1, <2>1 DEF Init, TypeOK
<1>3. HintsArePast
  BY Empty DEF Init, HintsArePast, Past
<1>4. HintIsFollowed /\ ReturnedIsJoined
  BY DEF Init, HintIsFollowed, ReturnedIsJoined
<1> QED
  BY <1>2, <1>3, <1>4 DEF IInv

(* The scalar variables keep their types.                                  *)
LEMMA ScalarStep ==
    ASSUME IInv, [Next]_vars, BuffersOK'
    PROVE  TypeOK'
<1> USE DeliveryAssumption DEF IInv
<1>0. channel \in 0..MaxRelease
  BY DEF TypeOK
<1>1a. CASE Publish
  BY <1>1a DEF TypeOK, Publish, network, push, receiver
<1>1b. CASE Promote
  <2>1. channel' \in 0..stored /\ announced \in 0..channel'
    BY <1>1b DEF TypeOK, Promote
  <2> QED
    BY <1>1b, <2>1 DEF TypeOK, Promote, network, push, receiver
<1>1. CASE AnnounceRelease
  BY <1>1 DEF TypeOK, AnnounceRelease, push, receiver
<1>2. CASE Announce
  BY <1>2 DEF TypeOK, Announce, push, receiver
<1>3. CASE AnnounceForeign
  BY <1>3 DEF TypeOK, AnnounceForeign, Fault, hub, push, receiver
<1>4. CASE HubRestart
  BY <1>4 DEF TypeOK, HubRestart, Fault, push, receiver
<1>5. ASSUME NEW c \in Conns, Subscribe(c) \/ Write(c) PROVE TypeOK'
  BY <1>5 DEF TypeOK, Subscribe, Write, hub, push, receiver
<1>6. ASSUME NEW c \in Conns, WriteFails(c) \/ ReadErr(c) PROVE TypeOK'
  BY <1>6 DEF TypeOK, WriteFails, ReadErr, Close, hub, push, receiver
<1>7. ASSUME NEW c \in Conns, Cut(c) PROVE TypeOK'
  BY <1>7 DEF TypeOK, Cut, Fault, hub, push, receiver
<1>8. CASE Dial
  BY <1>8 DEF TypeOK, Dial, hub, receiver
<1>9. CASE Recv
  <2>1. Head(wire[conn]) \in Announcement
    BY <1>9, AppendTail DEF Recv, TypeOK, BuffersOK
  <2> QED
    BY <1>9, <2>1 DEF TypeOK, Recv, Accept, Hint, hub, receiver
<1>10. CASE ReadFails
  BY <1>10 DEF TypeOK, ReadFails, hub, network, receiver
<1>11. CASE Backoff
  BY <1>11 DEF TypeOK, Backoff, hub, network, receiver
<1>12. CASE ClientDone
  BY <1>12 DEF TypeOK, ClientDone, hub, receiver
<1>13. CASE DialFails
  BY <1>13 DEF TypeOK, DialFails, Fault, hub, network, receiver
<1>14. CASE Fetch
  BY <1>0, <1>14 DEF TypeOK, Fetch, hub, network, push
<1>15. CASE Synced
  BY <1>15 DEF TypeOK, Synced, hub, network, push
<1>16. CASE Poll \/ Leave \/ Return
  BY <1>16 DEF TypeOK, Poll, Leave, Return, hub, network, push
<1>17. CASE Kicked
  BY <1>17 DEF TypeOK, Kicked, hub, network, push
<1>18. CASE RunAgain
  BY <1>18 DEF TypeOK, RunAgain, hub, network
<1>19. CASE FetchFails
  <2>1. tried' \in 0..MaxRelease /\ faults' \in 0..MaxFaults
    BY <1>0, <1>19 DEF TypeOK, FetchFails, Fault
  <2> QED
    BY <1>19, <2>1 DEF TypeOK, FetchFails, hub, network, push
<1>20. CASE SyncFails
  BY <1>20 DEF TypeOK, SyncFails, hub, network, push
<1>21. CASE Cancel
  BY <1>21 DEF TypeOK, Cancel, hub, network, push, receiver
<1>22. CASE UNCHANGED vars
  BY <1>22 DEF TypeOK, vars, hub, network, push, receiver
<1> QED
  BY <1>1, <1>1a, <1>1b, <1>2, <1>3, <1>4, <1>5, <1>6, <1>7, <1>8, <1>9, <1>10, <1>11, <1>12, <1>13, <1>14,
     <1>15, <1>16, <1>17, <1>18, <1>19, <1>20, <1>21, <1>22 DEF Next, Serve, Client, Loop

(* Every action but seven leaves the buffers and what is past alone.       *)
LEMMA Quiet ==
    ASSUME [Next]_vars,
           ~Promote, ~AnnounceRelease, ~Announce, ~AnnounceForeign, ~HubRestart, ~Recv,
           \A c \in Conns : ~Write(c) /\ ~WriteFails(c) /\ ~ReadErr(c) /\ ~Cut(c)
    PROVE  UNCHANGED <<channel, hinted, buf, wire>>
  BY DEF Next, Serve, Client, Loop, Publish, Subscribe, Dial, ReadFails, Backoff, ClientDone, DialFails,
         Fetch, Synced, Poll, Kicked, Leave, Return, RunAgain, FetchFails, SyncFails, Cancel,
         vars, hub, network, push

(* The channels and connections hold announcements, within their capacity. *)
LEMMA BuffersStep ==
    ASSUME IInv, [Next]_vars
    PROVE  BuffersOK'
<1> USE DeliveryAssumption DEF IInv
<1>0. BuffersOK /\ channel \in Announcement
  BY DEF TypeOK
<1>1. ASSUME NEW STATE a, a \in Announcement, Send(a), UNCHANGED wire PROVE BuffersOK'
  <2>1. ASSUME NEW c \in Conns PROVE buf'[c] \in Seq(Announcement) /\ Len(buf'[c]) <= SubBuffer
    <3>1. buf'[c] = IF c \in subs /\ Len(buf[c]) < SubBuffer THEN Append(buf[c], a) ELSE buf[c]
      BY <1>1 DEF Send
    <3>2. buf[c] \in Seq(Announcement) /\ Len(buf[c]) <= SubBuffer
      BY <1>0 DEF BuffersOK
    <3> HIDE DEF Announcement
    <3> QED
      BY <1>1, <3>1, <3>2, AppendTail
  <2> QED
    BY <1>0, <1>1, <2>1 DEF BuffersOK, Send
<1>2. CASE Promote
  BY <1>0, <1>2 DEF Promote, network, BuffersOK
<1>3. CASE AnnounceRelease \/ Announce \/ AnnounceForeign
  BY <1>0, <1>1, <1>3 DEF AnnounceRelease, Announce, AnnounceForeign
<1>4. CASE HubRestart
  BY <1>0, <1>4, Empty DEF HubRestart, BuffersOK
<1>5. ASSUME NEW c \in Conns, Write(c) PROVE BuffersOK'
  <2>1. /\ Append(wire[c], Head(buf[c])) \in Seq(Announcement)
        /\ Len(Append(wire[c], Head(buf[c]))) <= WireBuffer
        /\ Tail(buf[c]) \in Seq(Announcement) /\ Len(Tail(buf[c])) <= SubBuffer
    BY <1>0, <1>5, AppendTail DEF Write, BuffersOK
  <2> QED
    BY <1>0, <1>5, <2>1 DEF Write, BuffersOK
<1>6. ASSUME NEW c \in Conns, WriteFails(c) \/ ReadErr(c) \/ Cut(c) PROVE BuffersOK'
  <2>1. buf' \in {buf, [buf EXCEPT ![c] = <<>>]} /\ wire' \in {wire, [wire EXCEPT ![c] = <<>>]}
    BY <1>6 DEF WriteFails, ReadErr, Close, Cut
  <2> HIDE DEF Announcement
  <2>2. buf' \in [Conns -> Seq(Announcement)] /\ wire' \in [Conns -> Seq(Announcement)]
    <3>1. /\ buf \in [Conns -> Seq(Announcement)] /\ wire \in [Conns -> Seq(Announcement)]
      BY <1>0 DEF BuffersOK
    <3>2. [buf EXCEPT ![c] = <<>>] \in [Conns -> Seq(Announcement)]
      BY <3>1, Emptied, Zenon
    <3>3. [wire EXCEPT ![c] = <<>>] \in [Conns -> Seq(Announcement)]
      BY <3>1, Emptied, Zenon
    <3> QED
      BY <2>1, <3>1, <3>2, <3>3, Zenon
  <2>3. ASSUME NEW d \in Conns PROVE Len(buf'[d]) <= SubBuffer /\ Len(wire'[d]) <= WireBuffer
    <3>1. buf'[d] \in {buf[d], <<>>} /\ wire'[d] \in {wire[d], <<>>}
      BY <1>0, <2>1 DEF BuffersOK
    <3>2. Len(<<>>) = 0
      OBVIOUS
    <3> QED BY <1>0, <3>1, <3>2 DEF BuffersOK
  <2> QED
    BY <2>2, <2>3 DEF BuffersOK
<1>7. CASE Recv
  <2>1. conn \in Conns
    BY <1>7 DEF Recv, TypeOK
  <2>2. Tail(wire[conn]) \in Seq(Announcement) /\ Len(Tail(wire[conn])) <= WireBuffer
    BY <1>0, <1>7, <2>1, AppendTail DEF Recv, BuffersOK
  <2> QED
    BY <1>0, <1>7, <2>1, <2>2 DEF Recv, BuffersOK
<1>8. CASE UNCHANGED <<channel, hinted, buf, wire>>
  BY <1>0, <1>8 DEF BuffersOK
<1> QED
  BY <1>2, <1>3, <1>4, <1>5, <1>6, <1>7, <1>8, Quiet

(* Nothing is on its way, or hinted, that the channel has not held.        *)
LEMMA PastStep ==
    ASSUME IInv, [Next]_vars
    PROVE  HintsArePast'
<1> USE DeliveryAssumption DEF IInv
<1>0. HintsArePast /\ channel \in Nat /\ hinted \in Nat
  BY DEF TypeOK
<1>1. ASSUME NEW STATE a, a \in Past, Send(a), UNCHANGED <<channel, hinted, wire>> PROVE HintsArePast'
  <2>1. \A c \in Conns : buf'[c] \in Seq(Past)
    BY <1>0, <1>1, AppendTail DEF HintsArePast, Send
  <2>2. buf' \in [Conns -> Seq(Past)] /\ Past' = Past
    BY <1>1, <2>1 DEF Send, Past
  <2> QED
    BY <1>0, <1>1, <2>2 DEF HintsArePast
<1>2. CASE Promote
  <2>1. Past \subseteq Past' /\ UNCHANGED <<hinted, buf, wire>> /\ channel' >= channel /\ channel' \in Nat
    BY <1>0, <1>2 DEF Promote, network, push, Past, TypeOK
  <2>2. \A c \in Conns : buf[c] \in Seq(Past') /\ wire[c] \in Seq(Past')
    BY <1>0, <2>1, SeqMono DEF HintsArePast
  <2> QED
    BY <1>0, <2>1, <2>2 DEF HintsArePast
<1>3. CASE AnnounceRelease \/ Announce \/ AnnounceForeign
  <2>1. channel \in Past /\ Foreign \in Past /\ Published \in Past
    BY <1>0 DEF Past
  <2> QED
    BY <1>1, <1>3, <2>1 DEF AnnounceRelease, Announce, AnnounceForeign, hub, push
<1>4. CASE HubRestart
  BY <1>0, <1>4, Empty DEF HubRestart, push, HintsArePast, Past
<1>5. ASSUME NEW c \in Conns, Write(c) PROVE HintsArePast'
  <2>1. Append(wire[c], Head(buf[c])) \in Seq(Past) /\ Tail(buf[c]) \in Seq(Past)
    BY <1>0, <1>5, AppendTail DEF Write, HintsArePast
  <2>2. Past' = Past /\ UNCHANGED <<channel, hinted>>
    BY <1>5 DEF Write, hub, push, Past
  <2> QED
    BY <1>0, <1>5, <2>1, <2>2 DEF Write, HintsArePast
<1>6. ASSUME NEW c \in Conns, WriteFails(c) \/ ReadErr(c) \/ Cut(c) PROVE HintsArePast'
  <2>1. Past' = Past /\ UNCHANGED <<channel, hinted>>
    BY <1>6 DEF WriteFails, ReadErr, Close, Cut, hub, push, Past
  <2>2. buf' \in {buf, [buf EXCEPT ![c] = <<>>]} /\ wire' \in {wire, [wire EXCEPT ![c] = <<>>]}
    BY <1>6 DEF WriteFails, ReadErr, Close, Cut
  <2>3. buf' \in [Conns -> Seq(Past)] /\ wire' \in [Conns -> Seq(Past)]
    <3>1. /\ buf \in [Conns -> Seq(Past)] /\ wire \in [Conns -> Seq(Past)]
      BY <1>0 DEF HintsArePast
    <3>2. [buf EXCEPT ![c] = <<>>] \in [Conns -> Seq(Past)]
      BY <3>1, Emptied, Zenon
    <3>3. [wire EXCEPT ![c] = <<>>] \in [Conns -> Seq(Past)]
      BY <3>1, Emptied, Zenon
    <3> QED
      BY <2>2, <3>1, <3>2, <3>3, Zenon
  <2> QED
    BY <1>0, <2>1, <2>3 DEF HintsArePast
<1>7. CASE Recv
  <2>1. conn \in Conns
    BY <1>7 DEF Recv, TypeOK
  <2>2. Tail(wire[conn]) \in Seq(Past) /\ Head(wire[conn]) \in Past
    BY <1>0, <1>7, <2>1, AppendTail DEF Recv, HintsArePast
  <2>3. Past' = Past /\ UNCHANGED <<channel, buf>> /\ hinted' <= channel
    BY <1>0, <1>7, <2>2 DEF Recv, Accept, Hint, hub, Past, HintsArePast
  <2> QED
    BY <1>0, <1>7, <2>1, <2>2, <2>3 DEF Recv, HintsArePast
<1>8. CASE UNCHANGED <<channel, hinted, buf, wire>>
  <2>1. Past' = Past
    BY <1>8 DEF Past
  <2> QED
    BY <1>0, <1>8, <2>1 DEF HintsArePast
<1> QED
  BY <1>2, <1>3, <1>4, <1>5, <1>6, <1>7, <1>8, Quiet

(* A hint leaves a token, a token is only taken to start a Sync, and a     *)
(* Sync that asks the hub asks for at least what was hinted.               *)
LEMMA HintStep ==
    ASSUME IInv, [Next]_vars
    PROVE  HintIsFollowed'
<1>0. HintIsFollowed /\ channel \in Nat /\ hinted \in Nat /\ hinted <= channel /\ tried \in Nat
  BY DEF IInv, TypeOK, HintsArePast
<1>1. CASE Recv
  <2>1. CASE kick'
    BY <2>1 DEF HintIsFollowed
  <2>2. CASE UNCHANGED <<kick, hinted, owed>>
    BY <1>0, <1>1, <2>2 DEF Recv, receiver, HintIsFollowed
  <2> QED
    BY <1>1, <2>1, <2>2 DEF Recv
<1>2. CASE Fetch \/ FetchFails
  BY <1>0, <1>2 DEF Fetch, FetchFails, push, HintIsFollowed
<1>3. CASE Synced \/ SyncFails
  BY <1>0, <1>3 DEF Synced, SyncFails, push, HintIsFollowed
<1>4. CASE Poll \/ Kicked \/ RunAgain \/ Leave \/ Return
  BY <1>4 DEF Poll, Kicked, RunAgain, Leave, Return, HintIsFollowed
<1>5. CASE UNCHANGED <<hinted, owed, tried, kick, loop>>
  BY <1>0, <1>5 DEF HintIsFollowed
<1>6. ASSUME ~Recv, ~Fetch, ~FetchFails, ~Synced, ~SyncFails,
             ~Poll, ~Kicked, ~RunAgain, ~Leave, ~Return
      PROVE  UNCHANGED <<hinted, owed, tried, kick, loop>>
  BY <1>6 DEF Next, Serve, Client, Loop, Publish, Promote, AnnounceRelease, Announce, AnnounceForeign, HubRestart, Subscribe, Write,
       WriteFails, ReadErr, Close, Cut, Dial, ReadFails, Backoff, ClientDone, DialFails, Cancel,
       vars, push, receiver
<1> QED
  BY <1>1, <1>2, <1>3, <1>4, <1>5, <1>6

(* Only a client that is done lets the loop return, and only the next Run  *)
(* starts it again.                                                        *)
LEMMA JoinStep ==
    ASSUME IInv, [Next]_vars
    PROVE  ReturnedIsJoined'
<1>0. ReturnedIsJoined
  BY DEF IInv
<1>1. CASE loop' # "returned"
  BY <1>1 DEF ReturnedIsJoined
<1>2. CASE Return
  BY <1>2 DEF Return, push, ReturnedIsJoined
<1>3. CASE client' = client /\ loop' = loop
  BY <1>0, <1>3 DEF ReturnedIsJoined
<1>4. CASE Client \/ DialFails
  BY <1>0, <1>4 DEF Client, Dial, Recv, ReadFails, Backoff, ClientDone, DialFails, receiver, ReturnedIsJoined
<1>5. ASSUME ~Return, ~Client, ~DialFails
      PROVE  loop' # "returned" \/ (client' = client /\ loop' = loop)
  BY <1>5 DEF Next, Serve, Loop, Publish, Promote, AnnounceRelease, Announce, AnnounceForeign, HubRestart, Subscribe, Write,
       WriteFails, ReadErr, Close, Cut, Fetch, Synced, Poll, Kicked, Leave, RunAgain,
       FetchFails, SyncFails, Cancel, vars, push, receiver
<1> QED
  BY <1>1, <1>2, <1>3, <1>4, <1>5

(* IInv is an invariant of the broker, the push client and the receiver    *)
(* loop.                                                                   *)
THEOREM DeliveryInvariant == Spec => []IInv
<1>1. IInv /\ [Next]_vars => IInv'
  BY BuffersStep, ScalarStep, PastStep, HintStep, JoinStep DEF IInv
<1> QED
  BY DeliveryInit, <1>1, PTL DEF Spec

(* Every hint that OnAnnounce accepts is followed by a Sync that asks the  *)
(* hub after it.                                                           *)
THEOREM DeliveryHintIsFollowed == Spec => []HintIsFollowed
<1>1. IInv => HintIsFollowed
  BY DEF IInv
<1> QED
  BY DeliveryInvariant, <1>1, PTL

(* Run has joined the push client when it returns.                         *)
THEOREM DeliveryReturnedIsJoined == Spec => []ReturnedIsJoined
<1>1. IInv => ReturnedIsJoined
  BY DEF IInv
<1> QED
  BY DeliveryInvariant, <1>1, PTL

-----------------------------------------------------------------------------
(* The order of announcements of the channel: they are the numbers.        *)
Ordered(s) ==
    \A i, j \in 1..Len(s) : i <= j /\ s[i] \in Nat /\ s[j] \in Nat => s[i] <= s[j]

AtLeast(s, n) == \A i \in 1..Len(s) : s[i] \in Nat => n <= s[i]

AtMost(s, n) == \A i \in 1..Len(s) : s[i] \in Nat => s[i] <= n

(* What connection c carries is in order, the broker's channel behind the  *)
(* wire, nothing ahead of the last announcement; the connection the client *)
(* reads carries nothing behind its newest hint; one that was not dialled  *)
(* carries nothing.                                                        *)
Stream(c) ==
    /\ Ordered(wire[c]) /\ Ordered(buf[c])
    /\ AtMost(wire[c], announced) /\ AtMost(buf[c], announced)
    /\ \A i \in 1..Len(wire[c]) : wire[c][i] \in Nat => AtLeast(buf[c], wire[c][i])
    /\ c = conn => AtLeast(wire[c], hinted) /\ AtLeast(buf[c], hinted)
    /\ c > dials => wire[c] = <<>> /\ buf[c] = <<>> /\ c \notin subs

StreamsInOrder == hinted <= announced /\ \A c \in Conns : Stream(c)

(* Appending to a sequence what is not behind it keeps the order.          *)
LEMMA AppendOrder ==
    ASSUME NEW s \in Seq(Announcement), NEW a \in Announcement
    PROVE  /\ Ordered(s) /\ (a \in Nat => AtMost(s, a)) => Ordered(Append(s, a))
           /\ \A n \in Nat : AtMost(s, n) /\ (a \in Nat => a <= n) => AtMost(Append(s, a), n)
           /\ \A n \in Nat : AtLeast(s, n) /\ (a \in Nat => n <= a) => AtLeast(Append(s, a), n)
<1> USE DeliveryAssumption
<1>1. /\ Len(Append(s, a)) = Len(s) + 1 /\ Len(s) \in Nat
      /\ \A i \in 1..Len(s) + 1 : Append(s, a)[i] = IF i <= Len(s) THEN s[i] ELSE a
      /\ \A i \in 1..Len(s) : s[i] \in Announcement
  OBVIOUS
<1>2. Ordered(s) /\ (a \in Nat => AtMost(s, a)) => Ordered(Append(s, a))
  BY <1>1 DEF Ordered, AtMost
<1>3. \A n \in Nat : AtMost(s, n) /\ (a \in Nat => a <= n) => AtMost(Append(s, a), n)
  BY <1>1 DEF AtMost
<1>4. \A n \in Nat : AtLeast(s, n) /\ (a \in Nat => n <= a) => AtLeast(Append(s, a), n)
  BY <1>1 DEF AtLeast
<1> QED BY <1>2, <1>3, <1>4

(* The tail of an ordered sequence is ordered and not behind its head.     *)
LEMMA TailOrder ==
    ASSUME NEW s \in Seq(Announcement), s # <<>>, Ordered(s)
    PROVE  /\ Ordered(Tail(s))
           /\ Head(s) \in Nat => AtLeast(Tail(s), Head(s))
           /\ \A n \in Nat : AtMost(s, n) => AtMost(Tail(s), n)
           /\ \A n \in Nat : AtLeast(s, n) => AtLeast(Tail(s), n)
<1>1. /\ Len(s) \in Nat \ {0} /\ Len(Tail(s)) = Len(s) - 1 /\ Head(s) = s[1]
      /\ \A i \in 1..Len(s) - 1 : Tail(s)[i] = s[i + 1]
      /\ \A i \in 1..Len(s) : s[i] \in Announcement
  OBVIOUS
<1>2. Ordered(Tail(s))
  BY <1>1 DEF Ordered
<1>3. Head(s) \in Nat => AtLeast(Tail(s), Head(s))
  BY <1>1 DEF Ordered, AtLeast
<1>4. \A n \in Nat : AtMost(s, n) => AtMost(Tail(s), n)
  BY <1>1 DEF AtMost
<1>5. \A n \in Nat : AtLeast(s, n) => AtLeast(Tail(s), n)
  BY <1>1 DEF AtLeast
<1> QED BY <1>2, <1>3, <1>4, <1>5

(* Nothing is out of order in an empty sequence.                           *)
LEMMA EmptyOrder == /\ Ordered(<<>>) /\ \A n : AtMost(<<>>, n) /\ AtLeast(<<>>, n)
                    /\ Len(<<>>) = 0 /\ 1..0 = {}
BY DEF Ordered, AtMost, AtLeast

(* The elements of a sequence.                                             *)
LEMMA Elements == ASSUME NEW S, NEW q \in Seq(S) PROVE Len(q) \in Nat /\ \A i \in 1..Len(q) : q[i] \in S
  OBVIOUS

(* What the order of a connection is said about.                           *)
LEMMA StreamTypes ==
    ASSUME IInv, NEW c \in Conns
    PROVE  /\ wire[c] \in Seq(Announcement) /\ buf[c] \in Seq(Announcement)
           /\ \A i \in 1..Len(wire[c]) : wire[c][i] \in Announcement
           /\ \A i \in 1..Len(buf[c]) : buf[c][i] \in Announcement
           /\ channel \in Nat /\ announced \in Nat /\ announced <= channel
           /\ hinted \in Nat /\ dials \in Nat
<1>1. wire[c] \in Seq(Announcement) /\ buf[c] \in Seq(Announcement)
  BY DEF IInv, TypeOK, BuffersOK
<1>2. /\ channel \in Nat /\ announced \in Nat /\ announced <= channel
      /\ hinted \in Nat /\ dials \in Nat
  BY DeliveryAssumption DEF IInv, TypeOK
<1> HIDE DEF Announcement
<1>3. /\ \A i \in 1..Len(wire[c]) : wire[c][i] \in Announcement
      /\ \A i \in 1..Len(buf[c]) : buf[c][i] \in Announcement
  BY <1>1, Elements
<1> QED BY <1>1, <1>2, <1>3

(* Initially nothing is on its way.                                        *)
LEMMA StreamsInit == Init => StreamsInOrder
BY EmptyOrder DEF Init, StreamsInOrder, Stream

(* A connection whose contents only shrink to nothing stays in order, as   *)
(* long as the announcements and the client's place do not go back.        *)
LEMMA ShrinkStream ==
    ASSUME IInv, NEW c \in Conns, Stream(c),
           wire'[c] \in {wire[c], <<>>}, buf'[c] \in {buf[c], <<>>},
           announced' \in Nat, announced <= announced',
           c = conn' => c = conn /\ hinted' = hinted,
           c > dials' => c > dials /\ c \notin subs'
    PROVE  Stream(c)'
<1>1. /\ wire[c] \in Seq(Announcement) /\ buf[c] \in Seq(Announcement)
      /\ \A i \in 1..Len(wire[c]) : wire[c][i] \in Announcement
      /\ \A i \in 1..Len(buf[c]) : buf[c][i] \in Announcement
      /\ announced \in Nat
  BY StreamTypes
<1>2. Ordered(wire'[c]) /\ Ordered(buf'[c])
  BY EmptyOrder DEF Stream
<1>3. AtMost(wire'[c], announced') /\ AtMost(buf'[c], announced')
  <2>1. AtMost(wire[c], announced') /\ AtMost(buf[c], announced')
    BY <1>1, DeliveryAssumption DEF Stream, AtMost
  <2> QED BY <2>1, EmptyOrder
<1>4. ASSUME NEW i \in 1..Len(wire'[c]), wire'[c][i] \in Nat PROVE AtLeast(buf'[c], wire'[c][i])
  BY <1>4, EmptyOrder DEF Stream
<1>5. c = conn' => AtLeast(wire'[c], hinted') /\ AtLeast(buf'[c], hinted')
  BY EmptyOrder DEF Stream
<1>6. c > dials' => wire'[c] = <<>> /\ buf'[c] = <<>> /\ c \notin subs'
  BY DEF Stream
<1> QED BY <1>2, <1>3, <1>4, <1>5, <1>6 DEF Stream

(* An announcement that is not behind the last one goes to the end of the  *)
(* channel of every subscriber.                                            *)
LEMMA SendStream ==
    ASSUME IInv, NEW c \in Conns, Stream(c), hinted <= announced, NEW STATE a, a \in Announcement, Send(a),
           a \in Nat => a = announced' /\ announced <= a,
           a \notin Nat => announced' = announced,
           UNCHANGED <<wire, conn, hinted, dials, subs>>
    PROVE  Stream(c)'
<1> USE DeliveryAssumption
<1>1. /\ wire[c] \in Seq(Announcement) /\ buf[c] \in Seq(Announcement)
      /\ \A i \in 1..Len(wire[c]) : wire[c][i] \in Announcement
      /\ \A i \in 1..Len(buf[c]) : buf[c][i] \in Announcement
      /\ announced \in Nat /\ hinted \in Nat
  BY StreamTypes
<1>1a. announced' \in Nat
  BY <1>1
<1>2. CASE buf'[c] = buf[c]
  <2>1. announced <= announced'
    BY <1>1
  <2>2. c > dials => c \notin subs
    BY DEF Stream
  <2> QED BY <1>1a, <1>2, <2>1, <2>2, ShrinkStream
<1>3. CASE buf'[c] = Append(buf[c], a) /\ c \in subs
  <2>1. AtMost(wire[c], announced') /\ AtMost(buf[c], announced')
    BY <1>1, <1>1a DEF Stream, AtMost
  <2>2. a \in Nat => AtMost(buf[c], a)
    BY <2>1
  <2>3. Ordered(buf'[c]) /\ AtMost(buf'[c], announced')
    <3>1. Ordered(buf[c]) /\ (a \in Nat => a <= announced')
      BY <1>1a DEF Stream
    <3> HIDE DEF Announcement
    <3>2. Ordered(Append(buf[c], a))
      BY <1>1, <2>2, <3>1, AppendOrder
    <3>3. AtMost(Append(buf[c], a), announced')
      BY <1>1, <1>1a, <2>1, <3>1, AppendOrder
    <3> QED BY <1>3, <3>2, <3>3
  <2>4. ASSUME NEW i \in 1..Len(wire[c]), wire[c][i] \in Nat PROVE AtLeast(buf'[c], wire[c][i])
    <3>1. wire[c][i] \in Nat /\ wire[c][i] <= announced /\ AtLeast(buf[c], wire[c][i])
      BY <1>1, <2>4 DEF Stream, AtMost
    <3>2. a \in Nat => wire[c][i] <= a
      BY <1>1, <3>1
    <3> QED BY <1>1, <1>3, <3>1, <3>2, AppendOrder
  <2>5. c = conn => AtLeast(wire[c], hinted) /\ AtLeast(buf'[c], hinted)
    <3>1. a \in Nat => hinted <= a
      BY <1>1
    <3> QED BY <1>1, <1>3, <3>1, AppendOrder DEF Stream
  <2>6. ~(c > dials)
    BY <1>3 DEF Stream
  <2> QED BY <2>1, <2>3, <2>4, <2>5, <2>6 DEF Stream
<1> QED BY <1>2, <1>3 DEF Send

(* The head of a sequence is its first element.                            *)
LEMMA HeadIsFirst ==
    ASSUME NEW S, NEW s \in Seq(S), s # <<>>
    PROVE  Head(s) = s[1] /\ 1 \in 1..Len(s) /\ Head(s) \in S
OBVIOUS

(* A write moves the oldest announcement from the channel to the wire.     *)
LEMMA WriteStream ==
    ASSUME IInv, NEW d \in Conns, Stream(d), buf[d] # <<>>, d \in subs,
           wire'[d] = Append(wire[d], Head(buf[d])), buf'[d] = Tail(buf[d]),
           UNCHANGED <<announced, conn, hinted, dials, subs>>
    PROVE  Stream(d)'
<1> DEFINE a == Head(buf[d])
<1>1. /\ wire[d] \in Seq(Announcement) /\ buf[d] \in Seq(Announcement)
      /\ \A i \in 1..Len(wire[d]) : wire[d][i] \in Announcement
      /\ announced \in Nat /\ hinted \in Nat /\ Len(wire[d]) \in Nat
  BY StreamTypes
<1> USE DeliveryAssumption
<1>2. a = buf[d][1] /\ 1 \in 1..Len(buf[d]) /\ a \in Announcement
  BY <1>1, HeadIsFirst
<1>3. a \in Nat => /\ AtMost(wire[d], a) /\ a <= announced
                   /\ d = conn => hinted <= a
  BY <1>1, <1>2 DEF Stream, AtMost, AtLeast
<1> HIDE DEF a
<1>4. Ordered(wire'[d]) /\ AtMost(wire'[d], announced) /\ (d = conn => AtLeast(wire'[d], hinted))
  <2>1. /\ Ordered(wire[d]) /\ AtMost(wire[d], announced) /\ wire'[d] = Append(wire[d], a)
        /\ d = conn => AtLeast(wire[d], hinted)
    BY DEF Stream, a
  <2>a. wire[d] \in Seq(Announcement) /\ a \in Announcement /\ announced \in Nat /\ hinted \in Nat
    BY <1>1, <1>2
  <2> HIDE DEF Announcement
  <2>2. Ordered(Append(wire[d], a))
    BY <1>3, <2>1, <2>a, AppendOrder
  <2>3. AtMost(Append(wire[d], a), announced)
    BY <1>3, <2>1, <2>a, AppendOrder
  <2>4. d = conn => AtLeast(Append(wire[d], a), hinted)
    BY <1>3, <2>1, <2>a, AppendOrder
  <2> QED BY <2>1, <2>2, <2>3, <2>4
<1>5. /\ Ordered(buf'[d]) /\ AtMost(buf'[d], announced) /\ (d = conn => AtLeast(buf'[d], hinted))
      /\ a \in Nat => AtLeast(buf'[d], a)
  BY <1>1, TailOrder DEF Stream, a
<1>6. ASSUME NEW i \in 1..Len(wire'[d]), wire'[d][i] \in Nat PROVE AtLeast(buf'[d], wire'[d][i])
  <2>1. CASE i \in 1..Len(wire[d])
    <3>1. wire'[d][i] = wire[d][i] /\ wire[d][i] \in Nat
      BY <1>1, <1>2, <1>6, <2>1 DEF a
    <3>2. AtLeast(buf[d], wire[d][i])
      BY <1>6, <2>1, <3>1 DEF Stream
    <3> QED BY <1>1, <3>1, <3>2, TailOrder DEF Stream
  <2>2. CASE i = Len(wire[d]) + 1
    BY <1>1, <1>2, <1>5, <1>6, <2>2 DEF a
  <2>3. i \in 1..Len(wire[d]) + 1
    BY <1>1, <1>2 DEF a
  <2> QED BY <1>1, <2>1, <2>2, <2>3
<1>7. ~(d > dials)
  BY DEF Stream
<1> QED BY <1>4, <1>5, <1>6, <1>7 DEF Stream

(* The client takes the oldest announcement of its connection; what is     *)
(* left is not behind it.                                                  *)
LEMMA RecvStream ==
    ASSUME IInv, conn \in Conns, Stream(conn), wire[conn] # <<>>, hinted <= announced,
           wire'[conn] = Tail(wire[conn]), UNCHANGED <<announced, conn, dials, subs, buf>>,
           hinted' = IF Head(wire[conn]) \in Nat THEN Head(wire[conn]) ELSE hinted
    PROVE  Stream(conn)' /\ hinted' <= announced
<1> USE DeliveryAssumption
<1> DEFINE a == Head(wire[conn])
<1>1. /\ wire[conn] \in Seq(Announcement) /\ buf[conn] \in Seq(Announcement)
      /\ \A i \in 1..Len(wire[conn]) : wire[conn][i] \in Announcement
      /\ announced \in Nat /\ hinted \in Nat
  BY StreamTypes
<1>2. a = wire[conn][1] /\ 1 \in 1..Len(wire[conn]) /\ a \in Announcement
  BY <1>1
<1>3. a \in Nat => a <= announced /\ AtLeast(buf[conn], a)
  BY <1>1, <1>2 DEF Stream, AtMost
<1>4. /\ Ordered(wire'[conn]) /\ AtMost(wire'[conn], announced) /\ AtLeast(wire'[conn], hinted)
      /\ a \in Nat => AtLeast(wire'[conn], a)
  BY <1>1, TailOrder DEF Stream
<1>5. ASSUME NEW i \in 1..Len(wire'[conn]), wire'[conn][i] \in Nat
      PROVE  AtLeast(buf[conn], wire'[conn][i])
  <2>1. wire'[conn][i] = wire[conn][i + 1] /\ i + 1 \in 1..Len(wire[conn])
    BY <1>1
  <2> QED BY <1>5, <2>1 DEF Stream
<1>6. AtLeast(wire'[conn], hinted') /\ AtLeast(buf[conn], hinted')
  BY <1>3, <1>4 DEF Stream
<1>7. ~(conn > dials)
  BY DEF Stream
<1> QED BY <1>3, <1>4, <1>5, <1>6, <1>7 DEF Stream

(* An accepted announcement of the channel is the newest hint.             *)
LEMMA AcceptedHint ==
    ASSUME IInv, Recv
    PROVE  hinted' = IF Head(wire[conn]) \in Nat THEN Head(wire[conn]) ELSE hinted
<1>1. conn \in Conns /\ wire[conn] # <<>>
  BY DEF Recv, IInv, TypeOK
<1>2. Head(wire[conn]) \in Announcement
  BY <1>1, AppendTail DEF IInv, TypeOK, BuffersOK
<1> QED BY <1>2, DeliveryAssumption DEF Recv, Accept, Hint

(* Every step keeps every connection in order.                             *)
LEMMA StreamsStep == ASSUME IInv, StreamsInOrder, [Next]_vars PROVE StreamsInOrder'
<1> USE DeliveryAssumption
<1>0. /\ channel \in Nat /\ announced \in Nat /\ announced <= channel
      /\ hinted \in Nat /\ hinted <= announced /\ dials \in Nat
      /\ \A c \in Conns : Stream(c)
      /\ \A c \in Conns : c > dials => c \notin subs
  BY DEF IInv, TypeOK, StreamsInOrder, Stream
<1>1. ASSUME UNCHANGED <<announced, wire, buf, conn, hinted, dials, subs>> PROVE StreamsInOrder'
  BY <1>0, <1>1 DEF StreamsInOrder, Stream
<1>2. CASE Announce
  <2>1. \A c \in Conns : Stream(c)'
    BY <1>0, <1>2, SendStream DEF Announce, push
  <2> QED BY <1>0, <1>2, <2>1 DEF Announce, push, StreamsInOrder
<1>3. CASE AnnounceForeign \/ AnnounceRelease
  <2>1. /\ Send(Foreign) \/ Send(Published)
        /\ UNCHANGED <<announced, wire, conn, hinted, dials, subs>>
    BY <1>3 DEF AnnounceForeign, AnnounceRelease, hub, push
  <2>2. \A c \in Conns : Stream(c)'
    BY <1>0, <2>1, SendStream
  <2> QED BY <1>0, <2>1, <2>2 DEF StreamsInOrder
<1>4. CASE HubRestart
  <2>1. \A c \in Conns : Stream(c)'
    BY <1>0, <1>4, ShrinkStream DEF HubRestart, push
  <2> QED BY <1>0, <1>4, <2>1 DEF HubRestart, push, StreamsInOrder
<1>5. ASSUME NEW d \in Conns, Subscribe(d) PROVE StreamsInOrder'
  <2>1. \A c \in Conns : Stream(c)'
    BY <1>0, <1>5, ShrinkStream DEF Subscribe, hub, push
  <2> QED BY <1>0, <1>5, <2>1 DEF Subscribe, hub, push, StreamsInOrder
<1>6. ASSUME NEW d \in Conns, WriteFails(d) \/ ReadErr(d) \/ Cut(d) PROVE StreamsInOrder'
  <2>1. /\ buf' \in {buf, [buf EXCEPT ![d] = <<>>]} /\ wire' \in {wire, [wire EXCEPT ![d] = <<>>]}
        /\ subs' \subseteq subs /\ UNCHANGED <<announced, conn, hinted, dials>>
    BY <1>6 DEF WriteFails, ReadErr, Close, Cut, hub, push
  <2>2. \A c \in Conns : buf'[c] \in {buf[c], <<>>} /\ wire'[c] \in {wire[c], <<>>}
    BY <2>1 DEF IInv, TypeOK, BuffersOK
  <2>3. \A c \in Conns : Stream(c)'
    BY <1>0, <2>1, <2>2, ShrinkStream
  <2> QED BY <1>0, <2>1, <2>3 DEF StreamsInOrder
<1>7. CASE Dial
  <2>1. /\ conn' = dials + 1 /\ dials' = dials + 1 /\ conn' \in Conns
        /\ UNCHANGED <<announced, wire, buf, hinted, subs>>
    BY <1>0, <1>7 DEF Dial, hub
  <2>2. \A c \in Conns : c # conn' => Stream(c)'
    BY <1>0, <2>1, ShrinkStream
  <2>3. wire'[conn'] = <<>> /\ buf'[conn'] = <<>>
    BY <1>0, <2>1 DEF Stream
  <2>4. \A c \in Conns : c = conn' => Stream(c)'
    BY <2>1, <2>3, EmptyOrder DEF Stream
  <2> QED BY <1>0, <2>1, <2>2, <2>4 DEF StreamsInOrder
<1>8. ASSUME NEW d \in Conns, Write(d) PROVE StreamsInOrder'
  <2>1. /\ buf[d] # <<>> /\ d \in subs /\ UNCHANGED <<announced, conn, hinted, dials, subs>>
        /\ wire' = [wire EXCEPT ![d] = Append(@, Head(buf[d]))] /\ buf' = [buf EXCEPT ![d] = Tail(@)]
    BY <1>8 DEF Write, hub, push
  <2>2. /\ wire'[d] = Append(wire[d], Head(buf[d])) /\ buf'[d] = Tail(buf[d])
        /\ \A c \in Conns : c # d => wire'[c] = wire[c] /\ buf'[c] = buf[c]
    BY <2>1 DEF IInv, TypeOK, BuffersOK
  <2>3. \A c \in Conns : c # d => Stream(c)'
    BY <1>0, <2>1, <2>2, ShrinkStream
  <2>4. Stream(d)'
    BY <1>0, <2>1, <2>2, WriteStream
  <2> QED BY <1>0, <2>1, <2>3, <2>4 DEF StreamsInOrder
<1>9. CASE Recv
  <2>1. /\ conn \in Conns /\ wire[conn] # <<>> /\ UNCHANGED <<announced, conn, dials, subs, buf>>
        /\ wire' = [wire EXCEPT ![conn] = Tail(@)]
        /\ hinted' = IF Head(wire[conn]) \in Nat THEN Head(wire[conn]) ELSE hinted
    BY <1>9, AcceptedHint DEF Recv, hub, IInv, TypeOK
  <2>2. wire'[conn] = Tail(wire[conn]) /\ \A c \in Conns : c # conn => wire'[c] = wire[c]
    BY <2>1 DEF IInv, TypeOK, BuffersOK
  <2>3. \A c \in Conns : c # conn => Stream(c)'
    BY <1>0, <2>1, <2>2, ShrinkStream
  <2>4. Stream(conn)' /\ hinted' <= announced
    BY <1>0, <2>1, <2>2, RecvStream
  <2> QED BY <2>1, <2>3, <2>4 DEF StreamsInOrder
<1>10. ASSUME ~AnnounceRelease, ~Announce, ~AnnounceForeign, ~HubRestart, ~Dial, ~Recv,
              \A c \in Conns : ~Subscribe(c) /\ ~Write(c) /\ ~WriteFails(c) /\ ~ReadErr(c) /\ ~Cut(c)
       PROVE  UNCHANGED <<announced, wire, buf, conn, hinted, dials, subs>>
  BY <1>10 DEF Next, Serve, Client, Loop, Publish, Promote, ReadFails, Backoff, ClientDone, DialFails,
         Fetch, Synced, Poll, Kicked, Leave, Return, RunAgain, FetchFails, SyncFails, Cancel,
         vars, hub, network, push
<1> QED BY <1>1, <1>2, <1>3, <1>4, <1>5, <1>6, <1>7, <1>8, <1>9, <1>10

(* Hints are accepted in the order of the promotions, over any number of   *)
(* lost, replaced and half-dead connections and restarts of the hub.       *)
THEOREM DeliveryHintsInOrder == Spec => HintsInOrder
<1>1. ASSUME IInv, StreamsInOrder, [Next]_vars PROVE [hinted' >= hinted]_vars
  <2>1. CASE Recv
    <3>1. conn \in Conns /\ Stream(conn) /\ wire[conn] # <<>> /\ hinted \in Nat
      BY <1>1, <2>1 DEF Recv, IInv, TypeOK, StreamsInOrder
    <3>2. Head(wire[conn]) \in Nat => hinted <= Head(wire[conn])
      <4>1. wire[conn] \in Seq(Announcement) /\ AtLeast(wire[conn], hinted)
        BY <1>1, <3>1, StreamTypes DEF Stream
      <4>2. Head(wire[conn]) = wire[conn][1] /\ 1 \in 1..Len(wire[conn])
        BY <3>1, <4>1
      <4> QED BY <4>1, <4>2 DEF AtLeast
    <3>3. hinted' = IF Head(wire[conn]) \in Nat THEN Head(wire[conn]) ELSE hinted
      BY <1>1, <2>1, AcceptedHint
    <3> QED BY <3>1, <3>2, <3>3
  <2>2. CASE ~Recv
    <3>1. hinted' = hinted
      BY <1>1, <2>2 DEF Next, Serve, Client, Loop, Publish, Promote, AnnounceRelease, Announce, AnnounceForeign, HubRestart,
         Subscribe, Write, WriteFails, ReadErr, Close, Cut, Dial, ReadFails, Backoff, ClientDone,
         DialFails, Fetch, Synced, Poll, Kicked, Leave, Return, RunAgain, FetchFails, SyncFails,
         Cancel, vars, push
    <3> QED BY <1>1, <3>1 DEF IInv, TypeOK
  <2> QED BY <2>1, <2>2
<1> QED BY DeliveryInvariant, StreamsInit, StreamsStep, <1>1, PTL DEF Spec, HintsInOrder
=============================================================================
