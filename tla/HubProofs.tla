----------------------------- MODULE HubProofs -----------------------------
(***************************************************************************)
(* Proofs about Hub for every number of clients and objects, every cache   *)
(* budget and every number of requests and writes.                         *)
(***************************************************************************)
EXTENDS Pipeline, NaturalsInduction, WellFoundedInduction, TLAPS

-----------------------------------------------------------------------------
(* Induction, and what it shows of Only, Total and Kept.                   *)

(* A nonempty set of naturals has a least element ...                      *)
LEMMA Least == ASSUME NEW T \in SUBSET Nat, T # {} PROVE \E n \in T : \A k \in T : n <= k
<1> DEFINE R == OpToRel(<, Nat)
<1>1. IsWellFoundedOn(R, Nat)
  BY NatLessThanWellFounded
<1>2. \A x, y \in Nat : x < y => <<x, y>> \in R
  BY DEF OpToRel
<1> HIDE DEF R
<1>3. PICK n \in T : \A k \in T : ~(<<k, n>> \in R)
  BY <1>1, WFMin
<1>4. \A k \in T : ~(k < n)
  BY <1>2, <1>3
<1> QED BY <1>3, <1>4

(* ... so a set with 0 that is closed under successor holds them all ...   *)
LEMMA Induct == ASSUME NEW S, 0 \in S, \A n \in Nat : n \in S => n + 1 \in S PROVE Nat \subseteq S
<1> SUFFICES ASSUME Nat \ S # {} PROVE FALSE
  OBVIOUS
<1>1. PICK n \in Nat \ S : \A k \in Nat \ S : n <= k
  BY Least
<1>2. n # 0 /\ n - 1 \in Nat /\ n - 1 \notin Nat \ S
  BY <1>1
<1> QED BY <1>1, <1>2

(* ... and a set of sequences with the empty one that is closed under      *)
(* Append holds every sequence.                                            *)
LEMMA SeqInduct ==
    ASSUME NEW E, NEW S, <<>> \in S,
           \A s \in Seq(E), e \in E : s \in S => Append(s, e) \in S
    PROVE  Seq(E) \subseteq S
<1> DEFINE L == {n \in Nat : \A s \in Seq(E) : Len(s) = n => s \in S}
<1>1. 0 \in L
  <2>1. \A s \in Seq(E) : Len(s) = 0 => s = <<>>
    OBVIOUS
  <2> QED BY <2>1
<1>2. ASSUME NEW n \in Nat, n \in L PROVE n + 1 \in L
  <2> SUFFICES ASSUME NEW s \in Seq(E), Len(s) = n + 1 PROVE s \in S
    BY <1>2
  <2> DEFINE t == SubSeq(s, 1, n)
  <2>1. t \in Seq(E) /\ Len(t) = n /\ s[n + 1] \in E /\ s = Append(t, s[n + 1])
    OBVIOUS
  <2>2. t \in S
    BY <2>1, <1>2
  <2> QED BY <2>1, <2>2
<1> HIDE DEF L
<1>3. Nat \subseteq L
  BY <1>1, <1>2, Induct
<1> QED BY <1>3 DEF L

(* A bounded nonempty set of naturals has a greatest element.              *)
LEMMA Greatest ==
    ASSUME NEW T \in SUBSET Nat, T # {}, NEW b \in Nat, \A k \in T : k <= b
    PROVE  \E n \in T : \A k \in T : k <= n
<1> DEFINE U == {n \in Nat : \A k \in T : k <= n}
<1>1. U \in SUBSET Nat /\ b \in U
  OBVIOUS
<1>2. PICK n \in U : \A k \in U : n <= k
  BY <1>1, Least
<1>3. CASE n \in T
  BY <1>2, <1>3
<1>4. CASE n \notin T
  <2>1. \A k \in T : k \in Nat /\ k < n
    BY <1>2, <1>4
  <2>2. n # 0
    <3>1. PICK k \in T : TRUE
      OBVIOUS
    <3> QED BY <2>1, <3>1
  <2>3. n - 1 \in U /\ n - 1 < n
    BY <1>2, <2>1, <2>2
  <2>4. n \in Nat
    BY <1>2
  <2> HIDE DEF U
  <2>5. n <= n - 1
    BY <1>2, <2>3
  <2> QED BY <2>4, <2>5
<1> QED BY <1>3, <1>4

-----------------------------------------------------------------------------
(* A cache entry, and the size of its body.                                *)
Entries == [obj : Objects, data : Slices]
Bytes(e) == SizeOf[e.data.body]

(* What is in an entry and in a slice.                                     *)
LEMMA EntryTypes ==
    /\ \A e \in Entries : e.obj \in Objects /\ e.data \in Slices /\ Bytes(e) \in Nat
    /\ \A d \in Slices : d.body \in Bodies /\ d.bad \in BOOLEAN /\ d.lent \in Clients \union {None}
BY HubAssumption DEF Entries, Slices, Bytes

(* The running sums of a sequence of entries.                              *)
Sums(g, s) ==
    g = [i \in 0..Len(s) |-> IF i = 0 THEN 0 ELSE g[i - 1] + SizeOf[s[i].data.body]]

(* They exist, so Total is defined by its recursion ...                    *)
LEMMA SumsExist == ASSUME NEW s \in Seq(Entries) PROVE \E g : Sums(g, s)
<1> DEFINE F(n) == \E g : g = [i \in 0..n |-> IF i = 0 THEN 0 ELSE g[i - 1] + SizeOf[s[i].data.body]]
           L == {n \in Nat : F(n)}
<1>1. 0 \in L
  <2> DEFINE g == [i \in 0..0 |-> 0]
  <2>1. g = [i \in 0..0 |-> IF i = 0 THEN 0 ELSE g[i - 1] + SizeOf[s[i].data.body]]
    OBVIOUS
  <2> QED BY <2>1
<1>2. ASSUME NEW n \in Nat, n \in L PROVE n + 1 \in L
  <2>1. PICK g : g = [i \in 0..n |-> IF i = 0 THEN 0 ELSE g[i - 1] + SizeOf[s[i].data.body]]
    BY <1>2
  <2> DEFINE h == [i \in 0..(n + 1) |-> IF i = 0 THEN 0 ELSE g[i - 1] + SizeOf[s[i].data.body]]
  <2>2. \A i \in 0..n : h[i] = g[i]
    BY <2>1
  <2>3. ASSUME NEW i \in 0..(n + 1), i # 0 PROVE h[i] = h[i - 1] + SizeOf[s[i].data.body]
    <3>1. i - 1 \in 0..n
      BY <2>3
    <3>2. h[i - 1] = g[i - 1]
      BY <2>2, <3>1
    <3>3. h[i] = g[i - 1] + SizeOf[s[i].data.body]
      BY <2>3
    <3> QED BY <3>2, <3>3
  <2>4. h[0] = 0 /\ DOMAIN h = 0..(n + 1) /\ h = [i \in DOMAIN h |-> h[i]]
    OBVIOUS
  <2> HIDE DEF h
  <2>5. h = [i \in 0..(n + 1) |-> IF i = 0 THEN 0 ELSE h[i - 1] + SizeOf[s[i].data.body]]
    BY <2>3, <2>4
  <2> QED BY <2>5
<1> HIDE DEF L
<1>3. Nat \subseteq L
  BY <1>1, <1>2, Induct
<1>4. Len(s) \in L
  BY <1>3
<1> QED BY <1>4 DEF L, Sums

(* ... and are determined by it.                                           *)
LEMMA SumsUnique ==
    ASSUME NEW s, NEW t, NEW g, NEW h, Len(s) \in Nat, Len(t) \in Nat, Sums(g, s), Sums(h, t),
           Len(s) <= Len(t), \A i \in 1..Len(s) : Bytes(s[i]) = Bytes(t[i])
    PROVE  \A i \in 0..Len(s) : g[i] = h[i]
<1> DEFINE L == {n \in Nat : n <= Len(s) => g[n] = h[n]}
<1>1. 0 \in L
  BY DEF Sums
<1>2. ASSUME NEW n \in Nat, n \in L PROVE n + 1 \in L
  <2> SUFFICES ASSUME n + 1 <= Len(s) PROVE g[n + 1] = h[n + 1]
    OBVIOUS
  <2>1. g[n] = h[n]
    BY <1>2
  <2>2. n + 1 \in 1..Len(s) /\ n + 1 \in 0..Len(s) /\ n + 1 \in 0..Len(t)
    OBVIOUS
  <2>3. g[n + 1] = g[n] + Bytes(s[n + 1])
    BY <2>2 DEF Sums, Bytes
  <2>4. h[n + 1] = h[n] + Bytes(t[n + 1])
    BY <2>2 DEF Sums, Bytes
  <2> QED BY <2>1, <2>2, <2>3, <2>4
<1> HIDE DEF L
<1>3. Nat \subseteq L
  BY <1>1, <1>2, Induct
<1> QED BY <1>3 DEF L

(* Total takes the last of the running sums.                               *)
LEMMA TotalIsSum == ASSUME NEW s \in Seq(Entries) PROVE \E g : Sums(g, s) /\ Total(s) = g[Len(s)]
<1> DEFINE g == CHOOSE g : g = [i \in 0..Len(s) |-> IF i = 0 THEN 0 ELSE g[i - 1] + SizeOf[s[i].data.body]]
<1>1. Sums(g, s)
  BY SumsExist DEF Sums
<1>2. Total(s) = g[Len(s)]
  BY DEF Total
<1> QED BY <1>1, <1>2

(* The empty sequence has no bytes.                                        *)
LEMMA TotalEmpty == Total(<<>>) = 0
<1>1. PICK g : Sums(g, <<>>) /\ Total(<<>>) = g[Len(<<>>)]
  <2>1. <<>> \in Seq(Entries)
    OBVIOUS
  <2> QED BY <2>1, TotalIsSum
<1> QED BY <1>1 DEF Sums

(* An entry at the back adds its bytes.                                    *)
LEMMA TotalAppend ==
    ASSUME NEW s \in Seq(Entries), NEW e \in Entries
    PROVE  Total(Append(s, e)) = Total(s) + Bytes(e)
<1> DEFINE t == Append(s, e)
<1>1. t \in Seq(Entries) /\ Len(t) = Len(s) + 1 /\ Len(s) \in Nat
  OBVIOUS
<1>2. t[Len(s) + 1] = e /\ \A i \in 1..Len(s) : t[i] = s[i]
  OBVIOUS
<1> HIDE DEF t
<1>3. PICK g : Sums(g, s) /\ Total(s) = g[Len(s)]
  BY TotalIsSum
<1>4. PICK h : Sums(h, t) /\ Total(t) = h[Len(t)]
  BY TotalIsSum, <1>1
<1>5. g[Len(s)] = h[Len(s)]
  BY <1>1, <1>2, <1>3, <1>4, SumsUnique
<1>6. h[Len(t)] = h[Len(s)] + Bytes(e)
  BY <1>1, <1>2, <1>4 DEF Sums, Bytes
<1> QED BY <1>3, <1>4, <1>5, <1>6 DEF t

(* Total depends on the sizes of the bodies alone.                         *)
LEMMA TotalSame ==
    ASSUME NEW s \in Seq(Entries), NEW t \in Seq(Entries), Len(s) = Len(t),
           \A i \in 1..Len(s) : Bytes(s[i]) = Bytes(t[i])
    PROVE  Total(s) = Total(t)
<1>1. PICK g : Sums(g, s) /\ Total(s) = g[Len(s)]
  BY TotalIsSum
<1>2. PICK h : Sums(h, t) /\ Total(t) = h[Len(t)]
  BY TotalIsSum
<1>3. g[Len(s)] = h[Len(s)]
  BY <1>1, <1>2, SumsUnique
<1> QED BY <1>1, <1>2, <1>3

(* A sum of sizes is a natural number.                                     *)
LEMMA TotalNat == ASSUME NEW s \in Seq(Entries) PROVE Total(s) \in Nat
<1> DEFINE S == {t \in Seq(Entries) : Total(t) \in Nat}
<1>1. <<>> \in S
  BY TotalEmpty
<1>2. ASSUME NEW t \in Seq(Entries), NEW e \in Entries, t \in S PROVE Append(t, e) \in S
  <2>1. Append(t, e) \in Seq(Entries)
    OBVIOUS
  <2> QED BY <1>2, <2>1, TotalAppend, EntryTypes
<1> HIDE DEF S
<1>3. Seq(Entries) \subseteq S
  BY <1>1, <1>2, SeqInduct
<1> QED BY <1>3 DEF S

(* Putting an entry in front and one at the back commute.                  *)
LEMMA PrependAppend ==
    ASSUME NEW E, NEW e \in E, NEW f \in E, NEW t \in Seq(E)
    PROVE  /\ Append(t, f) \in Seq(E) /\ <<e>> \o t \in Seq(E)
           /\ <<e>> \o Append(t, f) = Append(<<e>> \o t, f)
<1> DEFINE a == <<e>> \o Append(t, f)
           b == Append(<<e>> \o t, f)
<1>1. Append(t, f) \in Seq(E) /\ <<e>> \o t \in Seq(E)
  OBVIOUS
<1>2. a \in Seq(E) /\ b \in Seq(E)
  BY <1>1
<1>3. Len(a) = Len(t) + 2 /\ Len(b) = Len(t) + 2
  OBVIOUS
<1>4. ASSUME NEW i \in 1..(Len(t) + 2) PROVE a[i] = b[i]
  <2>1. CASE i = 1
    BY <2>1
  <2>2. CASE i # 1 /\ i # Len(t) + 2
    BY <2>2
  <2>3. CASE i # 1 /\ i = Len(t) + 2
    BY <2>3
  <2> QED BY <2>1, <2>2, <2>3
<1> HIDE DEF a, b
<1>5. a = b
  BY <1>2, <1>3, <1>4
<1> QED BY <1>1, <1>5 DEF a, b

(* An entry in front adds its bytes too.                                   *)
LEMMA TotalPrepend ==
    ASSUME NEW e \in Entries, NEW s \in Seq(Entries)
    PROVE  Total(<<e>> \o s) = Bytes(e) + Total(s)
<1> DEFINE S == {t \in Seq(Entries) : Total(<<e>> \o t) = Bytes(e) + Total(t)}
<1>b. Bytes(e) \in Nat
  BY EntryTypes
<1>1. <<>> \in S
  <2>1. <<e>> \o <<>> = Append(<<>>, e) /\ <<>> \in Seq(Entries)
    OBVIOUS
  <2>2. Total(Append(<<>>, e)) = Total(<<>>) + Bytes(e)
    BY <2>1, TotalAppend
  <2> QED BY <2>1, <2>2, TotalEmpty, <1>b
<1>2. ASSUME NEW t \in Seq(Entries), NEW f \in Entries, t \in S PROVE Append(t, f) \in S
  <2>1. /\ Append(t, f) \in Seq(Entries) /\ <<e>> \o t \in Seq(Entries)
        /\ <<e>> \o Append(t, f) = Append(<<e>> \o t, f)
    BY PrependAppend
  <2>2. Total(Append(<<e>> \o t, f)) = Total(<<e>> \o t) + Bytes(f)
    BY <2>1, TotalAppend
  <2>3. Total(Append(t, f)) = Total(t) + Bytes(f)
    BY TotalAppend
  <2>4. Total(<<e>> \o t) = Bytes(e) + Total(t)
    BY <1>2
  <2>5. Total(t) \in Nat /\ Bytes(f) \in Nat
    BY TotalNat, EntryTypes
  <2>6. (Bytes(e) + Total(t)) + Bytes(f) = Bytes(e) + (Total(t) + Bytes(f))
    BY <2>5, <1>b
  <2>7. Total(<<e>> \o Append(t, f)) = Bytes(e) + Total(Append(t, f))
    BY <2>1, <2>2, <2>3, <2>4, <2>6, Zenon
  <2> QED BY <2>1, <2>7
<1> HIDE DEF S
<1>3. Seq(Entries) \subseteq S
  BY <1>1, <1>2, SeqInduct
<1> QED BY <1>3 DEF S

-----------------------------------------------------------------------------
(* The entries of s with an object in O, collected from the front.         *)
Picks(g, s, O) ==
    g = [i \in 0..Len(s) |->
           IF i = 0 THEN <<>>
           ELSE IF s[i].obj \in O THEN Append(g[i - 1], s[i]) ELSE g[i - 1]]

(* They exist ...                                                          *)
LEMMA PicksExist == ASSUME NEW s, Len(s) \in Nat, NEW O PROVE \E g : Picks(g, s, O)
<1> DEFINE Step(x, i) == IF s[i].obj \in O THEN Append(x, s[i]) ELSE x
           F(n) == \E g : g = [i \in 0..n |-> IF i = 0 THEN <<>> ELSE Step(g[i - 1], i)]
           L == {n \in Nat : F(n)}
<1> HIDE DEF Step
<1>1. 0 \in L
  <2> DEFINE g == [i \in 0..0 |-> <<>>]
  <2>1. g = [i \in 0..0 |-> IF i = 0 THEN <<>> ELSE Step(g[i - 1], i)]
    OBVIOUS
  <2> QED BY <2>1
<1>2. ASSUME NEW n \in Nat, n \in L PROVE n + 1 \in L
  <2>1. PICK g : g = [i \in 0..n |-> IF i = 0 THEN <<>> ELSE Step(g[i - 1], i)]
    BY <1>2
  <2> DEFINE h == [i \in 0..(n + 1) |-> IF i = 0 THEN <<>> ELSE Step(g[i - 1], i)]
  <2>2. \A i \in 0..n : h[i] = g[i]
    BY <2>1
  <2>3. ASSUME NEW i \in 0..(n + 1), i # 0 PROVE h[i] = Step(h[i - 1], i)
    <3>1. i - 1 \in 0..n
      BY <2>3
    <3>2. h[i - 1] = g[i - 1]
      BY <2>2, <3>1
    <3>3. h[i] = Step(g[i - 1], i)
      BY <2>3
    <3> QED BY <3>2, <3>3
  <2>4. h[0] = <<>> /\ DOMAIN h = 0..(n + 1) /\ h = [i \in DOMAIN h |-> h[i]]
    OBVIOUS
  <2> HIDE DEF h
  <2>5. h = [i \in 0..(n + 1) |-> IF i = 0 THEN <<>> ELSE Step(h[i - 1], i)]
    BY <2>3, <2>4
  <2> QED BY <2>5
<1> HIDE DEF L
<1>3. Nat \subseteq L
  BY <1>1, <1>2, Induct
<1>4. Len(s) \in L
  BY <1>3
<1> QED BY <1>4 DEF L, Picks, Step

(* One step of the recursion of Only ...                                   *)
LEMMA PickStep ==
    ASSUME NEW s, Len(s) \in Nat, NEW O, NEW g, Picks(g, s, O), NEW i \in 1..Len(s)
    PROVE  g[i] = IF s[i].obj \in O THEN Append(g[i - 1], s[i]) ELSE g[i - 1]
<1>1. i \in 0..Len(s) /\ i # 0
  OBVIOUS
<1> QED BY <1>1, Zenon DEF Picks

(* ... and are determined by a prefix of the sequence.                     *)
LEMMA PicksUnique ==
    ASSUME NEW s, NEW t, NEW O, NEW g, NEW h, Len(s) \in Nat, Len(t) \in Nat,
           Picks(g, s, O), Picks(h, t, O),
           Len(s) <= Len(t), \A i \in 1..Len(s) : s[i] = t[i]
    PROVE  \A i \in 0..Len(s) : g[i] = h[i]
<1> DEFINE L == {n \in Nat : n <= Len(s) => g[n] = h[n]}
           Step(x, e) == IF e.obj \in O THEN Append(x, e) ELSE x
<1>1. 0 \in L
  BY DEF Picks
<1>2. ASSUME NEW n \in Nat, n \in L PROVE n + 1 \in L
  <2> SUFFICES ASSUME n + 1 <= Len(s) PROVE g[n + 1] = h[n + 1]
    OBVIOUS
  <2>1. g[n] = h[n]
    BY <1>2
  <2>2. n + 1 \in 1..Len(s) /\ n + 1 \in 0..Len(s) /\ n + 1 \in 0..Len(t)
    OBVIOUS
  <2>3. (n + 1) - 1 = n /\ n + 1 \in 1..Len(t) /\ s[n + 1] = t[n + 1]
    BY <2>2
  <2>4. g[n + 1] = Step(g[n], s[n + 1])
    BY <2>2, <2>3, PickStep
  <2>5. h[n + 1] = Step(h[n], t[n + 1])
    BY <2>2, <2>3, PickStep
  <2> HIDE DEF Step
  <2> QED BY <2>1, <2>3, <2>4, <2>5
<1> HIDE DEF L
<1>3. Nat \subseteq L
  BY <1>1, <1>2, Induct
<1> QED BY <1>3 DEF L

(* Only takes the last of them.                                            *)
LEMMA OnlyIsPick ==
    ASSUME NEW s, Len(s) \in Nat, NEW O PROVE \E g : Picks(g, s, O) /\ Only(s, O) = g[Len(s)]
<1> DEFINE g == CHOOSE g : Picks(g, s, O)
<1>1. Picks(g, s, O)
  <2>1. \E h : Picks(h, s, O)
    BY PicksExist
  <2> QED BY <2>1, Zenon
<1>2. Only(s, O) = g[Len(s)]
  BY Zenon DEF Only, Picks
<1> QED BY <1>1, <1>2

(* Only of the empty sequence and of an extended one.                      *)
LEMMA OnlyEmpty == ASSUME NEW O PROVE Only(<<>>, O) = <<>>
<1>1. Len(<<>>) = 0
  OBVIOUS
<1>2. PICK g : Picks(g, <<>>, O) /\ Only(<<>>, O) = g[Len(<<>>)]
  BY <1>1, OnlyIsPick
<1> QED BY <1>1, <1>2 DEF Picks

(* An entry at the back is kept if its object is in O.                     *)
LEMMA OnlyAppend ==
    ASSUME NEW E, NEW s \in Seq(E), NEW e \in E, NEW O
    PROVE  Only(Append(s, e), O) = IF e.obj \in O THEN Append(Only(s, O), e) ELSE Only(s, O)
<1> DEFINE t == Append(s, e)
<1>1. Len(t) = Len(s) + 1 /\ Len(s) \in Nat /\ Len(t) \in Nat
  OBVIOUS
<1>2. t[Len(s) + 1] = e /\ \A i \in 1..Len(s) : t[i] = s[i]
  OBVIOUS
<1> HIDE DEF t
<1>3. PICK g : Picks(g, s, O) /\ Only(s, O) = g[Len(s)]
  BY <1>1, OnlyIsPick
<1>4. PICK h : Picks(h, t, O) /\ Only(t, O) = h[Len(t)]
  BY <1>1, OnlyIsPick
<1>5. g[Len(s)] = h[Len(s)]
  BY <1>1, <1>2, <1>3, <1>4, PicksUnique
<1>6. h[Len(t)] = IF e.obj \in O THEN Append(h[Len(s)], e) ELSE h[Len(s)]
  <2>1. Len(t) \in 0..Len(t) /\ Len(t) # 0 /\ Len(t) - 1 = Len(s)
    BY <1>1
  <2>2. t[Len(t)] = e
    BY <1>1, <1>2
  <2> QED BY <2>1, <2>2, <1>4 DEF Picks
<1> QED BY <1>3, <1>4, <1>5, <1>6 DEF t

(* What is left is a sequence of entries of s with an object in O, no      *)
(* longer than s, and as distinct as s.                                    *)
Within(t, s) == \A i \in 1..Len(t) : \E j \in 1..Len(s) : t[i] = s[j]

Distinct(s) == \A i, j \in 1..Len(s) : s[i].obj = s[j].obj => i = j

(* What Only keeps.                                                        *)
LEMMA OnlyType ==
    ASSUME NEW E, NEW s \in Seq(E), NEW O
    PROVE  /\ Only(s, O) \in Seq(E) /\ Len(Only(s, O)) <= Len(s)
           /\ \A i \in 1..Len(Only(s, O)) : Only(s, O)[i].obj \in O
           /\ Within(Only(s, O), s)
           /\ Distinct(s) => Distinct(Only(s, O))
<1> DEFINE P(t) == /\ Only(t, O) \in Seq(E) /\ Len(Only(t, O)) <= Len(t)
                   /\ \A i \in 1..Len(Only(t, O)) : Only(t, O)[i].obj \in O
                   /\ Within(Only(t, O), t)
                   /\ Distinct(t) => Distinct(Only(t, O))
           S == {t \in Seq(E) : P(t)}
<1>1. <<>> \in S
  <2>1. <<>> \in Seq(E) /\ Len(<<>>) = 0
    OBVIOUS
  <2>2. Within(<<>>, <<>>) /\ Distinct(<<>>)
    BY <2>1 DEF Within, Distinct
  <2>3. Only(<<>>, O) = <<>>
    BY OnlyEmpty
  <2>4. Len(<<>>) <= Len(<<>>) /\ \A i \in 1..Len(<<>>) : <<>>[i].obj \in O
    BY <2>1
  <2>5. P(<<>>)
    BY <2>1, <2>2, <2>3, <2>4, Zenon
  <2> QED BY <2>1, <2>5
<1>2. ASSUME NEW t \in Seq(E), NEW e \in E, t \in S PROVE Append(t, e) \in S
  <2> DEFINE a == Append(t, e)
             u == Only(t, O)
             v == Only(a, O)
  <2>1. a \in Seq(E) /\ Len(a) = Len(t) + 1 /\ a[Len(t) + 1] = e /\ \A i \in 1..Len(t) : a[i] = t[i]
    OBVIOUS
  <2>2. P(t)
    BY <1>2
  <2>3. v = IF e.obj \in O THEN Append(u, e) ELSE u
    BY OnlyAppend
  <2>4. u \in Seq(E) /\ Len(u) <= Len(t) /\ (\A i \in 1..Len(u) : u[i].obj \in O)
        /\ Within(u, t) /\ (Distinct(t) => Distinct(u))
    BY <2>2
  <2>n. Len(t) \in Nat /\ Len(u) \in Nat
    BY <2>4
  <2> HIDE DEF a, u, v, P, S
  <2>5. Within(u, a)
    <3> SUFFICES ASSUME NEW i \in 1..Len(u) PROVE \E j \in 1..Len(a) : u[i] = a[j]
      BY DEF Within
    <3>1. PICK j \in 1..Len(t) : u[i] = t[j]
      BY <2>4 DEF Within
    <3>2. j \in 1..Len(a) /\ a[j] = t[j]
      BY <2>1, <2>n
    <3> QED BY <3>1, <3>2
  <2>6. Distinct(a) => Distinct(t)
    BY <2>1 DEF Distinct
  <2>7. CASE e.obj \notin O
    <3>1. v = u
      BY <2>3, <2>7
    <3>2. v \in Seq(E) /\ Len(v) <= Len(a) /\ (\A i \in 1..Len(v) : v[i].obj \in O)
          /\ Within(v, a) /\ (Distinct(a) => Distinct(v))
      BY <2>1, <2>4, <2>5, <2>6, <3>1
    <3> QED BY <3>2, <2>1 DEF a, v, P, S
  <2>8. CASE e.obj \in O
    <3>1. /\ v \in Seq(E) /\ Len(v) = Len(u) + 1
          /\ v[Len(u) + 1] = e /\ \A i \in 1..Len(u) : v[i] = u[i]
      BY <2>3, <2>4, <2>8
    <3>2. Len(v) <= Len(a) /\ (\A i \in 1..Len(v) : v[i].obj \in O)
      <4>1. Len(v) <= Len(a)
        BY <2>1, <2>4, <2>n, <3>1
      <4>2. ASSUME NEW i \in 1..Len(v) PROVE v[i].obj \in O
        <5>1. i = Len(u) + 1 \/ i \in 1..Len(u)
          BY <2>n, <3>1
        <5> QED BY <5>1, <2>4, <2>8, <3>1
      <4> QED BY <4>1, <4>2
    <3>3. Within(v, a)
      <4> SUFFICES ASSUME NEW i \in 1..Len(v) PROVE \E j \in 1..Len(a) : v[i] = a[j]
        BY DEF Within
      <4>1. CASE i = Len(u) + 1
        BY <4>1, <2>1, <3>1
      <4>2. CASE i # Len(u) + 1
        <5>1. i \in 1..Len(u)
          BY <4>2, <3>1, <2>n
        <5> QED BY <5>1, <2>5, <3>1 DEF Within
      <4> QED BY <4>1, <4>2
    <3>4. ASSUME Distinct(a) PROVE Distinct(v)
      <4>1. Distinct(u)
        BY <2>4, <2>6, <3>4
      <4>2. ASSUME NEW i \in 1..Len(u) PROVE u[i].obj # e.obj
        <5>1. PICK j \in 1..Len(t) : u[i] = t[j]
          BY <2>4 DEF Within
        <5>2. a[j] = t[j] /\ j # Len(t) + 1 /\ j \in 1..Len(a) /\ Len(t) + 1 \in 1..Len(a)
          BY <2>1
        <5> QED BY <5>1, <5>2, <2>1, <3>4 DEF Distinct
      <4>7. \A k \in 1..Len(v) : k \in 1..Len(u) \/ k = Len(u) + 1
        BY <3>1, <2>n
      <4> SUFFICES ASSUME NEW i \in 1..Len(v), NEW j \in 1..Len(v), v[i].obj = v[j].obj PROVE i = j
        BY DEF Distinct
      <4>3. CASE i \in 1..Len(u) /\ j \in 1..Len(u)
        BY <4>1, <4>3, <3>1 DEF Distinct
      <4>4. CASE i \notin 1..Len(u) /\ j \notin 1..Len(u)
        BY <4>4, <4>7
      <4>5. CASE i \in 1..Len(u) /\ j \notin 1..Len(u)
        <5>1. j = Len(u) + 1
          BY <4>5, <4>7
        <5> QED BY <5>1, <4>5, <4>2, <3>1
      <4>6. CASE i \notin 1..Len(u) /\ j \in 1..Len(u)
        <5>1. i = Len(u) + 1
          BY <4>6, <4>7
        <5> QED BY <5>1, <4>6, <4>2, <3>1
      <4> QED BY <4>3, <4>4, <4>5, <4>6
    <3> QED BY <3>1, <3>2, <3>3, <3>4, <2>1 DEF a, v, P, S
  <2> QED BY <2>7, <2>8
<1> HIDE DEF S
<1>3. Seq(E) \subseteq S
  BY <1>1, <1>2, SeqInduct
<1> QED BY <1>3 DEF S

(* A filter that separates the objects separates the bytes.                *)
LEMMA OnlySplits ==
    ASSUME NEW O, NEW P, O \intersect P = {}, O \union P = Objects, NEW s \in Seq(Entries)
    PROVE  Total(s) = Total(Only(s, O)) + Total(Only(s, P))
<1> DEFINE Q(t) == Total(t) = Total(Only(t, O)) + Total(Only(t, P))
           S == {t \in Seq(Entries) : Q(t)}
<1>1. <<>> \in S
  <2>1. Q(<<>>)
    BY OnlyEmpty, TotalEmpty
  <2>2. <<>> \in Seq(Entries)
    OBVIOUS
  <2> QED BY <2>1, <2>2
<1>2. ASSUME NEW t \in Seq(Entries), NEW e \in Entries, t \in S PROVE Append(t, e) \in S
  <2> DEFINE a == Append(t, e)
  <2>1. a \in Seq(Entries) /\ Total(a) = Total(t) + Bytes(e)
    BY TotalAppend
  <2>2. /\ Only(t, O) \in Seq(Entries) /\ Only(t, P) \in Seq(Entries)
        /\ Total(t) \in Nat /\ Total(Only(t, O)) \in Nat /\ Total(Only(t, P)) \in Nat
        /\ Bytes(e) \in Nat /\ e.obj \in Objects
    BY OnlyType, TotalNat, EntryTypes
  <2>3. Q(t)
    BY <1>2
  <2>4. CASE e.obj \in O
    <3>1. Only(a, O) = Append(Only(t, O), e) /\ Only(a, P) = Only(t, P)
      BY <2>4, OnlyAppend
    <3>2. Total(Only(a, O)) = Total(Only(t, O)) + Bytes(e)
      BY <3>1, <2>2, TotalAppend
    <3> HIDE DEF a
    <3>3. Q(a)
      BY <2>1, <2>2, <2>3, <3>1, <3>2
    <3> QED BY <3>3, <2>1 DEF a
  <2>5. CASE e.obj \in P
    <3>1. Only(a, P) = Append(Only(t, P), e) /\ Only(a, O) = Only(t, O)
      BY <2>5, OnlyAppend
    <3>2. Total(Only(a, P)) = Total(Only(t, P)) + Bytes(e)
      BY <3>1, <2>2, TotalAppend
    <3> HIDE DEF a
    <3>3. Q(a)
      BY <2>1, <2>2, <2>3, <3>1, <3>2
    <3> QED BY <3>3, <2>1 DEF a
  <2> QED BY <2>2, <2>4, <2>5
<1> HIDE DEF S
<1>3. Seq(Entries) \subseteq S
  BY <1>1, <1>2, SeqInduct
<1> QED BY <1>3 DEF S

(* Without takes off the one entry of an object, if there is one.          *)
LEMMA WithoutTotal ==
    ASSUME NEW o, NEW s \in Seq(Entries), Distinct(s)
    PROVE  /\ (\A i \in 1..Len(s) : s[i].obj # o) => Total(Without(s, o)) = Total(s)
           /\ \A i \in 1..Len(s) : s[i].obj = o => Total(s) = Total(Without(s, o)) + Bytes(s[i])
<1> DEFINE A(t) == (\A i \in 1..Len(t) : t[i].obj # o) => Total(Without(t, o)) = Total(t)
           B(t) == Distinct(t) => \A i \in 1..Len(t) :
                      t[i].obj = o => Total(t) = Total(Without(t, o)) + Bytes(t[i])
           S == {t \in Seq(Entries) : A(t) /\ B(t)}
<1>1. <<>> \in S
  <2>1. A(<<>>)
    BY OnlyEmpty DEF Without
  <2>2. <<>> \in Seq(Entries) /\ B(<<>>)
    OBVIOUS
  <2> QED BY <2>1, <2>2
<1>2. ASSUME NEW t \in Seq(Entries), NEW e \in Entries, t \in S PROVE Append(t, e) \in S
  <2> DEFINE a == Append(t, e)
             u == Without(t, o)
             v == Without(a, o)
  <2>1. /\ a \in Seq(Entries) /\ Len(a) = Len(t) + 1 /\ Len(t) \in Nat
        /\ a[Len(t) + 1] = e /\ \A i \in 1..Len(t) : a[i] = t[i]
    OBVIOUS
  <2>2. Total(a) = Total(t) + Bytes(e)
    BY TotalAppend
  <2>3. u \in Seq(Entries) /\ Total(t) \in Nat /\ Total(u) \in Nat /\ Bytes(e) \in Nat /\ e.obj \in Objects
    BY OnlyType, TotalNat, EntryTypes DEF Without
  <2>4. v = IF e.obj # o THEN Append(u, e) ELSE u
    BY <2>3, OnlyAppend DEF Without
  <2>5. A(t) /\ B(t)
    BY <1>2
  <2> HIDE DEF a, u, v, S
  <2>6. \A i \in 1..Len(a) : i \in 1..Len(t) \/ i = Len(t) + 1
    BY <2>1
  <2>r. 1..Len(t) \subseteq 1..Len(a) /\ Len(t) + 1 \in 1..Len(a) /\ Len(t) + 1 \notin 1..Len(t)
    BY <2>1
  <2>d. Distinct(a) => Distinct(t)
    BY <2>1, <2>r DEF Distinct
  <2>7. CASE e.obj = o
    <3>1. v = u
      BY <2>4, <2>7
    <3>2. ~(\A i \in 1..Len(a) : a[i].obj # o)
      BY <2>1, <2>r, <2>7
    <3>3. ASSUME Distinct(a), NEW i \in 1..Len(a), a[i].obj = o PROVE Total(a) = Total(v) + Bytes(a[i])
      <4>1. i = Len(t) + 1
        BY <3>3, <2>1, <2>r, <2>7 DEF Distinct
      <4>2. \A j \in 1..Len(t) : t[j].obj # o
        BY <3>3, <2>1, <2>r, <2>7 DEF Distinct
      <4>3. Total(u) = Total(t)
        BY <4>2, <2>5 DEF u
      <4> QED BY <2>1, <2>2, <3>1, <4>1, <4>3
    <3>4. A(a) /\ B(a)
      BY <3>2, <3>3 DEF v
    <3> QED BY <3>4, <2>1 DEF a, S
  <2>8. CASE e.obj # o
    <3>1. v = Append(u, e)
      BY <2>4, <2>8
    <3>2. Total(v) = Total(u) + Bytes(e)
      BY <3>1, <2>3, TotalAppend
    <3>3. ASSUME \A i \in 1..Len(a) : a[i].obj # o PROVE Total(v) = Total(a)
      <4>1. \A i \in 1..Len(t) : t[i].obj # o
        BY <3>3, <2>1, <2>r
      <4>2. Total(u) = Total(t)
        BY <4>1, <2>5 DEF u
      <4> QED BY <4>2, <3>2, <2>2
    <3>4. ASSUME Distinct(a), NEW i \in 1..Len(a), a[i].obj = o PROVE Total(a) = Total(v) + Bytes(a[i])
      <4>1. i \in 1..Len(t) /\ a[i] = t[i]
        BY <3>4, <2>1, <2>6, <2>8
      <4>2. Total(t) = Total(u) + Bytes(t[i])
        BY <4>1, <3>4, <2>d, <2>5 DEF u
      <4>3. Bytes(a[i]) \in Nat
        BY <2>1, EntryTypes
      <4>4. (Total(u) + Bytes(a[i])) + Bytes(e) = (Total(u) + Bytes(e)) + Bytes(a[i])
        BY <4>3, <2>3
      <4> QED BY <4>1, <4>2, <4>4, <3>2, <2>2, Zenon
    <3>5. A(a) /\ B(a)
      BY <3>3, <3>4 DEF v
    <3> QED BY <3>5, <2>1 DEF a, S
  <2> QED BY <2>7, <2>8
<1> HIDE DEF S
<1>3. Seq(Entries) \subseteq S
  BY <1>1, <1>2, SeqInduct
<1>4. A(s) /\ B(s)
  BY <1>3 DEF S
<1> QED BY <1>4

(* What eviction keeps: a nonempty prefix, a single entry or within the    *)
(* budget.                                                                 *)
LEMMA KeptPrefix ==
    ASSUME NEW s \in Seq(Entries), s # <<>>
    PROVE  \E n \in 1..Len(s) : Kept(s) = SubSeq(s, 1, n) /\ (n = 1 \/ Total(Kept(s)) <= MaxBytes)
<1> DEFINE fits == {n \in 1..Len(s) : n = 1 \/ Total(SubSeq(s, 1, n)) <= MaxBytes}
           n == CHOOSE n \in fits : \A k \in fits : k <= n
<1>1. Len(s) \in Nat /\ Len(s) # 0
  OBVIOUS
<1>2. fits \in SUBSET Nat /\ 1 \in fits /\ \A k \in fits : k <= Len(s)
  BY <1>1
<1>3. Kept(s) = SubSeq(s, 1, n)
  BY DEF Kept
<1> HIDE DEF fits
<1>4. \E i \in fits : \A k \in fits : k <= i
  BY <1>1, <1>2, Greatest
<1>5. n \in fits
  BY <1>4
<1> HIDE DEF n
<1>6. n \in 1..Len(s) /\ (n = 1 \/ Total(SubSeq(s, 1, n)) <= MaxBytes)
  BY <1>5 DEF fits
<1> QED BY <1>3, <1>6

-----------------------------------------------------------------------------
(* The cache is a sequence of entries with distinct objects.               *)
CacheTypes == order \in Seq(Entries) /\ Distinct(order)

(* An entry is its object and its slice.                                   *)
LEMMA EntryFields ==
    /\ \A e \in Entries : e = [obj |-> e.obj, data |-> e.data]
    /\ \A o \in Objects, d \in Slices :
          LET e == [obj |-> o, data |-> d] IN e \in Entries /\ e.obj = o /\ e.data = d
BY DEF Entries

(* DataOf finds the slice of the object's entry.                           *)
LEMMA DataOfEntry ==
    ASSUME order \in Seq(Entries), NEW o, Cached(o)
    PROVE  \E i \in 1..Len(order) : order[i].obj = o /\ DataOf(o) = order[i].data
<1>1. DOMAIN order = 1..Len(order)
  OBVIOUS
<1> DEFINE i == CHOOSE i \in DOMAIN order : order[i].obj = o
<1>2. i \in DOMAIN order /\ order[i].obj = o
  BY DEF Cached
<1>3. DataOf(o) = order[i].data
  BY DEF DataOf
<1> HIDE DEF i
<1> QED BY <1>1, <1>2, <1>3

(* The sequence with one entry more in front.                              *)
LEMMA Prepended ==
    ASSUME NEW E, NEW e \in E, NEW w \in Seq(E), NEW s, s = <<e>> \o w
    PROVE  /\ s \in Seq(E) /\ Len(s) = Len(w) + 1 /\ s[1] = e
           /\ \A i \in 1..Len(w) : s[i + 1] = w[i]
<1>1. s \in Seq(E) /\ Len(s) = Len(w) + 1 /\ Len(w) \in Nat
  OBVIOUS
<1>2. s[1] = e
  OBVIOUS
<1>3. ASSUME NEW i \in 1..Len(w) PROVE s[i + 1] = w[i]
  OBVIOUS
<1> QED BY <1>1, <1>2, <1>3

(* An entry of an object in front of the others' entries.                  *)
Front(o, d) == <<[obj |-> o, data |-> d]>> \o Without(order, o)

(* Every entry of t is one of s or the entry of o with slice d.            *)
WithinOr(t, s, o, d) ==
    \A i \in 1..Len(t) : t[i] = [obj |-> o, data |-> d] \/ \E j \in 1..Len(s) : t[i] = s[j]

(* The types, the bytes and the entries of Front.                          *)
LEMMA InFront ==
    ASSUME CacheTypes, NEW o \in Objects, NEW d \in Slices
    PROVE  LET s == Front(o, d) IN
           /\ s \in Seq(Entries) /\ s # <<>> /\ Distinct(s)
           /\ Total(s) = SizeOf[d.body] + Total(Without(order, o))
           /\ WithinOr(s, order, o, d)
           /\ (Len(order) = 1 /\ Cached(o)) => Len(s) = 1
<1> DEFINE e == [obj |-> o, data |-> d]
           w == Without(order, o)
           s == Front(o, d)
<1>1. e \in Entries /\ e.obj = o /\ Bytes(e) = SizeOf[d.body]
  BY EntryFields DEF Bytes
<1>2. /\ w \in Seq(Entries) /\ Len(w) \in Nat /\ Within(w, order) /\ Distinct(w) /\ Len(w) <= Len(order)
      /\ \A i \in 1..Len(w) : w[i].obj # o
  <2>1. \A i \in 1..Len(w) : w[i].obj \in Objects \ {o}
    BY OnlyType DEF CacheTypes, Without
  <2>2. w \in Seq(Entries) /\ Within(w, order) /\ Distinct(w) /\ Len(w) <= Len(order)
    BY OnlyType DEF CacheTypes, Without
  <2> QED BY <2>1, <2>2
<1>3. s = <<e>> \o w
  BY DEF Front
<1> HIDE DEF e, w, s
<1>4. /\ s \in Seq(Entries) /\ Len(s) = Len(w) + 1 /\ s[1] = e
      /\ \A i \in 1..Len(w) : s[i + 1] = w[i]
  BY <1>1, <1>2, <1>3, Prepended
<1>5. \A i \in 1..Len(s) : i = 1 \/ (i - 1 \in 1..Len(w) /\ s[i] = w[i - 1])
  BY <1>2, <1>4
<1>6. Distinct(s)
  <2> SUFFICES ASSUME NEW i \in 1..Len(s), NEW j \in 1..Len(s), s[i].obj = s[j].obj PROVE i = j
    BY DEF Distinct
  <2>1. CASE i = 1 /\ j = 1
    BY <2>1
  <2>2. CASE i = 1 /\ j # 1
    BY <2>2, <1>1, <1>2, <1>4, <1>5
  <2>3. CASE i # 1 /\ j = 1
    BY <2>3, <1>1, <1>2, <1>4, <1>5
  <2>4. CASE i # 1 /\ j # 1
    <3>1. /\ i - 1 \in 1..Len(w) /\ s[i] = w[i - 1]
          /\ j - 1 \in 1..Len(w) /\ s[j] = w[j - 1]
      BY <2>4, <1>5
    <3>2. Distinct(w)
      BY <1>2
    <3>3. i - 1 = j - 1
      BY <3>1, <3>2, Zenon DEF Distinct
    <3> QED BY <3>3
  <2> QED BY <2>1, <2>2, <2>3, <2>4
<1>7. Total(s) = SizeOf[d.body] + Total(w)
  BY <1>1, <1>2, <1>3, TotalPrepend
<1>8. ASSUME NEW i \in 1..Len(s)
      PROVE  s[i] = e \/ \E j \in 1..Len(order) : s[i] = order[j]
  <2>1. CASE i = 1
    BY <2>1, <1>4
  <2>2. CASE i # 1
    <3>1. i - 1 \in 1..Len(w) /\ s[i] = w[i - 1]
      BY <2>2, <1>5
    <3>2. PICK j \in 1..Len(order) : w[i - 1] = order[j]
      BY <3>1, <1>2 DEF Within
    <3> QED BY <3>1, <3>2, <1>2
  <2> QED BY <2>1, <2>2
<1>9. ASSUME Len(order) = 1, Cached(o) PROVE Len(s) = 1
  <2>1. PICK i \in 1..Len(order) : order[i].obj = o
    BY DataOfEntry, <1>9 DEF CacheTypes
  <2>2. order[1].obj = o
    BY <2>1, <1>9
  <2>3. ASSUME Len(w) # 0 PROVE FALSE
    <3>1. 1 \in 1..Len(w)
      BY <2>3, <1>2
    <3>2. PICK j \in 1..Len(order) : w[1] = order[j]
      BY <3>1, <1>2 DEF Within
    <3>3. j = 1
      BY <3>2, <1>9
    <3> QED BY <3>1, <3>2, <3>3, <2>2, <1>2
  <2> QED BY <2>3, <1>4
<1>10. s # <<>>
  BY <1>4, <1>2
<1>11. WithinOr(s, order, o, d)
  BY <1>8 DEF WithinOr, e
<1> QED BY <1>4, <1>6, <1>7, <1>9, <1>10, <1>11 DEF w, s

(* get moves an entry and changes nothing else.                            *)
LEMMA TouchedCache ==
    ASSUME CacheTypes, NEW o \in Objects, Cached(o)
    PROVE  /\ Touched(o) \in Seq(Entries) /\ Distinct(Touched(o)) /\ Within(Touched(o), order)
           /\ Total(Touched(o)) = Total(order) /\ (Len(order) = 1 => Len(Touched(o)) = 1)
           /\ DataOf(o) \in Slices
<1>1. PICK i \in 1..Len(order) : order[i].obj = o /\ DataOf(o) = order[i].data
  BY DataOfEntry DEF CacheTypes
<1>2. order[i] \in Entries /\ DataOf(o) \in Slices /\ order[i] = [obj |-> o, data |-> DataOf(o)]
  <2>1. order[i] \in Entries
    BY DEF CacheTypes
  <2> QED BY <2>1, <1>1, EntryTypes, EntryFields
<1> DEFINE s == Front(o, DataOf(o))
<1>3. Touched(o) = s
  BY DEF Touched, Front
<1>4. /\ s \in Seq(Entries) /\ Distinct(s)
      /\ Total(s) = SizeOf[DataOf(o).body] + Total(Without(order, o))
      /\ (Len(order) = 1 => Len(s) = 1)
  BY <1>2, InFront
<1>5. WithinOr(s, order, o, DataOf(o))
  BY <1>2, InFront
<1> HIDE DEF s
<1>6. Within(s, order)
  BY <1>2, <1>5 DEF Within, WithinOr
<1>7. Total(order) = Total(Without(order, o)) + Bytes(order[i])
  BY <1>1, WithoutTotal DEF CacheTypes
<1>8. Total(Without(order, o)) \in Nat /\ Bytes(order[i]) \in Nat /\ Bytes(order[i]) = SizeOf[DataOf(o).body]
  BY <1>1, <1>2, EntryTypes, OnlyType, TotalNat DEF CacheTypes, Without, Bytes
<1>9. Total(s) = Total(order)
  BY <1>4, <1>7, <1>8
<1> QED BY <1>2, <1>3, <1>4, <1>6, <1>9

(* A prefix keeps types, distinctness and entries.                         *)
LEMMA PrefixCache ==
    ASSUME NEW s \in Seq(Entries), Distinct(s), NEW n \in 1..Len(s)
    PROVE  /\ SubSeq(s, 1, n) \in Seq(Entries) /\ Len(SubSeq(s, 1, n)) = n
           /\ Within(SubSeq(s, 1, n), s) /\ Distinct(SubSeq(s, 1, n))
<1> DEFINE t == SubSeq(s, 1, n)
<1>1. t \in Seq(Entries) /\ Len(t) = n /\ n \in Nat /\ \A i \in 1..n : t[i] = s[i] /\ i \in 1..Len(s)
  OBVIOUS
<1> HIDE DEF t
<1>2. Within(t, s)
  BY <1>1 DEF Within
<1>3. Distinct(t)
  BY <1>1 DEF Distinct
<1> QED BY <1>1, <1>2, <1>3 DEF t

(* put keeps the byte count and the budget.                                *)
LEMMA PutCache ==
    ASSUME CacheTypes, curBytes = Total(order), NEW o \in Objects, NEW d \in Slices, put(o, d)
    PROVE  /\ CacheTypes' /\ curBytes' = Total(order') /\ (curBytes' <= MaxBytes \/ Len(order') = 1)
           /\ WithinOr(order', order, o, d)
<1> DEFINE s   == Front(o, d)
           old == IF Cached(o) THEN SizeOf[DataOf(o).body] ELSE 0
<1>1. order' = Kept(s) /\ curBytes' = curBytes + SizeOf[d.body] - old - (Total(s) - Total(Kept(s)))
  BY DEF put, Front
<1>2. /\ s \in Seq(Entries) /\ s # <<>> /\ Distinct(s)
      /\ Total(s) = SizeOf[d.body] + Total(Without(order, o))
  BY InFront
<1>3. WithinOr(s, order, o, d)
  BY InFront
<1>4. /\ Without(order, o) \in Seq(Entries) /\ Total(Without(order, o)) \in Nat
      /\ SizeOf[d.body] \in Nat
  BY OnlyType, TotalNat, EntryTypes, HubAssumption DEF CacheTypes, Without
<1>5. Total(order) = Total(Without(order, o)) + old /\ old \in Nat
  <2>1. CASE Cached(o)
    <3>1. PICK i \in 1..Len(order) : order[i].obj = o /\ DataOf(o) = order[i].data
      BY <2>1, DataOfEntry DEF CacheTypes
    <3>2. Bytes(order[i]) \in Nat /\ Bytes(order[i]) = old
      BY <2>1, <3>1, EntryTypes DEF CacheTypes, Bytes
    <3> QED BY <3>1, <3>2, WithoutTotal DEF CacheTypes
  <2>2. CASE ~Cached(o)
    <3>1. \A i \in 1..Len(order) : order[i].obj # o
      BY <2>2 DEF Cached, CacheTypes
    <3>2. Total(Without(order, o)) = Total(order)
      BY <3>1, WithoutTotal DEF CacheTypes
    <3> QED BY <2>2, <3>2, <1>4
  <2> QED BY <2>1, <2>2
<1> HIDE DEF s, old
<1>6. PICK n \in 1..Len(s) : Kept(s) = SubSeq(s, 1, n) /\ (n = 1 \/ Total(Kept(s)) <= MaxBytes)
  BY <1>2, KeptPrefix
<1>7. Kept(s) \in Seq(Entries) /\ Len(Kept(s)) = n /\ Within(Kept(s), s) /\ Distinct(Kept(s))
  BY <1>2, <1>6, PrefixCache
<1>8. Total(Kept(s)) \in Nat
  BY <1>7, TotalNat
<1>9. curBytes' = Total(Kept(s))
  BY <1>1, <1>2, <1>4, <1>5, <1>8
<1>10. WithinOr(order', order, o, d)
  <2> SUFFICES ASSUME NEW i \in 1..Len(order')
               PROVE  \/ order'[i] = [obj |-> o, data |-> d]
                      \/ \E j \in 1..Len(order) : order'[i] = order[j]
    BY DEF WithinOr
  <2>1. PICK k \in 1..Len(s) : order'[i] = s[k]
    BY <1>1, <1>7 DEF Within
  <2> QED BY <2>1, <1>3 DEF WithinOr
<1>11. CacheTypes'
  BY <1>1, <1>7 DEF CacheTypes
<1>12. curBytes' = Total(order')
  BY <1>1, <1>9
<1>13. curBytes' <= MaxBytes \/ Len(order') = 1
  BY <1>1, <1>6, <1>7, <1>9
<1> QED BY <1>10, <1>11, <1>12, <1>13

-----------------------------------------------------------------------------

(* The types of the singleflight part of load.                             *)
FlightTypes ==
    /\ inflight \in [Objects -> Clients \union {None}]
    /\ DOMAIN pc = Clients /\ DOMAIN obj = Clients /\ DOMAIN call = Clients
    /\ \A r \in Clients : pc[r] # "idle" => obj[r] \in Objects

(* The singleflight invariant is inductive with these types alone.         *)
FlightInv == FlightTypes /\ FlightHasLeader

(* A hub starts with nothing in flight.                                    *)
LEMMA FlightInit == Init => FlightInv
BY HubAssumption DEF Init, FlightInv, FlightTypes, FlightHasLeader, Objects

(* A request that neither leads nor is waited for moves on alone.          *)
LEMMA BystanderStep ==
    ASSUME FlightInv, NEW r \in Clients, NEW s,
           pc[r] \notin {"read", "land", "finish"},
           s \notin {"wait", "read", "land", "finish"},
           pc' = [pc EXCEPT ![r] = s], inflight' = inflight,
           obj' \in {obj, [obj EXCEPT ![r] = None]} \/ \E o \in Objects : obj' = [obj EXCEPT ![r] = o],
           call' = call \/ call' = [call EXCEPT ![r] = None],
           s # "idle" => obj'[r] \in Objects
    PROVE  FlightInv'
<1>1. \A q \in Clients : q # r => pc'[q] = pc[q] /\ obj'[q] = obj[q] /\ call'[q] = call[q]
  BY DEF FlightInv, FlightTypes
<1>2. pc'[r] = s /\ DOMAIN pc' = Clients /\ DOMAIN obj' = Clients /\ DOMAIN call' = Clients
  BY DEF FlightInv, FlightTypes
<1>3. FlightTypes'
  BY <1>1, <1>2 DEF FlightInv, FlightTypes
<1>4. ASSUME NEW o \in Objects, NEW q \in Clients
      PROVE  inflight'[o] = q <=> pc'[q] \in {"read", "land"} /\ obj'[q] = o
  BY <1>1, <1>2 DEF FlightInv, FlightHasLeader
<1>5. ASSUME NEW q \in Clients, pc'[q] = "wait"
      PROVE  /\ call'[q] \in Clients \ {q}
             /\ pc'[call'[q]] \in {"read", "land", "finish"}
             /\ obj'[call'[q]] = obj'[q]
  <2>1. q # r /\ pc[q] = "wait" /\ call'[q] = call[q] /\ obj'[q] = obj[q]
    BY <1>1, <1>2, <1>5
  <2>2. /\ call[q] \in Clients \ {q} /\ pc[call[q]] \in {"read", "land", "finish"}
        /\ obj[call[q]] = obj[q]
    BY <2>1 DEF FlightInv, FlightHasLeader
  <2>3. call[q] # r
    BY <2>2
  <2> QED BY <1>1, <2>1, <2>2, <2>3
<1> QED BY <1>3, <1>4, <1>5 DEF FlightInv, FlightHasLeader

(* Join waits for the request the inflight map names.                      *)
LEMMA JoinStep == ASSUME FlightInv, NEW r \in Clients, Join(r) PROVE FlightInv'
<1> USE DEF Join, Goto
<1> DEFINE l == inflight[obj[r]]
<1>1. obj[r] \in Objects /\ l \in Clients /\ pc[l] \in {"read", "land"} /\ obj[l] = obj[r]
  BY DEF FlightInv, FlightTypes, FlightHasLeader
<1>2. l # r
  BY <1>1
<1>3. FlightTypes'
  BY <1>1 DEF FlightInv, FlightTypes
<1>4. FlightHasLeader'
  BY <1>1, <1>2 DEF FlightInv, FlightTypes, FlightHasLeader
<1> QED BY <1>3, <1>4 DEF FlightInv

(* A leader finds no read in flight and enters itself.                     *)
LEMMA LeadStep == ASSUME FlightInv, NEW r \in Clients, Lead(r) PROVE FlightInv'
<1> USE HubAssumption DEF Lead, Goto
<1>1. obj[r] \in Objects /\ None \notin Clients
  BY DEF FlightInv, FlightTypes
<1>2. FlightTypes'
  BY <1>1 DEF FlightInv, FlightTypes
<1>3. FlightHasLeader'
  BY <1>1 DEF FlightInv, FlightTypes, FlightHasLeader
<1> QED BY <1>2, <1>3 DEF FlightInv

(* The leader leaves the map, and those who joined still wait for it.      *)
LEMMA LandStep == ASSUME FlightInv, NEW r \in Clients, Land(r) PROVE FlightInv'
<1> USE HubAssumption DEF Land, Goto
<1>1. obj[r] \in Objects /\ None \notin Clients
  BY DEF FlightInv, FlightTypes
<1>2. FlightTypes'
  BY <1>1 DEF FlightInv, FlightTypes
<1>3. FlightHasLeader'
  BY <1>1 DEF FlightInv, FlightTypes, FlightHasLeader
<1> QED BY <1>2, <1>3 DEF FlightInv

(* The read itself changes neither the map nor who waits.                  *)
LEMMA ReadStep == ASSUME FlightInv, NEW r \in Clients, Read(r) PROVE FlightInv'
<1> USE DEF Read, Goto
<1>1. FlightTypes'
  BY DEF FlightInv, FlightTypes
<1>2. FlightHasLeader'
  BY DEF FlightInv, FlightTypes, FlightHasLeader
<1> QED BY <1>1, <1>2 DEF FlightInv

(* wg.Done wakes everyone who waits for the leader that finishes.          *)
LEMMA FinishStep == ASSUME FlightInv, NEW r \in Clients, Finish(r) PROVE FlightInv'
<1>1. /\ pc[r] = "finish" /\ UNCHANGED <<inflight, obj, call>>
      /\ pc' = [q \in Clients |->
                  IF pc[q] = "wait" /\ call[q] = r THEN "woken"
                  ELSE IF q = r THEN "serve" ELSE pc[q]]
  BY DEF Finish, Done
<1>2. FlightTypes'
  BY <1>1 DEF FlightInv, FlightTypes
<1>3. FlightHasLeader'
  BY <1>1 DEF FlightInv, FlightTypes, FlightHasLeader
<1> QED BY <1>2, <1>3 DEF FlightInv

(* Every step of a request, of the trigger and of a publisher keeps the    *)
(* singleflight invariant.                                                 *)
LEMMA FlightStep == FlightInv /\ [Next]_vars => FlightInv'
<1> SUFFICES ASSUME FlightInv, [Next]_vars PROVE FlightInv'
    OBVIOUS
<1>t. DOMAIN obj = Clients /\ \A r \in Clients : pc[r] # "idle" => obj[r] \in Objects
  BY DEF FlightInv, FlightTypes
<1>1. ASSUME NEW r \in Clients, Lookup(r) PROVE FlightInv'
  <2>1. PICK s \in {"serve", "fly"} : pc' = [pc EXCEPT ![r] = s]
    BY <1>1 DEF Lookup, Goto
  <2>2. pc[r] = "lookup" /\ UNCHANGED <<inflight, obj, call>>
    BY <1>1 DEF Lookup
  <2> QED BY <2>1, <2>2, <1>t, BystanderStep
<1>2. ASSUME NEW r \in Clients, Wake(r) PROVE FlightInv'
  <2>1. /\ pc[r] = "woken" /\ UNCHANGED <<inflight, obj>>
        /\ pc' = [pc EXCEPT ![r] = "serve"] /\ call' = [call EXCEPT ![r] = None]
    BY <1>2 DEF Wake, Goto
  <2> QED BY <2>1, <1>t, BystanderStep
<1>3. ASSUME NEW r \in Clients, Serve(r) PROVE FlightInv'
  <2>1. /\ pc[r] = "serve" /\ UNCHANGED <<inflight, call>>
        /\ pc' = [pc EXCEPT ![r] = "idle"] /\ obj' = [obj EXCEPT ![r] = None]
    BY <1>3 DEF Serve, Goto
  <2> QED BY <2>1, BystanderStep
<1>4. ASSUME NEW r \in Clients, NEW o \in Objects, Arrive(r, o) PROVE FlightInv'
  <2>1. /\ pc[r] = "idle" /\ UNCHANGED <<inflight, call>>
        /\ pc' = [pc EXCEPT ![r] = "lookup"] /\ obj' = [obj EXCEPT ![r] = o]
    BY <1>4 DEF Arrive, Goto
  <2>2. obj'[r] \in Objects
    BY <2>1, <1>t
  <2> QED BY <2>1, <2>2, BystanderStep
<1>5. ASSUME NEW r \in Clients, Request(r) PROVE FlightInv'
  BY <1>1, <1>2, <1>3, <1>5, JoinStep, LeadStep, LandStep, ReadStep, FinishStep DEF Request
<1>6. ASSUME UNCHANGED requests PROVE FlightInv'
  BY <1>6 DEF requests, FlightInv, FlightTypes, FlightHasLeader
<1>7. ASSUME Trigger PROVE FlightInv'
  BY <1>6, <1>7 DEF Trigger, ReadDir, Stat, StatFails, Primed, ReadFails, AnnounceFile, Invalidate
<1>8. ASSUME NEW m \in Metas, NEW b \in Releases, Write(m, b) PROVE FlightInv'
  BY <1>6, <1>8 DEF Write
<1>9. CASE UNCHANGED vars
  BY <1>6, <1>9 DEF vars
<1> QED BY <1>4, <1>5, <1>7, <1>8, <1>9 DEF Next

(* Whatever requests, invalidations and writes interleave, an inflight     *)
(* entry has a reader and every waiter waits for a request that will still *)
(* call wg.Done: nobody is left behind.                                    *)
THEOREM HubFlightHasLeader == Spec => []FlightHasLeader
<1>1. FlightInv => FlightHasLeader
  BY DEF FlightInv
<1> QED BY <1>1, FlightInit, FlightStep, PTL DEF Spec

-----------------------------------------------------------------------------
(* The values load works on, and the accounts of the cache.                *)
LoadTypes ==
    /\ got \in [Clients -> Slices \union {None}]
    /\ spoil \in [Clients -> BOOLEAN]
    /\ file \in [Objects -> Bodies \union {None}]

Account == curBytes = Total(order) /\ (curBytes <= MaxBytes \/ Len(order) = 1)

CacheInv == FlightInv /\ LoadTypes /\ CacheTypes /\ Account

(* A copy is the same body, held by nobody else.                           *)
LEMMA CopyType ==
    ASSUME NEW d \in Slices
    PROVE  Copy(d) \in Slices /\ Copy(d).body = d.body /\ Copy(d).bad = d.bad /\ Copy(d).lent = None
BY DEF Copy, Slices

(* A request gives back the slices it was lent, and only those; a bit of   *)
(* them is flipped only when it is one the fault plan asks for.            *)
LEMMA ReturnedType ==
    ASSUME NEW r \in Clients, spoil[r] \in BOOLEAN, NEW d \in Slices
    PROVE  /\ Returned(d, r) \in Slices /\ Returned(d, r).body = d.body
           /\ Returned(d, r).bad => d.bad \/ (d.lent = r /\ spoil[r])
           /\ Returned(d, r).lent \in {None, d.lent} \ {r}
<1>1. d # None /\ None \notin Clients
  BY HubAssumption
<1>2. d.body \in Bodies /\ d.bad \in BOOLEAN /\ d.lent \in Clients \union {None}
  BY EntryTypes
<1>3. CASE d.lent # r
  BY <1>1, <1>2, <1>3 DEF Returned
<1>4. CASE d.lent = r
  <2> DEFINE b == d.bad # spoil[r]
             x == [body |-> d.body, bad |-> b, lent |-> None]
  <2>1. Returned(d, r) = x
    BY <1>1, <1>4 DEF Returned
  <2>2. b \in BOOLEAN /\ (b => d.bad \/ spoil[r])
    BY <1>2, Zenon
  <2> HIDE DEF b
  <2>3. x \in Slices /\ x.body = d.body /\ x.bad = b /\ x.lent = None
    BY <1>2, <2>2 DEF Slices
  <2> QED BY <1>1, <1>4, <2>1, <2>2, <2>3
<1> QED BY <1>3, <1>4

(* A hub starts with an empty cache.                                       *)
LEMMA CacheInit == Init => CacheInv
<1> SUFFICES ASSUME Init PROVE CacheInv
  OBVIOUS
<1>1. FlightInv
  BY FlightInit
<1>2. LoadTypes
  <2>1. Releases \subseteq Bodies
    BY DEF Releases
  <2>2. PICK b \in [Metas -> Releases \union {None}] :
           file = [o \in Objects |-> IF o \in Metas THEN b[o] ELSE ChunkBody[o]]
    BY DEF Init
  <2>3. file \in [Objects -> Bodies \union {None}]
    BY <2>1, <2>2, HubAssumption DEF Objects
  <2>4. got \in [Clients -> Slices \union {None}] /\ spoil \in [Clients -> BOOLEAN]
    BY DEF Init
  <2> QED BY <2>3, <2>4 DEF LoadTypes
<1>3. order = <<>> /\ curBytes = 0
  BY DEF Init
<1>4. CacheTypes
  BY <1>3 DEF CacheTypes, Distinct
<1>5. Account
  BY <1>3, TotalEmpty, HubAssumption DEF Account
<1> QED BY <1>1, <1>2, <1>4, <1>5 DEF CacheInv

(* get leaves the accounts alone.                                          *)
LEMMA TouchStep ==
    ASSUME CacheInv, NEW o \in Objects, Cached(o), order' = Touched(o), curBytes' = curBytes
    PROVE  CacheTypes' /\ Account' /\ Within(order', order)
<1> DEFINE t == Touched(o)
<1>1. CacheTypes /\ Account
  BY DEF CacheInv
<1>2. /\ t \in Seq(Entries) /\ Distinct(t) /\ Within(t, order)
      /\ Total(t) = Total(order) /\ (Len(order) = 1 => Len(t) = 1)
  BY <1>1, TouchedCache
<1> HIDE DEF t
<1>3. order' = t
  BY DEF t
<1> QED BY <1>1, <1>2, <1>3 DEF CacheTypes, Account

(* The slices of the served request change, and no entry is added.         *)
LEMMA ServeCache ==
    ASSUME CacheInv, NEW r \in Clients, Serve(r)
    PROVE  /\ CacheTypes' /\ Account' /\ Len(order') = Len(order)
           /\ \A i \in 1..Len(order') : /\ order'[i].obj = order[i].obj
                                        /\ order'[i].data = Returned(order[i].data, r)
<1> DEFINE n == Len(order)
           New(i) == [order[i] EXCEPT !.data = Returned(@, r)]
<1>1. order \in Seq(Entries) /\ Distinct(order) /\ Account /\ spoil[r] \in BOOLEAN
  BY DEF CacheInv, CacheTypes, LoadTypes
<1>2. order' = [i \in 1..n |-> New(i)] /\ curBytes' = curBytes /\ n \in Nat
  BY <1>1 DEF Serve
<1>3. ASSUME NEW i \in 1..n
      PROVE  /\ New(i) \in Entries /\ New(i).obj = order[i].obj
             /\ New(i).data = Returned(order[i].data, r) /\ Bytes(New(i)) = Bytes(order[i])
  <2>1. order[i] \in Entries /\ order[i].obj \in Objects /\ order[i].data \in Slices
    BY <1>1, EntryTypes
  <2>2. Returned(order[i].data, r) \in Slices /\ Returned(order[i].data, r).body = order[i].data.body
    BY <1>1, <2>1, ReturnedType
  <2>3. New(i) = [obj |-> order[i].obj, data |-> Returned(order[i].data, r)]
    BY <2>1 DEF Entries
  <2> HIDE DEF New
  <2> QED BY <2>1, <2>2, <2>3, EntryFields DEF Bytes
<1> HIDE DEF New
<1>4. order' \in Seq(Entries) /\ Len(order') = n /\ \A i \in 1..n : order'[i] = New(i)
  <2>1. order' \in [1..n -> Entries]
    BY <1>2, <1>3
  <2> QED BY <1>2, <2>1
<1>5. Distinct(order')
  BY <1>1, <1>3, <1>4 DEF Distinct
<1>6. Total(order') = Total(order)
  BY <1>1, <1>3, <1>4, TotalSame
<1>7. CacheTypes' /\ Account'
  BY <1>1, <1>2, <1>4, <1>5, <1>6 DEF CacheTypes, Account
<1> QED BY <1>3, <1>4, <1>7

(* The announcement keeps the chunks and gives back the bytes of the rest. *)
LEMMA InvalidateCache ==
    ASSUME CacheInv, Invalidate
    PROVE  /\ CacheTypes' /\ Account' /\ Within(order', order)
           /\ \A i \in 1..Len(order') : order'[i].obj \in Chunks
<1> DEFINE c == Only(order, Chunks)
           m == Only(order, Metas)
<1>1. order \in Seq(Entries) /\ Distinct(order) /\ Account
  BY DEF CacheInv, CacheTypes
<1>2. order' = c /\ curBytes' = curBytes - Total(m)
  BY DEF Invalidate
<1>3. /\ c \in Seq(Entries) /\ Len(c) <= Len(order) /\ Within(c, order) /\ Distinct(c)
      /\ \A i \in 1..Len(c) : c[i].obj \in Chunks
  BY <1>1, OnlyType
<1>4. m \in Seq(Entries)
  BY <1>1, OnlyType
<1>5. Total(order) = Total(c) + Total(m)
  BY <1>1, HubAssumption, OnlySplits DEF Objects
<1>6. Total(c) \in Nat /\ Total(m) \in Nat
  BY <1>3, <1>4, TotalNat
<1> HIDE DEF c, m
<1>7. curBytes' = Total(c)
  BY <1>1, <1>2, <1>5, <1>6 DEF Account
<1>8. curBytes' <= MaxBytes \/ Len(c) = 1
  <2>1. CASE curBytes <= MaxBytes
    BY <2>1, <1>1, <1>5, <1>6, <1>7, HubAssumption DEF Account
  <2>2. CASE Len(order) = 1 /\ Len(c) # 1
    <3>1. Len(c) \in Nat /\ Len(c) <= Len(order)
      BY <1>3
    <3>2. Len(c) = 0
      BY <2>2, <3>1
    <3>3. c = <<>>
      BY <3>2, <1>3
    <3> QED BY <3>3, <1>7, TotalEmpty, HubAssumption
  <2> QED BY <2>1, <2>2, <1>1 DEF Account
<1>9. CacheTypes' /\ Account'
  BY <1>2, <1>3, <1>7, <1>8 DEF CacheTypes, Account
<1> QED BY <1>2, <1>3, <1>9

(* No step takes a request's slice or a file out of its type.              *)
LEMMA LoadTypesStep == CacheInv /\ [Next]_vars => LoadTypes'
<1> SUFFICES ASSUME CacheInv, [Next]_vars PROVE LoadTypes'
  OBVIOUS
<1>t. /\ got \in [Clients -> Slices \union {None}] /\ spoil \in [Clients -> BOOLEAN]
      /\ file \in [Objects -> Bodies \union {None}]
      /\ CacheTypes /\ \A r \in Clients : pc[r] # "idle" => obj[r] \in Objects
  BY DEF CacheInv, LoadTypes, FlightInv, FlightTypes
<1>g. ASSUME NEW r \in Clients, NEW d \in Slices \union {None}, got' = [got EXCEPT ![r] = d],
             UNCHANGED <<spoil, file>>
      PROVE  LoadTypes'
  BY <1>g, <1>t DEF LoadTypes
<1>u. ASSUME UNCHANGED <<got, spoil, file>> PROVE LoadTypes'
  BY <1>u, <1>t DEF LoadTypes
<1>1. ASSUME NEW r \in Clients, Lookup(r) PROVE LoadTypes'
  <2>1. obj[r] \in Objects /\ UNCHANGED <<spoil, file>>
    BY <1>1, <1>t DEF Lookup, origin
  <2>2. CASE Cached(obj[r]) /\ got' = [got EXCEPT ![r] = Copy(DataOf(obj[r]))]
    BY <2>1, <2>2, <1>t, <1>g, TouchedCache, CopyType
  <2>3. CASE UNCHANGED got
    BY <2>1, <2>3, <1>u
  <2> QED BY <1>1, <2>2, <2>3 DEF Lookup
<1>2. ASSUME NEW r \in Clients, Read(r) PROVE LoadTypes'
  <2> DEFINE d == IF file[obj[r]] = None THEN None
                  ELSE [body |-> file[obj[r]], bad |-> FALSE, lent |-> r]
  <2>1. obj[r] \in Objects /\ UNCHANGED <<spoil, file>> /\ got' = [got EXCEPT ![r] = d]
    BY <1>2, <1>t DEF Read, origin
  <2>2. d \in Slices \union {None}
    BY <2>1, <1>t DEF Slices
  <2> HIDE DEF d
  <2> QED BY <2>1, <2>2, <1>g
<1>3. ASSUME NEW r \in Clients, Finish(r) PROVE LoadTypes'
  <2>1. /\ UNCHANGED <<spoil, file>>
        /\ got' = [q \in Clients |-> IF q \in {p \in Clients : pc[p] = "wait" /\ call[p] = r}
                                     THEN got[r] ELSE got[q]]
    BY <1>3 DEF Finish, Done, origin
  <2> QED BY <2>1, <1>t DEF LoadTypes
<1>4. ASSUME NEW r \in Clients, Wake(r) PROVE LoadTypes'
  <2>1. obj[r] \in Objects /\ UNCHANGED <<spoil, file>>
    BY <1>4, <1>t DEF Wake, origin
  <2>2. CASE Cached(obj[r]) /\ got' = [got EXCEPT ![r] = Copy(DataOf(obj[r]))]
    BY <2>1, <2>2, <1>t, <1>g, TouchedCache, CopyType
  <2>3. CASE got[r] # None /\ got' = [got EXCEPT ![r] = Copy(got[r])]
    <3>1. got[r] \in Slices
      BY <2>3, <1>t
    <3> QED BY <2>1, <2>3, <3>1, <1>g, CopyType
  <2>4. CASE UNCHANGED got
    BY <2>1, <2>4, <1>u
  <2> QED BY <1>4, <2>2, <2>3, <2>4 DEF Wake
<1>5. ASSUME NEW r \in Clients, Serve(r) PROVE LoadTypes'
  <2>1. /\ UNCHANGED file /\ spoil' = [spoil EXCEPT ![r] = FALSE]
        /\ got' = [[q \in Clients |-> Returned(got[q], r)] EXCEPT ![r] = None]
    BY <1>5 DEF Serve, origin
  <2>2. ASSUME NEW q \in Clients PROVE Returned(got[q], r) \in Slices \union {None}
    <3>1. CASE got[q] = None
      BY <3>1 DEF Returned
    <3>2. CASE got[q] # None
      BY <3>2, <1>t, ReturnedType
    <3> QED BY <3>1, <3>2
  <2>3. got' \in [Clients -> Slices \union {None}]
    BY <2>1, <2>2
  <2> QED BY <2>1, <2>3, <1>t DEF LoadTypes
<1>6. ASSUME NEW r \in Clients, NEW o \in Objects, Arrive(r, o) PROVE LoadTypes'
  <2>1. /\ UNCHANGED <<got, file>>
        /\ spoil' = [spoil EXCEPT ![r] = o \in Chunks /\ chunkNo < CorruptFirst]
    BY <1>6 DEF Arrive, origin
  <2> QED BY <2>1, <1>t, Zenon DEF LoadTypes
<1>7. ASSUME NEW m \in Metas, NEW b \in Releases, Write(m, b) PROVE LoadTypes'
  <2>1. UNCHANGED <<got, spoil>> /\ file' = [file EXCEPT ![m] = b] /\ b \in Bodies
    BY <1>7 DEF Write, requests, Releases
  <2> QED BY <2>1, <1>t DEF LoadTypes
<1>8. ASSUME Trigger PROVE LoadTypes'
  <2>1. UNCHANGED <<got, spoil, file>>
    BY <1>8 DEF Trigger, ReadDir, Stat, StatFails, Primed, ReadFails, AnnounceFile, Invalidate, requests, origin
  <2> QED BY <2>1, <1>u
<1>9. ASSUME NEW r \in Clients, Join(r) \/ Lead(r) \/ Land(r) PROVE LoadTypes'
  <2>1. UNCHANGED <<got, spoil, file>>
    BY <1>9 DEF Join, Lead, Land, origin
  <2> QED BY <2>1, <1>u
<1>10. CASE UNCHANGED vars
  <2>1. UNCHANGED <<got, spoil, file>>
    BY <1>10 DEF vars, requests, origin
  <2> QED BY <2>1, <1>u
<1> QED BY <1>1, <1>2, <1>3, <1>4, <1>5, <1>6, <1>7, <1>8, <1>9, <1>10 DEF Next, Request

(* What a step does to the cache: it moves or drops entries, or it is the  *)
(* end of a read, which adds one, or of a request, which gives back slices. *)
Kind ==
    \/ Within(order', order)
    \/ \E r \in Clients : Finish(r) /\ got[r] # None /\ WithinOr(order', order, obj[r], got[r])
    \/ \E r \in Clients : Serve(r)

(* Every step keeps the cache's types and accounts, in one of these ways.  *)
LEMMA CacheStep == CacheInv /\ [Next]_vars => CacheTypes' /\ Account' /\ Kind
<1> SUFFICES ASSUME CacheInv, [Next]_vars PROVE CacheTypes' /\ Account' /\ Kind
  OBVIOUS
<1>t. /\ CacheTypes /\ Account /\ got \in [Clients -> Slices \union {None}]
      /\ \A r \in Clients : pc[r] # "idle" => obj[r] \in Objects
  BY DEF CacheInv, LoadTypes, FlightInv, FlightTypes
<1>u. ASSUME UNCHANGED <<order, curBytes>> PROVE CacheTypes' /\ Account' /\ Kind
  BY <1>u, <1>t DEF CacheTypes, Account, Kind, Within
<1>1. ASSUME NEW r \in Clients, Lookup(r) PROVE CacheTypes' /\ Account' /\ Kind
  <2>1. obj[r] \in Objects /\ curBytes' = curBytes
    BY <1>1, <1>t DEF Lookup
  <2>2. CASE Cached(obj[r]) /\ order' = Touched(obj[r])
    BY <2>1, <2>2, TouchStep DEF Kind
  <2>3. CASE UNCHANGED order
    BY <2>1, <2>3, <1>u
  <2> QED BY <1>1, <2>2, <2>3 DEF Lookup
<1>2. ASSUME NEW r \in Clients, Wake(r) PROVE CacheTypes' /\ Account' /\ Kind
  <2>1. obj[r] \in Objects /\ curBytes' = curBytes
    BY <1>2, <1>t DEF Wake
  <2>2. CASE Cached(obj[r]) /\ order' = Touched(obj[r])
    BY <2>1, <2>2, TouchStep DEF Kind
  <2>3. CASE UNCHANGED order
    BY <2>1, <2>3, <1>u
  <2> QED BY <1>2, <2>2, <2>3 DEF Wake
<1>3. ASSUME NEW r \in Clients, Finish(r) PROVE CacheTypes' /\ Account' /\ Kind
  <2>1. CASE got[r] = None
    <3>1. UNCHANGED <<order, curBytes>>
      BY <1>3, <2>1 DEF Finish, cache
    <3> QED BY <3>1, <1>u
  <2>2. CASE got[r] # None
    <3>1. put(obj[r], got[r]) /\ obj[r] \in Objects /\ got[r] \in Slices
      BY <1>3, <2>2, <1>t DEF Finish
    <3>2. curBytes = Total(order)
      BY <1>t DEF Account
    <3>3. /\ CacheTypes' /\ curBytes' = Total(order') /\ (curBytes' <= MaxBytes \/ Len(order') = 1)
          /\ WithinOr(order', order, obj[r], got[r])
      BY <3>1, <3>2, <1>t, PutCache
    <3> QED BY <3>3, <2>2, <1>3 DEF Account, Kind
  <2> QED BY <2>1, <2>2
<1>4. ASSUME NEW r \in Clients, Serve(r) PROVE CacheTypes' /\ Account' /\ Kind
  BY <1>4, ServeCache DEF Kind
<1>5. ASSUME NEW r \in Clients, Join(r) \/ Lead(r) \/ Read(r) \/ Land(r) PROVE CacheTypes' /\ Account' /\ Kind
  BY <1>5, <1>u DEF Join, Lead, Read, Land, cache
<1>6. ASSUME NEW r \in Clients, NEW o \in Objects, Arrive(r, o) PROVE CacheTypes' /\ Account' /\ Kind
  BY <1>6, <1>u DEF Arrive, cache
<1>7. ASSUME NEW m \in Metas, NEW b \in Releases, Write(m, b) PROVE CacheTypes' /\ Account' /\ Kind
  BY <1>7, <1>u DEF Write, cache
<1>8. ASSUME Invalidate PROVE CacheTypes' /\ Account' /\ Kind
  BY <1>8, InvalidateCache DEF Kind
<1>9. ASSUME NEW m \in Metas, Stat(m) \/ StatFails(m) PROVE CacheTypes' /\ Account' /\ Kind
  BY <1>9, <1>u DEF Stat, StatFails, cache
<1>10. ASSUME ReadDir \/ Primed \/ ReadFails \/ AnnounceFile PROVE CacheTypes' /\ Account' /\ Kind
  BY <1>10, <1>u DEF ReadDir, Primed, ReadFails, AnnounceFile, cache
<1>11. CASE UNCHANGED vars
  BY <1>11, <1>u DEF vars, cache
<1> QED BY <1>1, <1>2, <1>3, <1>4, <1>5, <1>6, <1>7, <1>8, <1>9, <1>10, <1>11
        DEF Next, Request, Trigger

(* CacheInv is inductive.                                                  *)
LEMMA CacheInvStep == CacheInv /\ [Next]_vars => CacheInv'
BY FlightStep, LoadTypesStep, CacheStep DEF CacheInv

(* The byte count of the cache is the sum of its bodies, no object is      *)
(* cached twice and the budget holds, whatever is cached, touched,         *)
(* replaced, evicted and invalidated in whatever order.                    *)
THEOREM HubCacheBound == Spec => []CacheBound
<1>1. CacheInv => CacheBound
  <2> SUFFICES ASSUME CacheInv PROVE CacheBound
    OBVIOUS
  <2>1. DOMAIN order = 1..Len(order) /\ Distinct(order) /\ Account
    BY DEF CacheInv, CacheTypes
  <2> QED BY <2>1 DEF CacheBound, Distinct, Account
<1> QED BY <1>1, CacheInit, CacheInvStep, PTL DEF Spec

-----------------------------------------------------------------------------
(* A file that an invalidation covers has no reader left with an older     *)
(* body, and the cache has no older one.                                   *)
CleanInv ==
    /\ clean \subseteq Metas
    /\ \A m \in clean : ~Overlaps(m)
    /\ \A i \in 1..Len(order) : order[i].obj \in clean => order[i].data.body = file[order[i].obj]

(* A hub starts with every file covered and no reader.                     *)
LEMMA CleanInit == Init => CleanInv
<1> SUFFICES ASSUME Init PROVE CleanInv
  OBVIOUS
<1>1. order = <<>> /\ Len(order) = 0 /\ clean = Metas /\ \A r \in Clients : pc[r] = "idle"
  BY DEF Init
<1> QED BY <1>1 DEF CleanInv, Overlaps

(* A step after which every reader with a body of m held it before, or     *)
(* has what the file holds, leaves m without overlap.                      *)
LEMMA OverlapStep ==
    ASSUME NEW m, ~Overlaps(m), file'[m] = file[m],
           \A r \in Clients : pc'[r] \in {"land", "finish"} /\ obj'[r] = m /\ got'[r] # None =>
              \/ got'[r].body = file[m]
              \/ /\ pc[r] \in {"land", "finish"} /\ obj[r] = m
                 /\ got[r] # None /\ got[r].body = got'[r].body
    PROVE  ~Overlaps(m)'
BY DEF Overlaps

(* No step leaves a covered file with an overlapping reader.               *)
LEMMA CleanOverlaps == CacheInv /\ CleanInv /\ [Next]_vars => \A m \in clean' : m \in Metas /\ ~Overlaps(m)'
<1> SUFFICES ASSUME CacheInv, CleanInv, [Next]_vars, NEW m \in clean' PROVE m \in Metas /\ ~Overlaps(m)'
  OBVIOUS
<1>t. /\ DOMAIN pc = Clients /\ DOMAIN obj = Clients /\ DOMAIN got = Clients
      /\ got \in [Clients -> Slices \union {None}] /\ spoil \in [Clients -> BOOLEAN]
      /\ clean \subseteq Metas /\ \A n \in clean : ~Overlaps(n)
  BY DEF CacheInv, CleanInv, LoadTypes, FlightInv, FlightTypes
<1>a. ASSUME NEW r \in Clients, NEW s, s \notin {"land", "finish"}, pc' = [pc EXCEPT ![r] = s],
             \A q \in Clients : q # r => obj'[q] = obj[q] /\ got'[q] = got[q],
             UNCHANGED <<file, clean>>
      PROVE  m \in Metas /\ ~Overlaps(m)'
  BY <1>a, <1>t, OverlapStep
<1>u. ASSUME UNCHANGED <<pc, obj, got, file>>, m \in clean PROVE m \in Metas /\ ~Overlaps(m)'
  BY <1>u, <1>t, OverlapStep
<1>1. ASSUME NEW r \in Clients, Lookup(r) PROVE m \in Metas /\ ~Overlaps(m)'
  <2>1. PICK s \in {"serve", "fly"} : pc' = [pc EXCEPT ![r] = s]
    BY <1>1 DEF Lookup, Goto
  <2>2. /\ \A q \in Clients : q # r => obj'[q] = obj[q] /\ got'[q] = got[q]
        /\ UNCHANGED <<file, clean>>
    BY <1>1, <1>t DEF Lookup, origin
  <2> QED BY <2>1, <2>2, <1>a
<1>2. ASSUME NEW r \in Clients, Wake(r) PROVE m \in Metas /\ ~Overlaps(m)'
  <2>1. pc' = [pc EXCEPT ![r] = "serve"]
    BY <1>2 DEF Wake, Goto
  <2>2. /\ \A q \in Clients : q # r => obj'[q] = obj[q] /\ got'[q] = got[q]
        /\ UNCHANGED <<file, clean>>
    BY <1>2, <1>t DEF Wake, origin
  <2> QED BY <2>1, <2>2, <1>a
<1>3. ASSUME NEW r \in Clients, Join(r) \/ Lead(r) PROVE m \in Metas /\ ~Overlaps(m)'
  <2>1. PICK s \in {"wait", "read"} : pc' = [pc EXCEPT ![r] = s]
    BY <1>3 DEF Join, Lead, Goto
  <2>2. UNCHANGED <<obj, got, file, clean>>
    BY <1>3 DEF Join, Lead, origin
  <2> QED BY <2>1, <2>2, <1>a
<1>4. ASSUME NEW r \in Clients, NEW o \in Objects, Arrive(r, o) PROVE m \in Metas /\ ~Overlaps(m)'
  <2>1. /\ pc' = [pc EXCEPT ![r] = "lookup"] /\ UNCHANGED <<got, file, clean>>
        /\ obj' = [obj EXCEPT ![r] = o]
    BY <1>4 DEF Arrive, Goto, origin
  <2> QED BY <2>1, <1>t, <1>a
<1>5. ASSUME NEW r \in Clients, Read(r) PROVE m \in Metas /\ ~Overlaps(m)'
  <2> DEFINE d == IF file[obj[r]] = None THEN None
                  ELSE [body |-> file[obj[r]], bad |-> FALSE, lent |-> r]
  <2>1. /\ UNCHANGED <<obj, file, clean>>
        /\ got' = [got EXCEPT ![r] = d] /\ pc' = [pc EXCEPT ![r] = "land"]
    BY <1>5 DEF Read, Goto, origin
  <2>2. got'[r] = d /\ (d # None => d.body = file[obj[r]])
    BY <2>1, <1>t
  <2>3. \A q \in Clients : q # r => got'[q] = got[q] /\ pc'[q] = pc[q]
    BY <2>1, <1>t
  <2> HIDE DEF d
  <2> QED BY <2>1, <2>2, <2>3, <1>t, OverlapStep
<1>6. ASSUME NEW r \in Clients, Land(r) PROVE m \in Metas /\ ~Overlaps(m)'
  <2>1. pc[r] = "land" /\ UNCHANGED <<obj, got, file, clean>> /\ pc' = [pc EXCEPT ![r] = "finish"]
    BY <1>6 DEF Land, Goto, origin
  <2> QED BY <2>1, <1>t, OverlapStep
<1>7. ASSUME NEW r \in Clients, Finish(r) PROVE m \in Metas /\ ~Overlaps(m)'
  <2>1. UNCHANGED <<obj, file, clean>>
    BY <1>7 DEF Finish, origin
  <2>2. \A q \in Clients : pc'[q] \in {"land", "finish"} => pc'[q] = pc[q] /\ got'[q] = got[q]
    BY <1>7 DEF Finish, Done
  <2> QED BY <2>1, <2>2, <1>t, OverlapStep
<1>8. ASSUME NEW r \in Clients, Serve(r) PROVE m \in Metas /\ ~Overlaps(m)'
  <2>1. /\ UNCHANGED <<file, clean>>
        /\ pc' = [pc EXCEPT ![r] = "idle"] /\ obj' = [obj EXCEPT ![r] = None]
        /\ got' = [[q \in Clients |-> Returned(got[q], r)] EXCEPT ![r] = None]
    BY <1>8 DEF Serve, Goto, origin
  <2>2. ASSUME NEW q \in Clients, q # r, got'[q] # None
        PROVE  got[q] # None /\ got'[q].body = got[q].body
    <3>1. got'[q] = Returned(got[q], r)
      BY <2>1, <2>2
    <3>2. got[q] # None
      BY <2>2, <3>1 DEF Returned
    <3>3. got[q] \in Slices /\ spoil[r] \in BOOLEAN
      BY <1>t, <3>2
    <3> QED BY <3>1, <3>2, <3>3, ReturnedType
  <2>3. \A q \in Clients : q # r => pc'[q] = pc[q] /\ obj'[q] = obj[q]
    BY <2>1, <1>t
  <2>4. pc'[r] = "idle" /\ m \in clean /\ UNCHANGED file
    BY <2>1, <1>t
  <2> QED BY <2>2, <2>3, <2>4, <1>t, OverlapStep
<1>9. ASSUME NEW n \in Metas, NEW b \in Releases, Write(n, b) PROVE m \in Metas /\ ~Overlaps(m)'
  <2>1. /\ clean' = clean \ {n} /\ file' = [file EXCEPT ![n] = b] /\ UNCHANGED <<pc, obj, got>>
    BY <1>9 DEF Write, requests
  <2>2. m \in clean /\ file'[m] = file[m]
    BY <2>1
  <2> QED BY <2>1, <2>2, <1>t, OverlapStep
<1>10. ASSUME Invalidate PROVE m \in Metas /\ ~Overlaps(m)'
  <2>1. /\ UNCHANGED <<pc, obj, got, file>>
        /\ clean' = clean \union {n \in Metas : announced[n] = file[n] /\ ~Overlaps(n)}
    BY <1>10 DEF Invalidate, requests, origin
  <2>2. m \in Metas /\ ~Overlaps(m)
    BY <2>1, <1>t
  <2> QED BY <2>1, <2>2, OverlapStep
<1>11. ASSUME \/ ReadDir \/ (\E n \in Metas : Stat(n) \/ StatFails(n)) \/ Primed
              \/ ReadFails \/ AnnounceFile
       PROVE  m \in Metas /\ ~Overlaps(m)'
  <2>1. UNCHANGED <<pc, obj, got, file, clean>>
    BY <1>11 DEF ReadDir, Stat, StatFails, Primed, ReadFails, AnnounceFile, requests, origin
  <2> QED BY <2>1, <1>u
<1>12. CASE UNCHANGED vars
  BY <1>12, <1>u DEF vars, requests, origin
<1> QED BY <1>1, <1>2, <1>3, <1>4, <1>5, <1>6, <1>7, <1>8, <1>9, <1>10, <1>11, <1>12
        DEF Next, Request, Trigger

(* An entry of a covered file stays the file's: it is not rewritten while  *)
(* the file is covered, and a read that adds one does not overlap.         *)
LEMMA CleanEntries ==
    CacheInv /\ CleanInv /\ [Next]_vars =>
        \A i \in 1..Len(order') : order'[i].obj \in clean' => order'[i].data.body = file'[order'[i].obj]
<1> SUFFICES ASSUME CacheInv, CleanInv, [Next]_vars, NEW i \in 1..Len(order'), order'[i].obj \in clean'
             PROVE  order'[i].data.body = file'[order'[i].obj]
  OBVIOUS
<1>t. /\ order \in Seq(Entries) /\ got \in [Clients -> Slices \union {None}]
      /\ spoil \in [Clients -> BOOLEAN] /\ clean \subseteq Metas
      /\ \A m \in clean : ~Overlaps(m)
      /\ \A j \in 1..Len(order) : order[j].obj \in clean => order[j].data.body = file[order[j].obj]
      /\ \A r \in Clients : pc[r] # "idle" => obj[r] \in Objects
  BY DEF CacheInv, CleanInv, LoadTypes, CacheTypes, FlightInv, FlightTypes
<1>1. CASE Invalidate
  <2>1. order'[i].obj \in Chunks
    BY <1>1, InvalidateCache
  <2>2. clean' \subseteq Metas
    BY <1>1, <1>t DEF Invalidate
  <2> QED BY <2>1, <2>2, HubAssumption
<1>2. CASE ~Invalidate
  <2>1. order'[i].obj \in clean /\ file'[order'[i].obj] = file[order'[i].obj]
    <3>1. ASSUME NEW n \in Metas, NEW b \in Releases, Write(n, b)
          PROVE  order'[i].obj \in clean /\ file'[order'[i].obj] = file[order'[i].obj]
      BY <3>1 DEF Write
    <3>2. ASSUME NEW r \in Clients, Request(r) PROVE UNCHANGED <<clean, file>>
      BY <3>2 DEF Request, Lookup, Join, Lead, Read, Land, Finish, Wake, Serve, origin
    <3>3. ASSUME NEW r \in Clients, NEW o \in Objects, Arrive(r, o) PROVE UNCHANGED <<clean, file>>
      BY <3>3 DEF Arrive, origin
    <3>4. ASSUME Trigger PROVE UNCHANGED <<clean, file>>
      BY <1>2, <3>4 DEF Trigger, ReadDir, Stat, StatFails, Primed, ReadFails, AnnounceFile, origin
    <3>5. CASE UNCHANGED vars
      BY <3>5 DEF vars, origin
    <3>6. ASSUME UNCHANGED <<clean, file>>
          PROVE  order'[i].obj \in clean /\ file'[order'[i].obj] = file[order'[i].obj]
      BY <3>6
    <3> QED BY <3>1, <3>2, <3>3, <3>4, <3>5, <3>6 DEF Next
  <2>k. Kind
    BY CacheStep
  <2>2. CASE Within(order', order)
    <3>1. PICK j \in 1..Len(order) : order'[i] = order[j]
      BY <2>2 DEF Within
    <3> QED BY <3>1, <2>1, <1>t
  <2>3. ASSUME NEW r \in Clients, Finish(r), got[r] # None, WithinOr(order', order, obj[r], got[r])
        PROVE  order'[i].data.body = file'[order'[i].obj]
    <3>1. CASE \E j \in 1..Len(order) : order'[i] = order[j]
      BY <3>1, <2>1, <1>t
    <3>2. CASE order'[i] = [obj |-> obj[r], data |-> got[r]]
      <4>1. order'[i].obj = obj[r] /\ order'[i].data = got[r]
        BY <3>2
      <4>2. pc[r] = "finish"
        BY <2>3 DEF Finish
      <4>3. got[r].body = file[obj[r]]
        BY <4>1, <4>2, <2>1, <2>3, <1>t DEF Overlaps
      <4> QED BY <4>1, <4>3, <2>1
    <3> QED BY <3>1, <3>2, <2>3 DEF WithinOr
  <2>4. ASSUME NEW r \in Clients, Serve(r) PROVE order'[i].data.body = file'[order'[i].obj]
    <3>1. Len(order') = Len(order) /\ order'[i].obj = order[i].obj /\ order'[i].data = Returned(order[i].data, r)
      BY <2>4, ServeCache
    <3>2. i \in 1..Len(order) /\ order[i] \in Entries
      BY <3>1, <1>t
    <3>3. Returned(order[i].data, r).body = order[i].data.body
      BY <3>2, <1>t, EntryTypes, ReturnedType
    <3> QED BY <3>1, <3>2, <3>3, <2>1, <1>t
  <2> QED BY <2>k, <2>2, <2>3, <2>4 DEF Kind
<1> QED BY <1>1, <1>2

(* CleanInv is inductive relative to CacheInv.                             *)
LEMMA CleanStep == CacheInv /\ CleanInv /\ [Next]_vars => CleanInv'
BY CleanOverlaps, CleanEntries DEF CleanInv

(* Until the file is written again, what the cache has of a release file   *)
(* is what the file holds, once an invalidation has passed that no reader  *)
(* of older content overlapped.                                            *)
THEOREM HubCleanIsFresh == Spec => []CleanIsFresh
<1>1. CacheInv /\ CleanInv => CleanIsFresh
  <2> SUFFICES ASSUME CacheInv, CleanInv, NEW m \in clean, Cached(m) PROVE DataOf(m).body = file[m]
    BY DEF CleanIsFresh
  <2>1. PICK i \in 1..Len(order) : order[i].obj = m /\ DataOf(m) = order[i].data
    BY DataOfEntry DEF CacheInv, CacheTypes
  <2> QED BY <2>1 DEF CleanInv
<1> QED BY <1>1, CacheInit, CacheInvStep, CleanInit, CleanStep, PTL DEF Spec

-----------------------------------------------------------------------------
(* What r, when it serves, may write into: slice d of object o was lent to *)
(* a request for the same object that has still to serve it.               *)
Lent(d, o) ==
    d.lent # None => obj[d.lent] = o /\ pc[d.lent] \in {"land", "finish", "serve"}

(* Only chunk requests flip a bit, a flipped slice is a chunk's, and a     *)
(* slice is shared only between requests and entries of one object.        *)
LendInv ==
    /\ \A r \in Clients : spoil[r] => obj[r] \in Chunks
    /\ \A i \in 1..Len(order) :
          (order[i].data.bad => order[i].obj \in Chunks) /\ Lent(order[i].data, order[i].obj)
    /\ \A q \in Clients : got[q] # None =>
          /\ pc[q] \in {"land", "finish", "woken", "serve"}
          /\ got[q].bad => obj[q] \in Chunks
          /\ Lent(got[q], obj[q])

(* A hub starts with nothing lent.                                         *)
LEMMA LendInit == Init => LendInv
<1> SUFFICES ASSUME Init PROVE LendInv
  OBVIOUS
<1>1. order = <<>> /\ Len(order) = 0 /\ \A r \in Clients : spoil[r] = FALSE /\ got[r] = None
  BY DEF Init
<1> QED BY <1>1 DEF LendInv

(* A request that holds a slice keeps its object until it has served.      *)
LEMMA StillLent ==
    ASSUME NEW d \in Slices, NEW o, Lent(d, o),
           \A r \in Clients : pc[r] \in {"land", "finish", "serve"} =>
              obj'[r] = obj[r] /\ pc'[r] \in {"land", "finish", "serve"}
    PROVE  d.lent # None => obj'[d.lent] = o /\ pc'[d.lent] \in {"land", "finish", "serve"}
BY EntryTypes DEF Lent

(* The step of a request that is not the last leaves what is lent lent.    *)
LEMMA KeepsLent ==
    ASSUME CacheInv, NEW r \in Clients, Request(r), ~Serve(r)
    PROVE  \A q \in Clients : /\ obj'[q] = obj[q] /\ spoil'[q] = spoil[q]
                              /\ pc[q] \in {"land", "finish", "serve"} => pc'[q] \in {"land", "finish", "serve"}
<1>t. DOMAIN pc = Clients
  BY DEF CacheInv, FlightInv, FlightTypes
<1>1. UNCHANGED <<obj, spoil>>
  BY DEF Request, Lookup, Join, Lead, Read, Land, Finish, Wake
<1>2. CASE Finish(r)
  BY <1>1, <1>2 DEF Finish, Done
<1>3. CASE Land(r)
  BY <1>1, <1>3, <1>t DEF Land, Goto
<1>4. CASE ~Finish(r) /\ ~Land(r)
  <2>1. PICK s : pc[r] \notin {"land", "finish", "serve"} /\ pc' = [pc EXCEPT ![r] = s]
    BY <1>4 DEF Request, Lookup, Join, Lead, Read, Wake, Goto
  <2> QED BY <1>1, <1>t, <2>1
<1> QED BY <1>2, <1>3, <1>4

(* Neither does the arrival of a request, of which nothing was held.       *)
LEMMA ArriveLent ==
    ASSUME CacheInv, LendInv, NEW r \in Clients, NEW o \in Objects, Arrive(r, o)
    PROVE  LendInv'
<1>t. /\ DOMAIN pc = Clients /\ DOMAIN obj = Clients /\ DOMAIN spoil = Clients
      /\ order \in Seq(Entries) /\ got \in [Clients -> Slices \union {None}]
  BY DEF CacheInv, LoadTypes, CacheTypes, FlightInv, FlightTypes
<1>1. /\ pc[r] = "idle" /\ pc' = [pc EXCEPT ![r] = "lookup"] /\ obj' = [obj EXCEPT ![r] = o]
      /\ UNCHANGED <<order, got>>
      /\ spoil' = [spoil EXCEPT ![r] = o \in Chunks /\ chunkNo < CorruptFirst]
  BY DEF Arrive, Goto, cache
<1>2. \A q \in Clients : q # r => pc'[q] = pc[q] /\ obj'[q] = obj[q] /\ spoil'[q] = spoil[q]
  BY <1>1, <1>t
<1>3. spoil'[r] => obj'[r] \in Chunks
  BY <1>1, <1>t
<1>4. \A q \in Clients : pc[q] \in {"land", "finish", "serve"} =>
         obj'[q] = obj[q] /\ pc'[q] \in {"land", "finish", "serve"}
  BY <1>1, <1>2
<1>5. \A q \in Clients : spoil'[q] => obj'[q] \in Chunks
  BY <1>2, <1>3 DEF LendInv
<1>6. ASSUME NEW i \in 1..Len(order)
      PROVE  (order[i].data.bad => order[i].obj \in Chunks) /\ Lent(order[i].data, order[i].obj)'
  <2>1. order[i].data \in Slices
    BY <1>t, EntryTypes
  <2>2. Lent(order[i].data, order[i].obj) /\ (order[i].data.bad => order[i].obj \in Chunks)
    BY DEF LendInv
  <2> QED BY <1>1, <1>4, <2>1, <2>2, StillLent DEF Lent
<1>7. ASSUME NEW q \in Clients, got[q] # None
      PROVE  /\ pc'[q] \in {"land", "finish", "woken", "serve"}
             /\ got[q].bad => obj'[q] \in Chunks
             /\ Lent(got[q], obj[q])'
  <2>1. /\ pc[q] \in {"land", "finish", "woken", "serve"} /\ (got[q].bad => obj[q] \in Chunks)
        /\ Lent(got[q], obj[q])
    BY <1>7 DEF LendInv
  <2>2. q # r
    BY <2>1, <1>1
  <2>3. got[q] \in Slices
    BY <1>7, <1>t
  <2> QED BY <1>1, <1>2, <1>4, <2>1, <2>2, <2>3, StillLent DEF Lent
<1> QED BY <1>1, <1>5, <1>6, <1>7 DEF LendInv

(* What a request has in hand after a step that is not the last of r: what *)
(* it had, a copy of an entry or of what it had, the file's body lent to   *)
(* it, or what the leader it waited for has.                               *)
LEMMA GotSources ==
    ASSUME CacheInv, LendInv, NEW r \in Clients, Request(r), ~Serve(r), NEW q \in Clients, got'[q] # None
    PROVE  \/ got'[q] = got[q] /\ pc'[q] \in {pc[q], "finish", "serve"}
           \/ pc'[q] = "serve" /\ Cached(obj[q]) /\ obj[q] \in Objects /\ got'[q] = Copy(DataOf(obj[q]))
           \/ pc'[q] = "serve" /\ got[q] # None /\ got'[q] = Copy(got[q])
           \/ pc'[q] = "land" /\ got'[q].bad = FALSE /\ got'[q].lent = q
           \/ pc'[q] = "woken" /\ got[r] # None /\ got'[q] = got[r] /\ obj[q] = obj[r]
<1>t. /\ DOMAIN pc = Clients /\ DOMAIN got = Clients
      /\ \A p \in Clients : pc[p] = "wait" => obj[call[p]] = obj[p]
      /\ \A p \in Clients : pc[p] # "idle" => obj[p] \in Objects
  BY DEF CacheInv, LoadTypes, FlightInv, FlightTypes, FlightHasLeader
<1>n. pc[r] \in {"lookup", "fly", "read"} => got[r] = None
  BY DEF LendInv
<1>1. CASE Lookup(r)
  <2>1. pc[r] = "lookup" /\ (q # r => pc'[q] = pc[q] /\ got'[q] = got[q])
    BY <1>1, <1>t DEF Lookup, Goto
  <2>2. CASE Cached(obj[r]) /\ got' = [got EXCEPT ![r] = Copy(DataOf(obj[r]))] /\ Goto(r, "serve")
    BY <2>1, <2>2, <1>t DEF Goto
  <2>3. CASE UNCHANGED got
    BY <2>1, <2>3, <1>n
  <2> QED BY <1>1, <2>2, <2>3 DEF Lookup
<1>2. CASE Wake(r)
  <2>1. pc[r] = "woken" /\ pc' = [pc EXCEPT ![r] = "serve"] /\ (q # r => pc'[q] = pc[q] /\ got'[q] = got[q])
    BY <1>2, <1>t DEF Wake, Goto
  <2>2. CASE Cached(obj[r]) /\ got' = [got EXCEPT ![r] = Copy(DataOf(obj[r]))]
    BY <2>1, <2>2, <1>t
  <2>3. CASE got[r] # None /\ got' = [got EXCEPT ![r] = Copy(got[r])]
    BY <2>1, <2>3, <1>t
  <2>4. CASE UNCHANGED got
    BY <2>1, <2>4, <1>t
  <2> QED BY <1>2, <2>2, <2>3, <2>4 DEF Wake
<1>3. CASE Join(r) \/ Lead(r)
  <2>1. pc[r] = "fly" /\ UNCHANGED got /\ (q # r => pc'[q] = pc[q])
    BY <1>3, <1>t DEF Join, Lead, Goto
  <2> QED BY <2>1, <1>n
<1>4. CASE Read(r)
  <2> DEFINE d == [body |-> file[obj[r]], bad |-> FALSE, lent |-> r]
  <2>1. /\ pc' = [pc EXCEPT ![r] = "land"]
        /\ got' = [got EXCEPT ![r] = IF file[obj[r]] = None THEN None ELSE d]
    BY <1>4 DEF Read, Goto
  <2>2. CASE q # r
    BY <2>1, <2>2
  <2>3. CASE q = r
    <3>1. pc'[q] = "land" /\ got'[q] = d /\ d.bad = FALSE /\ d.lent = q
      BY <2>1, <2>3, <1>t
    <3> HIDE DEF d
    <3> QED BY <3>1
  <2> QED BY <2>2, <2>3
<1>5. CASE Land(r)
  <2>1. UNCHANGED got /\ pc'[q] \in {pc[q], "finish"}
    BY <1>5, <1>t DEF Land, Goto
  <2> QED BY <2>1
<1>6. CASE Finish(r)
  <2>1. CASE pc[q] = "wait" /\ call[q] = r
    <3>1. pc'[q] = "woken" /\ got'[q] = got[r]
      BY <1>6, <2>1 DEF Finish, Done
    <3> QED BY <2>1, <3>1, <1>t
  <2>2. CASE ~(pc[q] = "wait" /\ call[q] = r)
    <3>1. pc'[q] \in {pc[q], "serve"} /\ got'[q] = got[q]
      BY <1>6, <2>2 DEF Finish, Done
    <3> QED BY <3>1
  <2> QED BY <2>1, <2>2
<1> QED BY <1>1, <1>2, <1>3, <1>4, <1>5, <1>6 DEF Request

(* So every step of a request but the last keeps the invariant ...         *)
LEMMA RequestLent ==
    ASSUME CacheInv, LendInv, [Next]_vars, NEW r \in Clients, Request(r), ~Serve(r)
    PROVE  LendInv'
<1>t. /\ order \in Seq(Entries) /\ got \in [Clients -> Slices \union {None}] /\ CacheTypes
  BY DEF CacheInv, LoadTypes, CacheTypes
<1>k. \A q \in Clients : /\ obj'[q] = obj[q] /\ spoil'[q] = spoil[q]
                         /\ pc[q] \in {"land", "finish", "serve"} => pc'[q] \in {"land", "finish", "serve"}
  BY KeepsLent
<1>e. ASSUME NEW j \in 1..Len(order)
      PROVE  (order[j].data.bad => order[j].obj \in Chunks) /\ Lent(order[j].data, order[j].obj)
             /\ order[j].data \in Slices
  BY <1>t, EntryTypes DEF LendInv
<1>g. ASSUME NEW q \in Clients, got[q] # None
      PROVE  /\ got[q] \in Slices /\ Lent(got[q], obj[q]) /\ (got[q].bad => obj[q] \in Chunks)
             /\ pc[q] \in {"land", "finish", "woken", "serve"}
  BY <1>g, <1>t DEF LendInv
<1>s. ASSUME NEW d \in Slices, NEW o, Lent(d, o)
      PROVE  d.lent # None => obj'[d.lent] = o /\ pc'[d.lent] \in {"land", "finish", "serve"}
  BY <1>s, <1>k, StillLent
<1>1. \A q \in Clients : spoil'[q] => obj'[q] \in Chunks
  BY <1>k DEF LendInv
<1>2. ASSUME NEW i \in 1..Len(order')
      PROVE  /\ order'[i].data.bad => order'[i].obj \in Chunks
             /\ order'[i].data.lent # None => /\ obj'[order'[i].data.lent] = order'[i].obj
                                              /\ pc'[order'[i].data.lent] \in {"land", "finish", "serve"}
  <2>1. CASE \E j \in 1..Len(order) : order'[i] = order[j]
    <3>1. PICK j \in 1..Len(order) : order'[i] = order[j]
      BY <2>1
    <3> QED BY <3>1, <1>e, <1>s
  <2>2. ASSUME NEW p \in Clients, got[p] # None, order'[i] = [obj |-> obj[p], data |-> got[p]]
        PROVE  /\ order'[i].data.bad => order'[i].obj \in Chunks
               /\ order'[i].data.lent # None => /\ obj'[order'[i].data.lent] = order'[i].obj
                                                /\ pc'[order'[i].data.lent] \in {"land", "finish", "serve"}
    <3>1. order'[i].obj = obj[p] /\ order'[i].data = got[p]
      BY <2>2
    <3> QED BY <3>1, <2>2, <1>g, <1>s
  <2>3. CASE Within(order', order)
    BY <2>1, <2>3 DEF Within
  <2>4. ASSUME NEW p \in Clients, got[p] # None, WithinOr(order', order, obj[p], got[p])
        PROVE  \/ order'[i] = [obj |-> obj[p], data |-> got[p]]
               \/ \E j \in 1..Len(order) : order'[i] = order[j]
    BY <2>4 DEF WithinOr
  <2>5. ASSUME NEW p \in Clients, Serve(p) PROVE FALSE
    <3>1. pc[p] = "serve" /\ pc'[p] = "idle"
      BY <2>5 DEF Serve, Goto, CacheInv, FlightInv, FlightTypes
    <3> QED BY <3>1, <1>k
  <2>6. Kind
    BY CacheStep
  <2> QED BY <2>1, <2>2, <2>3, <2>4, <2>5, <2>6 DEF Kind
<1>3. ASSUME NEW q \in Clients, got'[q] # None
      PROVE  /\ pc'[q] \in {"land", "finish", "woken", "serve"}
             /\ got'[q].bad => obj'[q] \in Chunks
             /\ got'[q].lent # None => /\ obj'[got'[q].lent] = obj'[q]
                                       /\ pc'[got'[q].lent] \in {"land", "finish", "serve"}
  <2>1. CASE got'[q] = got[q] /\ pc'[q] \in {pc[q], "finish", "serve"}
    BY <2>1, <1>3, <1>k, <1>g, <1>s
  <2>2. CASE pc'[q] = "serve" /\ Cached(obj[q]) /\ obj[q] \in Objects /\ got'[q] = Copy(DataOf(obj[q]))
    <3>1. PICK j \in 1..Len(order) : order[j].obj = obj[q] /\ DataOf(obj[q]) = order[j].data
      BY <2>2, <1>t, DataOfEntry
    <3>2. Copy(order[j].data).bad = order[j].data.bad /\ Copy(order[j].data).lent = None
      BY <1>e, CopyType
    <3> QED BY <2>2, <3>1, <3>2, <1>e, <1>k
  <2>3. CASE pc'[q] = "serve" /\ got[q] # None /\ got'[q] = Copy(got[q])
    <3>1. Copy(got[q]).bad = got[q].bad /\ Copy(got[q]).lent = None
      BY <2>3, <1>g, CopyType
    <3> QED BY <2>3, <3>1, <1>g, <1>k
  <2>4. CASE pc'[q] = "land" /\ got'[q].bad = FALSE /\ got'[q].lent = q
    BY <2>4
  <2>5. CASE pc'[q] = "woken" /\ got[r] # None /\ got'[q] = got[r] /\ obj[q] = obj[r]
    BY <2>5, <1>g, <1>k, <1>s
  <2> QED BY <2>1, <2>2, <2>3, <2>4, <2>5, <1>3, GotSources
<1> QED BY <1>1, <1>2, <1>3 DEF LendInv, Lent

(* ... and so does the last, which takes back what was lent.               *)
LEMMA ServeLent ==
    ASSUME CacheInv, LendInv, NEW r \in Clients, Serve(r)
    PROVE  LendInv'
<1>t. /\ DOMAIN pc = Clients /\ DOMAIN obj = Clients /\ spoil \in [Clients -> BOOLEAN]
      /\ order \in Seq(Entries) /\ got \in [Clients -> Slices \union {None}]
  BY DEF CacheInv, LoadTypes, CacheTypes, FlightInv, FlightTypes
<1>1. /\ pc[r] = "serve" /\ pc' = [pc EXCEPT ![r] = "idle"] /\ obj' = [obj EXCEPT ![r] = None]
      /\ spoil' = [spoil EXCEPT ![r] = FALSE]
      /\ got' = [[q \in Clients |-> Returned(got[q], r)] EXCEPT ![r] = None]
  BY DEF Serve, Goto
<1>2. /\ \A q \in Clients : q # r => pc'[q] = pc[q] /\ obj'[q] = obj[q] /\ spoil'[q] = spoil[q]
                                     /\ got'[q] = Returned(got[q], r)
      /\ spoil'[r] = FALSE /\ got'[r] = None
  BY <1>1, <1>t
<1>s. ASSUME NEW d \in Slices, NEW o, Lent(d, o), d.bad => o \in Chunks
      PROVE  LET x == Returned(d, r) IN
             /\ x.bad => o \in Chunks
             /\ x.lent # None => obj'[x.lent] = o /\ pc'[x.lent] \in {"land", "finish", "serve"}
  <2> DEFINE x == Returned(d, r)
  <2>1. /\ x.bad => d.bad \/ (d.lent = r /\ spoil[r])
        /\ x.lent \in {None, d.lent} \ {r}
    BY <1>t, ReturnedType
  <2>2. d.lent \in Clients \union {None} /\ r # None
    BY EntryTypes, HubAssumption
  <2> HIDE DEF x
  <2>3. spoil[r] => obj[r] \in Chunks
    BY DEF LendInv
  <2>4. x.bad => o \in Chunks
    BY <1>s, <2>1, <2>2, <2>3 DEF Lent
  <2>5. x.lent # None => obj'[x.lent] = o /\ pc'[x.lent] \in {"land", "finish", "serve"}
    BY <1>s, <1>2, <2>1, <2>2 DEF Lent
  <2> QED BY <2>4, <2>5 DEF x
<1>3. \A q \in Clients : spoil'[q] => obj'[q] \in Chunks
  BY <1>2 DEF LendInv
<1>4. ASSUME NEW i \in 1..Len(order')
      PROVE  /\ order'[i].data.bad => order'[i].obj \in Chunks
             /\ order'[i].data.lent # None => /\ obj'[order'[i].data.lent] = order'[i].obj
                                              /\ pc'[order'[i].data.lent] \in {"land", "finish", "serve"}
  <2>1. Len(order') = Len(order) /\ order'[i].obj = order[i].obj /\ order'[i].data = Returned(order[i].data, r)
    BY ServeCache
  <2>2. order[i].data \in Slices
    BY <2>1, <1>t, EntryTypes
  <2>3. Lent(order[i].data, order[i].obj) /\ (order[i].data.bad => order[i].obj \in Chunks)
    BY <2>1 DEF LendInv
  <2> QED BY <2>1, <2>2, <2>3, <1>s
<1>5. ASSUME NEW q \in Clients, got'[q] # None
      PROVE  /\ pc'[q] \in {"land", "finish", "woken", "serve"}
             /\ got'[q].bad => obj'[q] \in Chunks
             /\ got'[q].lent # None => /\ obj'[got'[q].lent] = obj'[q]
                                       /\ pc'[got'[q].lent] \in {"land", "finish", "serve"}
  <2>1. q # r /\ got'[q] = Returned(got[q], r)
    BY <1>2, <1>5
  <2>2. got[q] # None
    BY <2>1, <1>5 DEF Returned
  <2>3. /\ got[q] \in Slices /\ Lent(got[q], obj[q]) /\ (got[q].bad => obj[q] \in Chunks)
        /\ pc[q] \in {"land", "finish", "woken", "serve"}
    BY <2>2, <1>t DEF LendInv
  <2> QED BY <2>1, <2>3, <1>2, <1>s
<1> QED BY <1>3, <1>4, <1>5 DEF LendInv, Lent

(* The trigger and the publisher do not touch slices: entries are dropped. *)
LEMMA OthersLent ==
    ASSUME CacheInv, LendInv, [Next]_vars, UNCHANGED requests, Within(order', order)
    PROVE  LendInv'
<1>1. UNCHANGED <<spoil, pc, obj, got>>
  BY DEF requests
<1>2. ASSUME NEW i \in 1..Len(order')
      PROVE  (order'[i].data.bad => order'[i].obj \in Chunks) /\ Lent(order'[i].data, order'[i].obj)
  <2>1. PICK j \in 1..Len(order) : order'[i] = order[j]
    BY DEF Within
  <2> QED BY <2>1 DEF LendInv
<1> QED BY <1>1, <1>2 DEF LendInv, Lent

(* LendInv is inductive relative to CacheInv.                              *)
LEMMA LendStep == CacheInv /\ LendInv /\ [Next]_vars => LendInv'
<1> SUFFICES ASSUME CacheInv, LendInv, [Next]_vars PROVE LendInv'
  OBVIOUS
<1>1. ASSUME NEW r \in Clients, Request(r) PROVE LendInv'
  BY <1>1, RequestLent, ServeLent
<1>2. ASSUME NEW r \in Clients, NEW o \in Objects, Arrive(r, o) PROVE LendInv'
  BY <1>2, ArriveLent
<1>3. ASSUME UNCHANGED order, UNCHANGED requests PROVE LendInv'
  BY <1>3, OthersLent DEF Within
<1>4. ASSUME Trigger PROVE LendInv'
  <2>1. CASE Invalidate
    <3>1. UNCHANGED requests /\ Within(order', order)
      BY <2>1, InvalidateCache DEF Invalidate
    <3> QED BY <3>1, OthersLent
  <2>2. CASE ~Invalidate
    <3>1. UNCHANGED requests /\ UNCHANGED order
      BY <1>4, <2>2 DEF Trigger, ReadDir, Stat, StatFails, Primed, ReadFails, AnnounceFile, cache
    <3> QED BY <3>1, <1>3
  <2> QED BY <2>1, <2>2
<1>5. ASSUME NEW m \in Metas, NEW b \in Releases, Write(m, b) PROVE LendInv'
  BY <1>5, <1>3 DEF Write, cache
<1>6. CASE UNCHANGED vars
  BY <1>6, <1>3 DEF vars, cache
<1> QED BY <1>1, <1>2, <1>4, <1>5, <1>6 DEF Next

(* Although the fault server flips bits in slices that the cache and other *)
(* requests hold, no release file is cached or served with a flipped bit.  *)
THEOREM HubMetadataIsIntact == Spec => []MetadataIsIntact
<1>1. CacheInv /\ LendInv => MetadataIsIntact
  <2> SUFFICES ASSUME CacheInv, LendInv PROVE MetadataIsIntact
    OBVIOUS
  <2>1. DOMAIN order = 1..Len(order)
    BY DEF CacheInv, CacheTypes
  <2> QED BY <2>1 DEF MetadataIsIntact, LendInv
<1> QED BY <1>1, CacheInit, CacheInvStep, LendInit, LendStep, PTL DEF Spec

-----------------------------------------------------------------------------
(* What the trigger's variables hold; it looks only at files that exist,   *)
(* and reads one only after it recorded its stamp.                         *)
TriggerTypes ==
    /\ mtime \in [Metas -> Nat]
    /\ DOMAIN stamps = Metas /\ DOMAIN announced = Metas /\ DOMAIN told = Metas /\ DOMAIN file = Objects
    /\ fresh \subseteq Metas /\ (fresh # {} => primed)
    /\ \A m \in Metas : mtime[m] # 0 => file[m] \in Bodies
    /\ \A m \in names : m \in Metas /\ mtime[m] # 0
    /\ tpc \in {"read", "announce"} => tfile \in Metas /\ mtime[tfile] # 0 /\ stamps[tfile] # None

(* A recorded stamp is not of the future, and a file of which anything was *)
(* taken up has one.                                                       *)
StampsArePast ==
    \A m \in Metas :
        /\ stamps[m] # None => stamps[m].mtime \in Nat /\ stamps[m].mtime <= mtime[m]
        /\ told[m] # None => stamps[m] # None

(* A content taken up has reached the broker, unless the trigger reported  *)
(* an error or is about to announce it.                                    *)
TakenUp ==
    \A m \in Metas : announced[m] # None =>
        told[m] = announced[m] \/ m \in failed \/ (tpc = "announce" /\ tfile = m)

(* What SeenIsTold says between scans holds during one of every file but   *)
(* the one being announced, ...                                            *)
OthersTold ==
    \A m \in Metas : (m \in fresh \/ told[m] # None) /\ stamps[m] = Stamp(m) =>
        told[m] = file[m] \/ m \in failed \/ m \in blurred \/ (tpc \in {"read", "announce"} /\ tfile = m)

(* ... and that one was read after its stamp was taken.                    *)
AboutToTell ==
    tpc = "announce" /\ stamps[tfile] = Stamp(tfile) =>
        announced[tfile] = file[tfile] \/ tfile \in blurred

AnnounceInv == TriggerTypes /\ StampsArePast /\ TakenUp /\ OthersTold /\ AboutToTell

(* The stamp of a file that exists is one.                                 *)
LEMMA StampIsStamp ==
    ASSUME TriggerTypes, NEW m \in Metas, mtime[m] # 0
    PROVE  Stamp(m) # None /\ Stamp(m).mtime = mtime[m] /\ mtime[m] \in Nat
<1>1. SizeOf[file[m]] \in Nat /\ mtime[m] \in Nat
  BY HubAssumption DEF TriggerTypes
<1>2. Stamp(m) \in Stamps
  BY <1>1 DEF Stamp, Stamps
<1> QED BY <1>1, <1>2, HubAssumption DEF Stamp

(* A trigger starts with nothing seen and nothing announced.               *)
LEMMA AnnounceInit == Init => AnnounceInv
<1> SUFFICES ASSUME Init PROVE AnnounceInv
  OBVIOUS
<1>1. PICK b \in [Metas -> Releases \union {None}] :
         /\ file = [o \in Objects |-> IF o \in Metas THEN b[o] ELSE ChunkBody[o]]
         /\ mtime = [m \in Metas |-> IF b[m] = None THEN 0 ELSE 1]
  BY DEF Init
<1>2. \A m \in Metas : mtime[m] # 0 => file[m] \in Bodies
  BY <1>1 DEF Objects, Releases
<1>3. mtime \in [Metas -> Nat] /\ DOMAIN file = Objects
  BY <1>1
<1>4. /\ stamps = [m \in Metas |-> None] /\ announced = [m \in Metas |-> None]
      /\ told = [m \in Metas |-> None] /\ fresh = {} /\ names = {} /\ tpc = "wait"
  BY DEF Init
<1>5. TriggerTypes
  BY <1>2, <1>3, <1>4 DEF TriggerTypes
<1>6. StampsArePast /\ TakenUp /\ OthersTold /\ AboutToTell
  BY <1>4 DEF StampsArePast, TakenUp, OthersTold, AboutToTell
<1> QED BY <1>5, <1>6 DEF AnnounceInv

(* A write gives the file a stamp the trigger has not recorded, or leaves  *)
(* it blurred.                                                             *)
LEMMA AnnounceWrite ==
    ASSUME AnnounceInv, NEW m \in Metas, NEW b \in Releases, Write(m, b) PROVE AnnounceInv'
<1>1. /\ file' = [file EXCEPT ![m] = b]
      /\ fresh' = IF primed /\ mtime[m] = 0 THEN fresh \union {m} ELSE fresh
      /\ UNCHANGED <<tpc, tfile, names, stamps, announced, primed, told, failed>>
  BY DEF Write, trigger
<1>2. \/ mtime' = [mtime EXCEPT ![m] = @ + 1] /\ blurred' = blurred \ {m}
      \/ mtime[m] # 0 /\ mtime' = mtime /\ blurred' = blurred \union {m}
  BY DEF Write
<1>3. b \in Bodies /\ m \in Objects
  BY DEF Releases, Objects
<1>4. /\ mtime' \in [Metas -> Nat] /\ mtime'[m] # 0 /\ DOMAIN file' = Objects /\ file'[m] = b
      /\ \A n \in Metas : n # m => mtime'[n] = mtime[n] /\ file'[n] = file[n]
      /\ \A n \in Metas : mtime[n] \in Nat /\ mtime[n] <= mtime'[n]
  BY <1>1, <1>2, <1>3 DEF AnnounceInv, TriggerTypes
<1>5. TriggerTypes'
  BY <1>1, <1>3, <1>4 DEF AnnounceInv, TriggerTypes
<1>6. StampsArePast'
  BY <1>1, <1>4 DEF AnnounceInv, StampsArePast
<1>7. TakenUp'
  BY <1>1 DEF AnnounceInv, TakenUp
<1>8. stamps[m] = Stamp(m)' => m \in blurred'
  <2> SUFFICES ASSUME stamps[m] = Stamp(m)', m \notin blurred' PROVE FALSE
    OBVIOUS
  <2>1. mtime'[m] = mtime[m] + 1
    BY <1>2 DEF AnnounceInv, TriggerTypes
  <2>2. SizeOf[b] \in Nat /\ Stamp(m)' = [size |-> SizeOf[b], mtime |-> mtime'[m]]
    BY <1>3, <1>4, HubAssumption DEF Stamp
  <2>3. stamps[m] \in Stamps /\ stamps[m].mtime = mtime'[m]
    BY <1>4, <2>2 DEF Stamps
  <2>4. stamps[m].mtime <= mtime[m]
    BY <2>3, HubAssumption DEF AnnounceInv, StampsArePast
  <2> QED BY <1>4, <2>1, <2>3, <2>4
<1>9. \A n \in Metas : n # m => Stamp(n)' = Stamp(n) /\ (n \in blurred' <=> n \in blurred)
  BY <1>2, <1>4 DEF Stamp
<1>10. OthersTold'
  <2> SUFFICES ASSUME NEW n \in Metas, n \in fresh' \/ told[n] # None, stamps[n] = Stamp(n)'
               PROVE  \/ told[n] = file'[n] \/ n \in failed \/ n \in blurred'
                      \/ (tpc \in {"read", "announce"} /\ tfile = n)
    BY <1>1 DEF OthersTold
  <2>1. CASE n = m
    BY <1>8, <2>1
  <2>2. CASE n # m
    BY <1>1, <1>4, <1>9, <2>2 DEF AnnounceInv, OthersTold
  <2> QED BY <2>1, <2>2
<1>11. AboutToTell'
  <2> SUFFICES ASSUME NEW f \in Metas, f = tfile, tpc = "announce", stamps[f] = Stamp(f)'
               PROVE  announced[f] = file'[f] \/ f \in blurred'
    BY <1>1 DEF AboutToTell, Stamp, AnnounceInv, TriggerTypes
  <2>2. CASE f = m
    BY <1>8, <2>2
  <2>3. CASE f # m
    <3>1. Stamp(f)' = Stamp(f) /\ (f \in blurred' <=> f \in blurred) /\ file'[f] = file[f]
      BY <1>4, <1>9, <2>3
    <3> QED BY <3>1 DEF AnnounceInv, AboutToTell
  <2> QED BY <2>2, <2>3
<1> QED BY <1>5, <1>6, <1>7, <1>10, <1>11 DEF AnnounceInv

(* A stat of a file whose stamp it has not recorded leads to its           *)
(* announcement, except during the initial scan, when no file is fresh.    *)
LEMMA AnnounceStat ==
    ASSUME AnnounceInv, NEW m \in Metas, Stat(m) PROVE AnnounceInv'
<1>1. /\ tpc = "scan" /\ m \in names /\ names' = names \ {m} /\ stamps' = [stamps EXCEPT ![m] = Stamp(m)]
      /\ IF stamps[m] # Stamp(m) /\ (stamps[m] # None \/ primed)
         THEN tpc' = "read" /\ tfile' = m ELSE UNCHANGED <<tpc, tfile>>
      /\ UNCHANGED <<announced, primed, told, failed, file, mtime, fresh, blurred>>
  BY DEF Stat, origin
<1>2. mtime[m] # 0 /\ Stamp(m) # None /\ Stamp(m).mtime = mtime[m] /\ mtime[m] \in Nat
  BY <1>1, StampIsStamp DEF AnnounceInv, TriggerTypes
<1>3. /\ DOMAIN stamps' = Metas /\ stamps'[m] = Stamp(m)
      /\ \A n \in Metas : n # m => stamps'[n] = stamps[n]
  BY <1>1 DEF AnnounceInv, TriggerTypes
<1>4. TriggerTypes'
  <2>1. tpc' \in {"read", "announce"} => tfile' \in Metas /\ mtime[tfile'] # 0 /\ stamps'[tfile'] # None
    BY <1>1, <1>2, <1>3
  <2> QED BY <1>1, <1>3, <2>1 DEF AnnounceInv, TriggerTypes
<1>5. StampsArePast'
  BY <1>1, <1>2, <1>3 DEF AnnounceInv, StampsArePast
<1>6. TakenUp'
  BY <1>1 DEF AnnounceInv, TakenUp
<1>7. \A n \in Metas : Stamp(n)' = Stamp(n)
  BY <1>1 DEF Stamp
<1>8. OthersTold'
  <2> SUFFICES ASSUME NEW n \in Metas, n \in fresh \/ told[n] # None, stamps'[n] = Stamp(n)
               PROVE  \/ told[n] = file[n] \/ n \in failed \/ n \in blurred
                      \/ (tpc' \in {"read", "announce"} /\ tfile' = n)
    BY <1>1, <1>7 DEF OthersTold
  <2>1. CASE stamps[n] = Stamp(n)
    BY <1>1, <2>1 DEF AnnounceInv, OthersTold
  <2>2. CASE stamps[n] # Stamp(n)
    <3>1. n = m
      BY <1>3, <2>2
    <3>2. stamps[m] # None \/ primed
      BY <3>1 DEF AnnounceInv, StampsArePast, TriggerTypes
    <3> QED BY <1>1, <2>2, <3>1, <3>2
  <2> QED BY <2>1, <2>2
<1>9. AboutToTell'
  BY <1>1 DEF AboutToTell
<1> QED BY <1>4, <1>5, <1>6, <1>8, <1>9 DEF AnnounceInv

(* The file that could not be read has its error, the one that did not     *)
(* parse too, and the one read before has been told before.                *)
LEMMA AnnounceRead ==
    ASSUME AnnounceInv, ReadFails \/ AnnounceFile PROVE AnnounceInv'
<1>1. /\ tpc = "read" /\ tpc' \in {"scan", "announce"}
      /\ UNCHANGED <<tfile, names, stamps, primed, told, file, mtime, fresh, blurred>>
  BY DEF ReadFails, AnnounceFile, origin
<1>2. \/ announced' = announced /\ tpc' = "scan" /\ failed' = failed \union {tfile}
      \/ /\ announced' = [announced EXCEPT ![tfile] = file[tfile]]
         /\ \/ announced[tfile] = file[tfile] /\ tpc' = "scan" /\ failed' = failed
            \/ tpc' = "scan" /\ failed' = failed \union {tfile}
            \/ tpc' = "announce" /\ failed' = failed
  BY DEF ReadFails, AnnounceFile
<1>3. tfile \in Metas /\ file[tfile] # None /\ DOMAIN announced = Metas
  BY <1>1, HubAssumption DEF AnnounceInv, TriggerTypes
<1>4. \A n \in Metas : Stamp(n)' = Stamp(n)
  BY <1>1 DEF Stamp
<1>5. TriggerTypes'
  BY <1>1, <1>2 DEF AnnounceInv, TriggerTypes
<1>6. StampsArePast'
  BY <1>1 DEF AnnounceInv, StampsArePast
<1>7. failed \subseteq failed' /\ \A n \in Metas : n # tfile => announced'[n] = announced[n]
  BY <1>2, <1>3
<1>8. tfile \in failed' \/ tpc' = "announce" \/ (announced'[tfile] = announced[tfile] /\ announced[tfile] = file[tfile])
  BY <1>2, <1>3 DEF AnnounceInv, TriggerTypes
<1>9. TakenUp'
  <2> SUFFICES ASSUME NEW n \in Metas, announced'[n] # None
               PROVE  told[n] = announced'[n] \/ n \in failed' \/ (tpc' = "announce" /\ tfile = n)
    BY <1>1 DEF TakenUp
  <2>1. CASE n = tfile
    BY <1>1, <1>7, <1>8, <2>1 DEF AnnounceInv, TakenUp
  <2>2. CASE n # tfile
    BY <1>1, <1>7, <2>2 DEF AnnounceInv, TakenUp
  <2> QED BY <2>1, <2>2
<1>10. OthersTold'
  <2> SUFFICES ASSUME NEW n \in Metas, n \in fresh \/ told[n] # None, stamps[n] = Stamp(n)
               PROVE  \/ told[n] = file[n] \/ n \in failed' \/ n \in blurred
                      \/ (tpc' \in {"read", "announce"} /\ tfile = n)
    BY <1>1, <1>4 DEF OthersTold
  <2>1. CASE n = tfile
    <3>1. CASE announced[tfile] = file[tfile] /\ tfile \notin failed
      BY <1>1, <1>3, <2>1, <3>1 DEF AnnounceInv, TakenUp
    <3> QED BY <1>7, <1>8, <2>1, <3>1
  <2>2. CASE n # tfile
    BY <1>7, <2>2 DEF AnnounceInv, OthersTold
  <2> QED BY <2>1, <2>2
<1>11. AboutToTell'
  <2>1. tpc' = "announce" => announced'[tfile] = file[tfile]
    BY <1>2, <1>3
  <2> QED BY <1>1, <2>1 DEF AboutToTell
<1> QED BY <1>5, <1>6, <1>9, <1>10, <1>11 DEF AnnounceInv

(* The broker is given what was read.                                      *)
LEMMA AnnounceTell == ASSUME AnnounceInv, Invalidate PROVE AnnounceInv'
<1>1. /\ tpc = "announce" /\ tpc' = "scan"
      /\ told' = [told EXCEPT ![tfile] = announced[tfile]] /\ failed' = failed \ {tfile}
      /\ UNCHANGED <<tfile, names, stamps, announced, primed, file, mtime, fresh, blurred>>
  BY DEF Invalidate, origin
<1>2. tfile \in Metas /\ stamps[tfile] # None /\ DOMAIN told = Metas
  BY <1>1 DEF AnnounceInv, TriggerTypes
<1>3. told'[tfile] = announced[tfile] /\ \A n \in Metas : n # tfile => told'[n] = told[n]
  BY <1>1, <1>2
<1>4. \A n \in Metas : Stamp(n)' = Stamp(n)
  BY <1>1 DEF Stamp
<1>5. TriggerTypes'
  BY <1>1 DEF AnnounceInv, TriggerTypes
<1>6. StampsArePast'
  BY <1>1, <1>2, <1>3 DEF AnnounceInv, StampsArePast
<1>7. TakenUp'
  BY <1>1, <1>3 DEF AnnounceInv, TakenUp
<1>8. OthersTold'
  <2> SUFFICES ASSUME NEW n \in Metas, n \in fresh \/ told'[n] # None, stamps[n] = Stamp(n)
               PROVE  told'[n] = file[n] \/ n \in failed' \/ n \in blurred
    BY <1>1, <1>4 DEF OthersTold
  <2>1. CASE n = tfile
    BY <1>1, <1>3, <2>1 DEF AnnounceInv, AboutToTell
  <2>2. CASE n # tfile
    BY <1>1, <1>3, <2>2 DEF AnnounceInv, OthersTold
  <2> QED BY <2>1, <2>2
<1>9. AboutToTell'
  BY <1>1 DEF AboutToTell
<1> QED BY <1>5, <1>6, <1>7, <1>8, <1>9 DEF AnnounceInv

(* The rest of a scan.                                                     *)
LEMMA AnnounceScan ==
    ASSUME AnnounceInv, ReadDir \/ Primed \/ (\E m \in Metas : StatFails(m)) PROVE AnnounceInv'
<1>1. /\ tpc \in {"wait", "scan"} /\ tpc' \in {"wait", "scan"} /\ (primed => primed')
      /\ UNCHANGED <<tfile, stamps, announced, told, failed, file, mtime, fresh, blurred>>
  BY DEF ReadDir, Primed, StatFails, origin
<1>2. names' \subseteq names \union {m \in Metas : mtime[m] # 0}
  BY DEF ReadDir, Primed, StatFails
<1>3. TriggerTypes'
  BY <1>1, <1>2 DEF AnnounceInv, TriggerTypes
<1>4. StampsArePast' /\ TakenUp'
  BY <1>1 DEF AnnounceInv, StampsArePast, TakenUp
<1>5. \A n \in Metas : Stamp(n)' = Stamp(n)
  BY <1>1 DEF Stamp
<1>6. OthersTold' /\ AboutToTell'
  BY <1>1, <1>5 DEF AnnounceInv, OthersTold, AboutToTell
<1> QED BY <1>3, <1>4, <1>6 DEF AnnounceInv

(* AnnounceInv is inductive.                                               *)
LEMMA AnnounceStep == AnnounceInv /\ [Next]_vars => AnnounceInv'
<1> SUFFICES ASSUME AnnounceInv, [Next]_vars PROVE AnnounceInv'
  OBVIOUS
<1>1. ASSUME UNCHANGED <<trigger, origin>> PROVE AnnounceInv'
  <2>1. UNCHANGED <<tpc, tfile, names, stamps, announced, primed, told, failed, file, mtime, fresh, blurred>>
    BY <1>1 DEF trigger, origin
  <2>2. TriggerTypes' /\ StampsArePast' /\ TakenUp'
    BY <2>1 DEF AnnounceInv, TriggerTypes, StampsArePast, TakenUp
  <2>3. OthersTold' /\ AboutToTell'
    BY <2>1 DEF AnnounceInv, OthersTold, AboutToTell, Stamp
  <2> QED BY <2>2, <2>3 DEF AnnounceInv
<1>2. ASSUME NEW r \in Clients, Request(r) PROVE AnnounceInv'
  BY <1>1, <1>2 DEF Request, Lookup, Join, Lead, Read, Land, Finish, Wake, Serve
<1>3. ASSUME NEW r \in Clients, NEW o \in Objects, Arrive(r, o) PROVE AnnounceInv'
  BY <1>1, <1>3 DEF Arrive
<1>4. ASSUME Trigger PROVE AnnounceInv'
  BY <1>4, AnnounceStat, AnnounceRead, AnnounceTell, AnnounceScan DEF Trigger
<1>5. ASSUME NEW m \in Metas, NEW b \in Releases, Write(m, b) PROVE AnnounceInv'
  BY <1>5, AnnounceWrite
<1>6. CASE UNCHANGED vars
  BY <1>1, <1>6 DEF vars
<1> QED BY <1>2, <1>3, <1>4, <1>5, <1>6 DEF Next

(* No write is passed over in silence, however writes, the steps of scans  *)
(* and their failures interleave.                                          *)
THEOREM HubSeenIsTold == Spec => []SeenIsTold
<1>1. AnnounceInv => SeenIsTold
  BY DEF AnnounceInv, OthersTold, SeenIsTold
<1> QED BY <1>1, AnnounceInit, AnnounceStep, PTL DEF Spec

-----------------------------------------------------------------------------
(* The composition with receivers that poll the channel and publishers     *)
(* that only move it forward takes only steps of the hub ...               *)
THEOREM PipelineIsHub == PipelineSpec => Spec
<1>1. PipelineInit => Init
  BY DEF PipelineInit
<1>2. [PipelineNext]_pipelineVars => [Next]_vars
  <2>1. ASSUME NEW r \in Clients, Work(r) PROVE Next
    BY <2>1 DEF Work, Deliver, Request, Next
  <2>2. ASSUME NEW r \in Clients, NEW o \in Objects, Get(r, o) PROVE Next
    BY <2>2 DEF Get, Next
  <2>3. ASSUME NEW m \in Metas, NEW b \in Releases \ Garbled, Promote(m, b) PROVE Next
    BY <2>3 DEF Promote, Next
  <2>4. Scan => Next
    BY DEF Scan, Next
  <2>5. UNCHANGED pipelineVars => UNCHANGED vars
    BY DEF pipelineVars
  <2> QED BY <2>1, <2>2, <2>3, <2>4, <2>5 DEF PipelineNext
<1> QED BY <1>1, <1>2, PTL DEF PipelineSpec, Spec

(* ... so everything above holds of it: the cache is accounted for, nobody *)
(* is left waiting, covered metadata is fresh, no write is passed over in   *)
(* silence and no receiver is served flipped metadata.                     *)
THEOREM PipelineIsSafe ==
    PipelineSpec => [](CacheBound /\ FlightHasLeader /\ CleanIsFresh /\ SeenIsTold /\ MetadataIsIntact)
BY PipelineIsHub, HubCacheBound, HubFlightHasLeader, HubCleanIsFresh, HubSeenIsTold,
   HubMetadataIsIntact, PTL
=============================================================================
