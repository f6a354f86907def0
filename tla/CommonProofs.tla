---------------------------- MODULE CommonProofs ----------------------------
(***************************************************************************)
(* What the proofs about the clocks have in common: what the histories of  *)
(* Causality look like, whatever clock stamps them, induction over data,   *)
(* and the bytes of a number.                                              *)
(***************************************************************************)
EXTENDS Causality, BigEndian, FiniteSetTheorems, NaturalsInduction, TLAPS

-----------------------------------------------------------------------------
(* Histories.                                                              *)

(* An empty history is well formed. *)
LEMMA HistoryInitOK ==
  ASSUME NEW Stamp, HistoryInit
  PROVE  HistoryTypeOK(Stamp) /\ HistoryOK
BY MaxEventsAssumption
   DEF HistoryInit, HistoryTypeOK, HistoryOK, KnownAreRecorded, RecordedOnce,
       ProcessOrder, Irreflexive

(* Causes that an event of p may have: all that p knows, all recorded. *)
Causes(p, past) ==
  /\ past \subseteq Ids
  /\ known[p] \subseteq past
  /\ \A id \in past : \E e \in log : EventId(e) = id

(* Everything p knows may cause its next event. *)
LEMMA LocalCauses ==
  ASSUME NEW Stamp, HistoryTypeOK(Stamp), HistoryOK, NEW p \in Node
  PROVE  Causes(p, known[p])
BY DEF HistoryTypeOK, HistoryOK, KnownAreRecorded, Causes

(* So may the events that a message brings along. *)
LEMMA ReceiveCauses ==
  ASSUME NEW Stamp, HistoryTypeOK(Stamp), HistoryOK, NEW p \in Node, NEW m \in net
  PROVE  Causes(p, known[p] \cup m.past \cup {EventId(m)})
<1>1. m \in log /\ m.past \subseteq Ids /\ EventId(m) \in Ids
  BY DEF HistoryTypeOK, EventId, Ids
<1> QED
  BY <1>1 DEF HistoryTypeOK, HistoryOK, KnownAreRecorded, Causes

(* A new event is unlike every earlier one, and causes none of them. *)
LEMMA NewEventIsNew ==
  ASSUME NEW Stamp, HistoryTypeOK(Stamp), HistoryOK,
         NEW p \in Node, NEW past, Causes(p, past), NEW stamp
  PROVE  LET f == NewEvent(p, past, stamp) IN
         /\ EventId(f) = <<p, executed[p] + 1>>
         /\ f.past = past /\ f.stamp = stamp /\ f.node = p /\ f.seq = executed[p] + 1
         /\ ~HappensBefore(f, f)
         /\ \A e \in log : EventId(e) # EventId(f) /\ ~HappensBefore(f, e)
         /\ \A e \in log : HappensBefore(e, f) <=> EventId(e) \in past
<1> DEFINE f == NewEvent(p, past, stamp)
<1>1. /\ EventId(f) = <<p, executed[p] + 1>>
      /\ f.past = past /\ f.stamp = stamp /\ f.node = p /\ f.seq = executed[p] + 1
  BY DEF NewEvent, EventId
<1>2. executed[p] \in Int
  BY MaxEventsAssumption DEF HistoryTypeOK
<1>3. \A e \in log : EventId(e) # EventId(f)
  BY <1>1, <1>2 DEF HistoryOK, RecordedOnce, EventId, HistoryTypeOK
<1>4. \A e \in log : ~HappensBefore(f, e)
  BY <1>3 DEF HistoryOK, KnownAreRecorded, HappensBefore
<1>5. ~HappensBefore(f, f)
  BY <1>1, <1>3 DEF Causes, HappensBefore
<1>6. \A e \in log : HappensBefore(e, f) <=> EventId(e) \in past
  BY <1>1 DEF HappensBefore
<1> HIDE DEF f
<1> QED
  BY <1>1, <1>3, <1>4, <1>5, <1>6 DEF f

(* Recording an event keeps the history well formed. *)
LEMMA RecordOK ==
  ASSUME NEW Stamp, HistoryTypeOK(Stamp), HistoryOK,
         NEW p \in Node, NEW past, Causes(p, past), NEW stamp \in Stamp,
         Record(p, past, stamp),
         net' = net \/ net' = net \cup {NewEvent(p, past, stamp)}
  PROVE  HistoryTypeOK(Stamp)' /\ HistoryOK'
<1> DEFINE f == NewEvent(p, past, stamp)
<1>1. /\ EventId(f) = <<p, executed[p] + 1>>
      /\ f.past = past /\ f.stamp = stamp /\ f.node = p /\ f.seq = executed[p] + 1
      /\ ~HappensBefore(f, f)
      /\ \A e \in log : EventId(e) # EventId(f) /\ ~HappensBefore(f, e)
      /\ \A e \in log : HappensBefore(e, f) <=> EventId(e) \in past
  BY NewEventIsNew
<1>2. /\ log' = log \cup {f}
      /\ executed' = [executed EXCEPT ![p] = executed[p] + 1]
      /\ known' = [known EXCEPT ![p] = past \cup {EventId(f)}]
      /\ executed[p] < MaxEvents
  BY <1>1 DEF Record
<1>3. HistoryTypeOK(Stamp)'
  <2>1. executed[p] + 1 \in 1..MaxEvents
    BY <1>2, MaxEventsAssumption DEF HistoryTypeOK
  <2>2. f \in [node : Node, seq : 1..MaxEvents, stamp : Stamp, past : SUBSET Ids]
    BY <2>1 DEF NewEvent, Causes
  <2>3. EventId(f) \in Ids
    BY <1>1, <2>1 DEF Ids
  <2>4. executed' \in [Node -> 0..MaxEvents]
    BY <1>2, <2>1 DEF HistoryTypeOK
  <2>5. known' \in [Node -> SUBSET Ids]
    BY <1>2, <2>3 DEF HistoryTypeOK, Causes
  <2>6. log' \subseteq [node : Node, seq : 1..MaxEvents,
                        stamp : Stamp, past : SUBSET Ids]
    BY <1>2, <2>2 DEF HistoryTypeOK
  <2>7. net' \subseteq log'
    BY <1>2 DEF HistoryTypeOK
  <2> QED
    BY <2>4, <2>5, <2>6, <2>7 DEF HistoryTypeOK
<1> HIDE DEF f
<1>4. KnownAreRecorded'
  <2>1. \A id \in past \cup {EventId(f)} : \E e \in log' : EventId(e) = id
    BY <1>2 DEF Causes
  <2>2. \A q \in Node : \A id \in known'[q] : \E e \in log' : EventId(e) = id
    BY <1>2, <2>1 DEF HistoryOK, KnownAreRecorded, HistoryTypeOK
  <2>3. \A g \in log' : \A id \in g.past : \E e \in log' : EventId(e) = id
    BY <1>1, <1>2, <2>1 DEF HistoryOK, KnownAreRecorded
  <2> QED
    BY <2>2, <2>3 DEF KnownAreRecorded, EventId
<1>5. RecordedOnce'
  <2>1. \A e \in log' : e.seq <= executed'[e.node]
    BY <1>1, <1>2, MaxEventsAssumption DEF HistoryOK, RecordedOnce, HistoryTypeOK
  <2>2. \A e, g \in log' : EventId(e) = EventId(g) => e = g
    BY <1>1, <1>2 DEF HistoryOK, RecordedOnce
  <2> QED
    BY <2>1, <2>2 DEF RecordedOnce, EventId
<1>6. ProcessOrder'
  <2>1. \A e \in log' : EventId(e) \in known'[e.node]
    BY <1>1, <1>2 DEF HistoryOK, ProcessOrder, HistoryTypeOK, Causes
  <2>2. ASSUME NEW e \in log', NEW g \in log', e.node = g.node, e.seq < g.seq
        PROVE  HappensBefore(e, g)
    <3>1. CASE e \in log /\ g \in log
      BY <2>2, <3>1 DEF HistoryOK, ProcessOrder
    <3>2. CASE e \in log /\ g = f
      BY <1>1, <2>2, <3>2 DEF HistoryOK, ProcessOrder, Causes
    <3>3. CASE e = f
      BY <1>1, <1>2, <2>2, <3>3, MaxEventsAssumption
         DEF HistoryOK, RecordedOnce, HistoryTypeOK
    <3> QED
      BY <1>2, <3>1, <3>2, <3>3
  <2> QED
    BY <2>1, <2>2 DEF ProcessOrder, EventId, HappensBefore
<1>7. Irreflexive'
  BY <1>1, <1>2 DEF HistoryOK, Irreflexive, HappensBefore, EventId
<1> QED
  BY <1>3, <1>4, <1>5, <1>6, <1>7 DEF HistoryOK

-----------------------------------------------------------------------------
(* Induction over data.  What is shown by induction is given as the set P  *)
(* of the values that have it, not as a predicate.                         *)

(* The order of the naturals is well founded. *)
LEMMA NatLess ==
  \E R : IsWellFoundedOn(R, Nat) /\ \A x, y \in Nat : <<x, y>> \in R <=> x < y
<1>1. \A x, y \in Nat : <<x, y>> \in OpToRel(<, Nat) <=> x < y
  BY Zenon DEF OpToRel
<1> QED
  BY <1>1, NatLessThanWellFounded, Zenon

(* A set of naturals that is not empty has a least element. *)
LEMMA LeastNat ==
  ASSUME NEW S, S \subseteq Nat, S # {}
  PROVE  \E n \in S : \A m \in S : n <= m
<1>1. PICK R : IsWellFoundedOn(R, Nat) /\ \A x, y \in Nat : <<x, y>> \in R <=> x < y
  BY NatLess, Zenon
<1>2. \E x \in S : \A y \in S : ~ (<<y, x>> \in R)
  <2>1. IsWellFoundedOn(R, Nat)
    BY <1>1, Zenon
  <2> QED
    BY ONLY <2>1, S \subseteq Nat, S # {}, WFMin
<1>3. \E x \in S : \A y \in S : ~ (y < x)
  BY <1>1, <1>2, Zenon
<1>4. \A x, y \in S : ~ (y < x) => x <= y
  BY SMT
<1> QED
  BY <1>3, <1>4, Zenon

(* Induction over the naturals. *)
LEMMA NatSetInduction ==
  ASSUME NEW P, 0 \in P, \A n \in Nat : n \in P => n + 1 \in P
  PROVE  Nat \subseteq P
<1> SUFFICES ASSUME NEW m \in Nat, m \notin P PROVE FALSE
  OBVIOUS
<1> DEFINE Bad == {k \in Nat : k \notin P}
<1>1. PICK n \in Bad : \A k \in Bad : n <= k
  <2>1. Bad \subseteq Nat /\ Bad # {}
    OBVIOUS
  <2> HIDE DEF Bad
  <2> QED
    BY <2>1, LeastNat
<1>2. n # 0 /\ n - 1 \in Nat /\ n - 1 \notin Bad /\ (n - 1) + 1 = n
  BY <1>1
<1> QED
  BY <1>1, <1>2

(* Induction over the subsets of a finite set: a smallest subset outside P *)
(* would have all its smaller subsets in P.                                *)
LEMMA SubsetInduction ==
  ASSUME NEW S, IsFiniteSet(S), NEW P,
         {} \in P,
         \A t \in SUBSET S : t # {} /\ (\A x \in t : t \ {x} \in P) => t \in P
  PROVE  SUBSET S \subseteq P
<1> SUFFICES ASSUME NEW r \in SUBSET S, r \notin P PROVE FALSE
  OBVIOUS
<1> DEFINE Bad == {t \in SUBSET S : t \notin P}
           Sizes == {Cardinality(t) : t \in Bad}
<1>1. \A t \in SUBSET S : IsFiniteSet(t) /\ Cardinality(t) \in Nat
  BY FS_Subset, FS_CardinalityType
<1>2. Sizes \subseteq Nat /\ Sizes # {}
  BY <1>1
<1>3. PICK n \in Sizes : \A k \in Sizes : n <= k
  <2> HIDE DEF Sizes
  <2> QED
    BY <1>2, LeastNat
<1>4. PICK t \in Bad : n = Cardinality(t)
  BY <1>3
<1>5. ASSUME NEW x \in t PROVE t \ {x} \in P
  <2>1. Cardinality(t \ {x}) = Cardinality(t) - 1
    BY <1>1, <1>4, FS_RemoveElement
  <2>2. t \ {x} \in SUBSET S
    BY <1>4
  <2>3. t \ {x} \in Bad => Cardinality(t) <= Cardinality(t) - 1
    BY <1>3, <1>4, <2>1
  <2> QED
    BY <1>1, <1>4, <2>2, <2>3
<1> QED
  BY <1>4, <1>5

\* h is what a loop of n rounds computes from a
Rounds(h, n, a, D, step) ==
  /\ h \in [0..n -> D]
  /\ h[0] = a
  /\ \A i \in 1..n : h[i] = step[i][h[i - 1]]

(* A loop of n rounds computes something. *)
LEMMA RoundsExist ==
  ASSUME NEW n \in Nat, NEW D, NEW a \in D, NEW step \in [1..n -> [D -> D]]
  PROVE  \E h : Rounds(h, n, a, D, step)
<1> DEFINE P == {k \in Nat : k <= n => \E h : Rounds(h, k, a, D, step)}
<1>1. 0 \in P
  <2> DEFINE h == [i \in 0..0 |-> a]
  <2>1. Rounds(h, 0, a, D, step)
    BY DEF Rounds
  <2> HIDE DEF h
  <2> QED
    BY <2>1
<1>2. ASSUME NEW k \in Nat, k \in P, k + 1 <= n
      PROVE  \E h : Rounds(h, k + 1, a, D, step)
  <2>1. PICK h : Rounds(h, k, a, D, step)
    BY <1>2
  <2> DEFINE g == [i \in 0..(k + 1) |-> IF i = k + 1 THEN step[k + 1][h[k]] ELSE h[i]]
  <2>2. h \in [0..k -> D] /\ h[k] \in D /\ k + 1 \in 1..n
    BY <1>2, <2>1 DEF Rounds
  <2>3. step[k + 1][h[k]] \in D
    BY <2>2
  <2>4. g \in [0..(k + 1) -> D]
    BY <2>2, <2>3
  <2>5. g[0] = a
    BY <2>1 DEF Rounds
  <2>6. ASSUME NEW i \in 1..(k + 1) PROVE g[i] = step[i][g[i - 1]]
    <3>1. g[i - 1] = h[i - 1]
      OBVIOUS
    <3>2. CASE i = k + 1
      BY <3>1, <3>2
    <3>3. CASE i # k + 1
      <4>1. i \in 1..k /\ g[i] = h[i]
        BY <3>3
      <4> QED
        BY <2>1, <3>1, <4>1 DEF Rounds
    <3> QED
      BY <3>2, <3>3
  <2> HIDE DEF g
  <2>7. Rounds(g, k + 1, a, D, step)
    BY <2>4, <2>5, <2>6 DEF Rounds
  <2> QED
    BY <2>7
<1>3. \A k \in Nat : k \in P => k + 1 \in P
  BY <1>2
<1>4. Nat \subseteq P
  <2> HIDE DEF P
  <2> QED
    BY <1>1, <1>3, NatSetInduction
<1> QED
  BY <1>4

-----------------------------------------------------------------------------
(* The bytes of a number.                                                  *)

\* the equations of the loops of Capacity, Put and Uint
ValuesLoop(h, w) ==
  h = [i \in 0..w |-> IF i = 0 THEN 1 ELSE Base * h[i - 1]]
ShiftedLoop(h, x, w) ==
  h = [i \in 0..w |-> IF i = 0 THEN x ELSE h[i - 1] \div Base]
ReadLoop(h, bytes) ==
  h = [i \in 0..Len(bytes) |-> IF i = 0 THEN 0 ELSE h[i - 1] * Base + bytes[i]]

(* The product of two naturals is one. *)
LEMMA ProductOfNaturals ==
  ASSUME NEW a \in Nat, NEW b \in Nat
  PROVE  a * b \in Nat
OBVIOUS

(* Division by the number of values of a byte. *)
LEMMA Division ==
  ASSUME NEW x \in Nat
  PROVE  /\ x \div Base \in Nat /\ x % Base \in Byte
         /\ x = (x \div Base) * Base + (x % Base)
         /\ \A c \in Nat : x < Base * c => x \div Base < c
<1>1. Base \in Nat \ {0}
  BY BaseAssumption
<1>2. /\ x \div Base \in Int /\ x % Base \in 0..(Base - 1)
      /\ x = Base * (x \div Base) + (x % Base)
  BY <1>1
<1> DEFINE q == x \div Base
           r == x % Base
<1> HIDE DEF q, r
<1>3. q \in Int /\ r \in 0..(Base - 1) /\ x = Base * q + r
  BY <1>2 DEF q, r
<1>4. q \in Nat
  <2> SUFFICES ASSUME q <= -1 PROVE FALSE
    BY <1>3
  <2>1. Base * (-1 - q) \in Nat
    BY <1>1, <1>3, ProductOfNaturals
  <2> QED
    BY <1>1, <1>3, <2>1
<1>5. ASSUME NEW c \in Nat, x < Base * c PROVE q < c
  <2> SUFFICES ASSUME c <= q PROVE FALSE
    BY <1>3
  <2>1. Base * (q - c) \in Nat
    BY <1>1, <1>3, ProductOfNaturals
  <2> QED
    BY <1>1, <1>3, <1>5, <2>1
<1>6. x = q * Base + r
  BY <1>1, <1>3
<1> QED
  BY <1>3, <1>4, <1>5, <1>6 DEF q, r, Byte

(* The numbers of values of 0 to w bytes. *)
LEMMA CapacityRounds ==
  ASSUME NEW w \in Nat
  PROVE  \E c \in [0..w -> Nat] :
           /\ c[0] = 1 /\ c[w] = Capacity(w)
           /\ \A i \in 1..w : c[i] = Base * c[i - 1]
<1> DEFINE c == CHOOSE h : ValuesLoop(h, w)
           step == [i \in 1..w |-> [k \in Nat |-> Base * k]]
<1>1. Capacity(w) = c[w]
  BY DEF Capacity, ValuesLoop
<1>2. step \in [1..w -> [Nat -> Nat]]
  BY BaseAssumption
<1>3. \A i \in 1..w, k \in Nat : step[i][k] = Base * k
  OBVIOUS
<1> HIDE DEF step
<1>4. PICK h : Rounds(h, w, 1, Nat, step)
  BY <1>2, RoundsExist
<1>5. ASSUME NEW i \in 1..w PROVE h[i] = Base * h[i - 1]
  BY <1>3, <1>4 DEF Rounds
<1>6. ValuesLoop(h, w)
  <2>1. h = [i \in 0..w |-> h[i]]
    BY <1>4 DEF Rounds
  <2>2. \A i \in 0..w : h[i] = IF i = 0 THEN 1 ELSE Base * h[i - 1]
    BY <1>4, <1>5 DEF Rounds
  <2> QED
    BY <2>1, <2>2 DEF ValuesLoop
<1>7. ValuesLoop(c, w)
  BY <1>6
<1> HIDE DEF c
<1>8. c[0] = 1 /\ \A i \in 1..w : c[i] = Base * c[i - 1]
  BY <1>7 DEF ValuesLoop
<1> DEFINE P == {i \in Nat : i <= w => c[i] \in Nat}
<1>9. 0 \in P
  BY <1>8
<1>10. ASSUME NEW i \in Nat, i \in P PROVE i + 1 \in P
  <2> SUFFICES ASSUME i + 1 <= w PROVE c[i + 1] \in Nat
    OBVIOUS
  <2>1. c[i + 1] = Base * c[i] /\ c[i] \in Nat
    BY <1>8, <1>10
  <2> QED
    BY <2>1, BaseAssumption
<1>11. Nat \subseteq P
  <2> HIDE DEF P
  <2> QED
    BY <1>9, <1>10, NatSetInduction
<1>12. c \in [0..w -> Nat]
  <2>1. c = [i \in 0..w |-> c[i]]
    BY <1>7 DEF ValuesLoop
  <2>2. \A i \in 0..w : c[i] \in Nat
    BY <1>11
  <2> QED
    BY <2>1, <2>2
<1> QED
  BY <1>1, <1>8, <1>12

\* s are the successive quotients of x, the remainders of which are put into w bytes
Quotients(s, x, w) ==
  /\ s \in [0..w -> Nat]
  /\ s[0] = x /\ s[w] = 0
  /\ \A i \in 1..w : s[i] = s[i - 1] \div Base
  /\ \A i \in 1..w : s[i - 1] = s[i] * Base + (s[i - 1] % Base)
  /\ \A i \in 0..w : s[i] % Base \in Byte
  /\ Put(x, w) = [i \in 1..w |-> s[w - i] % Base]

(* The shifts of a number that fits w bytes: the last of them leaves 0. *)
LEMMA PutRounds ==
  ASSUME NEW w \in Nat, NEW x \in Nat, x < Capacity(w)
  PROVE  \E s : Quotients(s, x, w)
<1> DEFINE s == CHOOSE h : ShiftedLoop(h, x, w)
           step == [i \in 1..w |-> [k \in Nat |-> k \div Base]]
<1>1. Put(x, w) = [i \in 1..w |-> s[w - i] % Base]
  BY DEF Put, ShiftedLoop
<1>2. step \in [1..w -> [Nat -> Nat]]
  BY Division
<1>3. \A i \in 1..w, k \in Nat : step[i][k] = k \div Base
  OBVIOUS
<1> HIDE DEF step
<1>4. PICK h : Rounds(h, w, x, Nat, step)
  BY <1>2, RoundsExist
<1>5. ASSUME NEW i \in 1..w PROVE h[i] = h[i - 1] \div Base
  BY <1>3, <1>4 DEF Rounds
<1>6. ShiftedLoop(h, x, w)
  <2>1. h = [i \in 0..w |-> h[i]]
    BY <1>4 DEF Rounds
  <2>2. \A i \in 0..w : h[i] = IF i = 0 THEN x ELSE h[i - 1] \div Base
    BY <1>4, <1>5 DEF Rounds
  <2> QED
    BY <2>1, <2>2 DEF ShiftedLoop
<1>7. ShiftedLoop(s, x, w)
  BY <1>6
<1> HIDE DEF s
<1>8. s[0] = x /\ \A i \in 1..w : s[i] = s[i - 1] \div Base
  BY <1>7 DEF ShiftedLoop
<1>9. PICK c \in [0..w -> Nat] :
        /\ c[0] = 1 /\ c[w] = Capacity(w)
        /\ \A i \in 1..w : c[i] = Base * c[i - 1]
  BY CapacityRounds
<1> DEFINE P == {i \in Nat : i <= w => s[i] \in Nat /\ s[i] < c[w - i]}
<1>10. 0 \in P
  BY <1>8, <1>9
<1>11. ASSUME NEW i \in Nat, i \in P PROVE i + 1 \in P
  <2> SUFFICES ASSUME i + 1 <= w PROVE s[i + 1] \in Nat /\ s[i + 1] < c[w - (i + 1)]
    OBVIOUS
  <2>1. s[i] \in Nat /\ s[i] < c[w - i]
    BY <1>11
  <2>2. s[i + 1] = s[i] \div Base
    BY <1>8
  <2>3. w - i \in 1..w /\ (w - i) - 1 = w - (i + 1) /\ w - (i + 1) \in 0..w
    OBVIOUS
  <2>4. c[w - i] = Base * c[w - (i + 1)] /\ c[w - (i + 1)] \in Nat
    BY <1>9, <2>3
  <2>5. s[i] < Base * c[w - (i + 1)]
    BY <2>1, <2>4
  <2>6. s[i] \div Base \in Nat /\ s[i] \div Base < c[w - (i + 1)]
    <3> DEFINE x1 == s[i]
               c1 == c[w - (i + 1)]
    <3>1. x1 \in Nat /\ c1 \in Nat /\ x1 < Base * c1
      BY <2>1, <2>4, <2>5
    <3> HIDE DEF x1, c1
    <3>2. x1 \div Base \in Nat /\ x1 \div Base < c1
      BY <3>1, Division
    <3> QED
      BY <3>2 DEF x1, c1
  <2> QED
    BY <2>2, <2>6, Zenon
<1>12. Nat \subseteq P
  <2> HIDE DEF P
  <2> QED
    BY <1>10, <1>11, NatSetInduction
<1>13. s \in [0..w -> Nat]
  <2>1. s = [i \in 0..w |-> s[i]]
    BY <1>7 DEF ShiftedLoop
  <2>2. \A i \in 0..w : s[i] \in Nat
    BY <1>12
  <2> QED
    BY <2>1, <2>2
<1>14. s[w] = 0
  <2>1. s[w] \in Nat /\ s[w] < c[w - w]
    BY <1>12
  <2> QED
    BY <1>9, <2>1
<1>15. ASSUME NEW i \in 1..w PROVE s[i - 1] = s[i] * Base + (s[i - 1] % Base)
  <2>1. s[i - 1] \in Nat /\ s[i] = s[i - 1] \div Base
    BY <1>8, <1>13
  <2> QED
    BY <2>1, Division
<1>16. \A i \in 0..w : s[i] % Base \in Byte
  BY <1>13, Division
<1> QED
  BY <1>1, <1>8, <1>13, <1>14, <1>15, <1>16 DEF Quotients

(* What is put into w bytes is a string of w bytes. *)
LEMMA PutType ==
  ASSUME NEW w \in Nat, NEW x \in Nat, x < Capacity(w)
  PROVE  Put(x, w) \in Seq(Byte) /\ Len(Put(x, w)) = w
<1>1. PICK s : Quotients(s, x, w)
  BY PutRounds
<1>2. \A i \in 1..w : s[w - i] % Base \in Byte
  BY <1>1 DEF Quotients
<1>3. Put(x, w) = [i \in 1..w |-> s[w - i] % Base]
  BY <1>1 DEF Quotients
<1> QED
  BY <1>2, <1>3

(* Reading the bytes of a number that fits gives the number back. *)
LEMMA UintOfPut ==
  ASSUME NEW w \in Nat, NEW x \in Nat, x < Capacity(w)
  PROVE  Uint(Put(x, w)) = x
<1>0. PICK s : Quotients(s, x, w)
  BY PutRounds
<1>1. /\ s \in [0..w -> Nat] /\ s[0] = x /\ s[w] = 0
      /\ \A i \in 1..w : s[i - 1] = s[i] * Base + (s[i - 1] % Base)
      /\ \A i \in 0..w : s[i] % Base \in Byte
      /\ Put(x, w) = [i \in 1..w |-> s[w - i] % Base]
  BY <1>0 DEF Quotients
<1> DEFINE bytes == Put(x, w)
           r == CHOOSE h : ReadLoop(h, bytes)
           g == [i \in 0..w |-> s[w - i]]
<1>2. Len(bytes) = w
  BY PutType
<1>3. Uint(bytes) = r[w]
  BY <1>2 DEF Uint, ReadLoop
<1>4. \A i \in 1..w : bytes[i] = s[w - i] % Base
  BY <1>1
<1> HIDE DEF bytes
<1>5. \A i \in 1..w : s[w - i] = s[w - (i - 1)] * Base + bytes[i]
  <2> SUFFICES ASSUME NEW i \in 1..w PROVE s[w - i] = s[w - (i - 1)] * Base + bytes[i]
    OBVIOUS
  <2>1. w - (i - 1) \in 1..w /\ (w - (i - 1)) - 1 = w - i
    OBVIOUS
  <2>2. s[w - i] = s[w - (i - 1)] * Base + (s[w - i] % Base)
    BY <1>1, <2>1
  <2> QED
    BY <1>4, <2>2
<1>6. ReadLoop(g, bytes)
  <2>1. \A i \in 0..w : g[i] = IF i = 0 THEN 0 ELSE g[i - 1] * Base + bytes[i]
    BY <1>1, <1>5
  <2>2. g = [i \in 0..w |-> g[i]]
    OBVIOUS
  <2> HIDE DEF g
  <2> QED
    BY <1>2, <2>1, <2>2 DEF ReadLoop
<1>7. ReadLoop(r, bytes)
  <2> HIDE DEF g
  <2> QED
    BY <1>6
<1> HIDE DEF r, g
<1>8. r[0] = 0 /\ \A i \in 1..w : r[i] = r[i - 1] * Base + bytes[i]
  BY <1>2, <1>7 DEF ReadLoop
<1> DEFINE P == {i \in Nat : i <= w => r[i] = s[w - i]}
<1>9. 0 \in P
  BY <1>1, <1>8
<1>10. ASSUME NEW i \in Nat, i \in P PROVE i + 1 \in P
  <2> SUFFICES ASSUME i + 1 <= w PROVE r[i + 1] = s[w - (i + 1)]
    OBVIOUS
  <2>1. r[i] = s[w - i]
    BY <1>10
  <2>2. i + 1 \in 1..w /\ (i + 1) - 1 = i
    OBVIOUS
  <2>3. r[i + 1] = r[i] * Base + bytes[i + 1]
    BY <1>8, <2>2
  <2>4. s[w - (i + 1)] = s[w - i] * Base + bytes[i + 1]
    BY <1>5, <2>2
  <2> QED
    BY <2>1, <2>3, <2>4
<1>11. Nat \subseteq P
  <2> HIDE DEF P
  <2> QED
    BY <1>9, <1>10, NatSetInduction
<1>12. r[w] = s[w - w]
  BY <1>11
<1> QED
  BY <1>1, <1>3, <1>12 DEF bytes

(* One more byte multiplies the values by Base. *)
LEMMA ByteMore ==
  ASSUME NEW x \in Nat, NEW c \in Nat, x < c, NEW b \in Byte
  PROVE  x * Base + b \in Nat /\ x * Base + b < Base * c
<1>1. Base \in Nat \ {0} /\ b \in 0..(Base - 1)
  BY BaseAssumption DEF Byte
<1>2. Base * (c - 1 - x) \in Nat /\ x * Base \in Nat
  BY <1>1, ProductOfNaturals
<1>3. Base * c = Base * (c - 1 - x) + x * Base + Base
  BY <1>1
<1> QED
  BY <1>1, <1>2, <1>3

(* The values that Uint runs through. *)
LEMMA UintRounds ==
  ASSUME NEW bytes \in Seq(Byte)
  PROVE  \E r \in [0..Len(bytes) -> Nat] :
           /\ r[0] = 0 /\ r[Len(bytes)] = Uint(bytes)
           /\ \A i \in 1..Len(bytes) : r[i] = r[i - 1] * Base + bytes[i]
<1> DEFINE w == Len(bytes)
           r == CHOOSE h : ReadLoop(h, bytes)
           step == [i \in 1..w |-> [k \in Nat |-> k * Base + bytes[i]]]
<1>1. Uint(bytes) = r[w]
  BY DEF Uint, ReadLoop
<1>2. w \in Nat /\ \A i \in 1..w : bytes[i] \in Byte
  OBVIOUS
<1> HIDE DEF w
<1>3. step \in [1..w -> [Nat -> Nat]]
  <2>1. ASSUME NEW i \in 1..w, NEW k \in Nat PROVE k * Base + bytes[i] \in Nat
    <3>1. k + 1 \in Nat /\ k < k + 1
      OBVIOUS
    <3> QED
      BY <1>2, <3>1, ByteMore
  <2> QED
    BY <2>1
<1>4. \A i \in 1..w, k \in Nat : step[i][k] = k * Base + bytes[i]
  OBVIOUS
<1> HIDE DEF step
<1>5. PICK h : Rounds(h, w, 0, Nat, step)
  BY <1>2, <1>3, RoundsExist
<1>6. ASSUME NEW i \in 1..w PROVE h[i] = h[i - 1] * Base + bytes[i]
  <2>1. h[i - 1] \in Nat
    BY <1>2, <1>5 DEF Rounds
  <2> QED
    BY <1>4, <1>5, <2>1 DEF Rounds
<1>7. ReadLoop(h, bytes)
  <2>1. h = [i \in 0..w |-> h[i]]
    BY <1>5 DEF Rounds
  <2>2. h[0] = 0 /\ \A i \in 0..w : i # 0 => i \in 1..w
    BY <1>2, <1>5 DEF Rounds
  <2>3. \A i \in 0..w : h[i] = IF i = 0 THEN 0 ELSE h[i - 1] * Base + bytes[i]
    BY <1>6, <2>2, Zenon
  <2> QED
    BY <2>1, <2>3 DEF ReadLoop, w
<1>8. ReadLoop(r, bytes)
  BY <1>7
<1> HIDE DEF r
<1>9. r[0] = 0 /\ \A i \in 1..w : r[i] = r[i - 1] * Base + bytes[i]
  BY <1>2, <1>8 DEF ReadLoop, w
<1> DEFINE P == {i \in Nat : i <= w => r[i] \in Nat}
<1>10. 0 \in P
  BY <1>9
<1>11. ASSUME NEW i \in Nat, i \in P PROVE i + 1 \in P
  <2> SUFFICES ASSUME i + 1 <= w PROVE r[i + 1] \in Nat
    OBVIOUS
  <2>1. r[i] \in Nat /\ i + 1 \in 1..w /\ (i + 1) - 1 = i
    BY <1>2, <1>11
  <2>2. r[i + 1] = r[i] * Base + bytes[i + 1] /\ bytes[i + 1] \in Byte
    BY <1>2, <1>9, <2>1
  <2>3. r[i] + 1 \in Nat /\ r[i] < r[i] + 1
    BY <2>1
  <2>4. r[i] * Base + bytes[i + 1] \in Nat
    BY <2>1, <2>2, <2>3, ByteMore
  <2> QED
    BY <2>2, <2>4, Zenon
<1>12. Nat \subseteq P
  <2> HIDE DEF P
  <2> QED
    BY <1>10, <1>11, NatSetInduction
<1>13. r \in [0..w -> Nat]
  <2>1. r = [i \in 0..w |-> r[i]]
    BY <1>8 DEF ReadLoop, w
  <2>2. \A i \in 0..w : r[i] \in Nat
    BY <1>2, <1>12
  <2> QED
    BY <2>1, <2>2
<1> QED
  BY <1>1, <1>9, <1>13 DEF w

(* What a string of bytes reads as fits as many bytes. *)
LEMMA UintType ==
  ASSUME NEW bytes \in Seq(Byte)
  PROVE  Uint(bytes) \in Nat /\ Uint(bytes) < Capacity(Len(bytes))
<1> DEFINE w == Len(bytes)
<1>1. w \in Nat /\ \A i \in 1..w : bytes[i] \in Byte
  OBVIOUS
<1>2. PICK r \in [0..w -> Nat] :
        /\ r[0] = 0 /\ r[w] = Uint(bytes)
        /\ \A i \in 1..w : r[i] = r[i - 1] * Base + bytes[i]
  BY UintRounds
<1> HIDE DEF w
<1>3. PICK c \in [0..w -> Nat] :
        /\ c[0] = 1 /\ c[w] = Capacity(w)
        /\ \A i \in 1..w : c[i] = Base * c[i - 1]
  BY <1>1, CapacityRounds
<1> DEFINE P == {i \in Nat : i <= w => r[i] < c[i]}
<1>4. 0 \in P
  BY <1>2, <1>3
<1>5. ASSUME NEW i \in Nat, i \in P PROVE i + 1 \in P
  <2> SUFFICES ASSUME i + 1 <= w PROVE r[i + 1] < c[i + 1]
    OBVIOUS
  <2>1. r[i] < c[i] /\ i \in 0..w /\ i + 1 \in 1..w /\ (i + 1) - 1 = i
    BY <1>1, <1>5
  <2>2. r[i + 1] = r[i] * Base + bytes[i + 1] /\ c[i + 1] = Base * c[i]
    BY <1>2, <1>3, <2>1
  <2>3. bytes[i + 1] \in Byte /\ r[i] \in Nat /\ c[i] \in Nat
    BY <1>1, <1>2, <1>3, <2>1
  <2>4. r[i] * Base + bytes[i + 1] < Base * c[i]
    BY <2>1, <2>3, ByteMore
  <2> QED
    BY <2>2, <2>4, Zenon
<1>6. Nat \subseteq P
  <2> HIDE DEF P
  <2> QED
    BY <1>4, <1>5, NatSetInduction
<1>7. r[w] < c[w] /\ r[w] \in Nat
  BY <1>1, <1>2, <1>6
<1> QED
  BY <1>2, <1>3, <1>7 DEF w

(* A number is split into its last byte and the rest in one way. *)
LEMMA LastByte ==
  ASSUME NEW x \in Nat, NEW b \in Byte
  PROVE  (x * Base + b) \div Base = x /\ (x * Base + b) % Base = b
<1> DEFINE y == x * Base + b
           q == y \div Base
           r == y % Base
<1>1. Base \in Nat \ {0} /\ b \in 0..(Base - 1)
  BY BaseAssumption DEF Byte
<1>2. y \in Nat
  BY <1>1, ProductOfNaturals
<1> HIDE DEF y
<1>3. q \in Nat /\ r \in Byte /\ y = q * Base + r
  BY <1>2, Division
<1> HIDE DEF q, r
<1>4. r \in 0..(Base - 1) /\ x * Base + b = q * Base + r
  BY <1>3 DEF y, Byte
<1>5. ~(q < x)
  <2> SUFFICES ASSUME q < x PROVE FALSE
    OBVIOUS
  <2>1. Base * (x - 1 - q) \in Nat
    BY <1>1, <1>3, ProductOfNaturals
  <2>2. x * Base = Base * (x - 1 - q) + q * Base + Base
    BY <1>1, <1>3
  <2> QED
    BY <1>1, <1>3, <1>4, <2>1, <2>2
<1>6. ~(x < q)
  <2> SUFFICES ASSUME x < q PROVE FALSE
    OBVIOUS
  <2>1. Base * (q - 1 - x) \in Nat
    BY <1>1, <1>3, ProductOfNaturals
  <2>2. q * Base = Base * (q - 1 - x) + x * Base + Base
    BY <1>1, <1>3
  <2> QED
    BY <1>1, <1>3, <1>4, <2>1, <2>2
<1>7. q = x
  BY <1>3, <1>5, <1>6
<1>8. r = b
  BY <1>1, <1>3, <1>4, <1>7
<1> QED
  BY <1>7, <1>8 DEF q, r, y

(* Writing the number that a string of bytes reads as gives the string. *)
LEMMA PutOfUint ==
  ASSUME NEW bytes \in Seq(Byte)
  PROVE  Put(Uint(bytes), Len(bytes)) = bytes
<1> DEFINE w == Len(bytes)
           x == Uint(bytes)
<1>1. w \in Nat /\ \A i \in 1..w : bytes[i] \in Byte
  OBVIOUS
<1>2. x \in Nat /\ x < Capacity(w)
  BY UintType
<1>3. bytes = [i \in 1..w |-> bytes[i]]
  OBVIOUS
<1>4. PICK r \in [0..w -> Nat] :
        /\ r[0] = 0 /\ r[w] = x
        /\ \A i \in 1..w : r[i] = r[i - 1] * Base + bytes[i]
  BY UintRounds
<1> HIDE DEF w, x
<1>5. PICK s : Quotients(s, x, w)
  BY <1>1, <1>2, PutRounds
<1>6. ASSUME NEW i \in 1..w PROVE r[i] \div Base = r[i - 1] /\ r[i] % Base = bytes[i]
  <2>1. r[i - 1] \in Nat /\ bytes[i] \in Byte /\ r[i] = r[i - 1] * Base + bytes[i]
    BY <1>1, <1>4
  <2>2. /\ (r[i - 1] * Base + bytes[i]) \div Base = r[i - 1]
        /\ (r[i - 1] * Base + bytes[i]) % Base = bytes[i]
    BY <2>1, LastByte
  <2> QED
    BY <2>1, <2>2, Zenon
<1> DEFINE P == {i \in Nat : i <= w => s[i] = r[w - i]}
<1>7. 0 \in P
  BY <1>1, <1>4, <1>5 DEF Quotients
<1>8. ASSUME NEW i \in Nat, i \in P PROVE i + 1 \in P
  <2> SUFFICES ASSUME i + 1 <= w PROVE s[i + 1] = r[w - (i + 1)]
    OBVIOUS
  <2>1. /\ s[i] = r[w - i] /\ i + 1 \in 1..w /\ (i + 1) - 1 = i
        /\ w - i \in 1..w /\ (w - i) - 1 = w - (i + 1)
    BY <1>1, <1>8
  <2>2. s[i + 1] = s[i] \div Base
    BY <1>5, <2>1 DEF Quotients
  <2>3. r[w - i] \div Base = r[w - (i + 1)]
    BY <1>6, <2>1
  <2> QED
    BY <2>1, <2>2, <2>3, Zenon
<1>9. Nat \subseteq P
  <2> HIDE DEF P
  <2> QED
    BY <1>7, <1>8, NatSetInduction
<1>10. ASSUME NEW i \in 1..w PROVE s[w - i] % Base = bytes[i]
  <2>1. w - i \in Nat /\ w - i <= w /\ w - (w - i) = i
    BY <1>1
  <2>2. s[w - i] = r[i]
    BY <1>9, <2>1
  <2> QED
    BY <1>6, <2>2
<1>11. [i \in 1..w |-> s[w - i] % Base] = [i \in 1..w |-> bytes[i]]
  BY <1>10
<1> QED
  BY <1>3, <1>5, <1>11 DEF Quotients, w, x

(* A part of a string of bytes is one. *)
LEMMA SliceType ==
  ASSUME NEW d \in Seq(Byte), NEW from \in Nat, NEW to \in Nat,
         from <= to, to <= Len(d)
  PROVE  Slice(d, from, to) \in Seq(Byte) /\ Len(Slice(d, from, to)) = to - from
<1> DEFINE n == to - from
<1>1. n \in Nat /\ Len(d) \in Nat /\ \A j \in 1..Len(d) : d[j] \in Byte
  OBVIOUS
<1>2. Slice(d, from, to) = [j \in 1..n |-> d[from + j]]
  BY <1>1 DEF Slice
<1>3. \A j \in 1..n : d[from + j] \in Byte
  BY <1>1
<1> HIDE DEF n
<1>4. [j \in 1..n |-> d[from + j]] \in Seq(Byte) /\ Len([j \in 1..n |-> d[from + j]]) = n
  BY <1>1, <1>3
<1> QED
  BY <1>2, <1>4 DEF n

(* Two strings of bytes that were put one after the other, and a string    *)
(* that lost its tail.                                                     *)
LEMMA SliceOfConcat ==
  ASSUME NEW a \in Seq(Byte), NEW b \in Seq(Byte)
  PROVE  /\ a \o b \in Seq(Byte) /\ Len(a \o b) = Len(a) + Len(b)
         /\ Slice(a \o b, 0, Len(a)) = a
         /\ Slice(a \o b, Len(a), Len(a \o b)) = b
         /\ \A cut \in 0..(Len(a \o b) - 1) : Len(Slice(a \o b, 0, cut)) = cut
<1> DEFINE d == a \o b
<1>1. /\ d \in Seq(Byte) /\ Len(d) = Len(a) + Len(b)
      /\ Len(a) \in Nat /\ Len(b) \in Nat
      /\ \A i \in 1..Len(a) : d[i] = a[i]
      /\ \A i \in 1..Len(b) : d[i + Len(a)] = b[i]
  OBVIOUS
<1> HIDE DEF d
<1>2. Slice(d, 0, Len(a)) = a
  <2>1. Slice(d, 0, Len(a)) = [i \in 1..Len(a) |-> d[i]]
    BY <1>1 DEF Slice
  <2>2. a = [i \in 1..Len(a) |-> a[i]]
    OBVIOUS
  <2> QED
    BY <1>1, <2>1, <2>2
<1>3. Slice(d, Len(a), Len(d)) = b
  <2>1. Slice(d, Len(a), Len(d)) = [i \in 1..Len(b) |-> d[i + Len(a)]]
    BY <1>1 DEF Slice
  <2>2. b = [i \in 1..Len(b) |-> b[i]]
    OBVIOUS
  <2> QED
    BY <1>1, <2>1, <2>2
<1>4. \A cut \in 0..(Len(d) - 1) : Len(Slice(d, 0, cut)) = cut
  BY <1>1 DEF Slice
<1> QED
  BY <1>1, <1>2, <1>3, <1>4 DEF d
=============================================================================
