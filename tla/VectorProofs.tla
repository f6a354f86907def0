---------------------------- MODULE VectorProofs ----------------------------
(***************************************************************************)
(* Vector clocks characterise causality, for any number of processes and   *)
(* events, any counter width and any initial maps of zeros; and the store  *)
(* of examples/vector_kv, which compares them, keeps exactly the writes    *)
(* that nothing supersedes; and the binary form of a map, whatever the     *)
(* names of its nodes, is read back as that map.                           *)
(***************************************************************************)
EXTENDS VectorStore, VectorEncode, CommonProofs

-----------------------------------------------------------------------------
(* Facts about the maps.                                                   *)

(* A map over Node and its counters. *)
LEMMA VectorProperties ==
  ASSUME NEW v \in Vector
  PROVE  /\ DOMAIN v \subseteq Node
         /\ v \in [DOMAIN v -> Counter]
         /\ \A n : Get(v, n) \in Counter /\ Get(v, n) \in Nat
<1>1. PICK D \in SUBSET Node : v \in [D -> Counter]
  BY DEF Vector, VectorsOver
<1> QED
  BY <1>1, MaxUint64Assumption DEF Get, Counter

(* A map with a domain of nodes and values of counters is a vector. *)
LEMMA VectorIntro ==
  ASSUME NEW D \in SUBSET Node, NEW v \in [D -> Counter]
  PROVE  v \in Vector
BY DEF Vector, VectorsOver

(* The increment changes p's own counter only. *)
LEMMA BumpProperties ==
  ASSUME NEW v \in Vector, NEW p \in Node
  PROVE  /\ Bump(v, p) \in Vector
         /\ Get(v, p) # MaxUint64 => Get(Bump(v, p), p) = Get(v, p) + 1
         /\ \A n : n # p => Get(Bump(v, p), n) = Get(v, n)
<1>1. /\ DOMAIN v \subseteq Node
      /\ v \in [DOMAIN v -> Counter]
      /\ Get(v, p) \in Counter /\ Get(v, p) \in Nat
  BY VectorProperties
<1>2. Inc(Get(v, p)) \in Counter
  BY <1>1, MaxUint64Assumption DEF Inc, Counter
<1>3. Bump(v, p) \in [DOMAIN v \cup {p} -> Counter]
  BY <1>1, <1>2 DEF Bump
<1>4. Bump(v, p) \in Vector
  BY <1>1, <1>3, VectorIntro
<1>5. Get(v, p) # MaxUint64 => Get(Bump(v, p), p) = Get(v, p) + 1
  BY DEF Bump, Get, Inc
<1>6. \A n : n # p => Get(Bump(v, p), n) = Get(v, n)
  BY DEF Bump, Get
<1> QED
  BY <1>4, <1>5, <1>6

(* The merge of Receive is the element-wise maximum. *)
LEMMA MergeProperties ==
  ASSUME NEW v \in Vector, NEW r \in Vector
  PROVE  /\ MergeVec(v, r) \in Vector
         /\ \A n : Get(MergeVec(v, r), n) = MaxOf(Get(v, n), Get(r, n))
<1> DEFINE D == DOMAIN v \cup {k \in DOMAIN r : r[k] > Get(v, k)}
<1>1. /\ DOMAIN v \subseteq Node /\ DOMAIN r \subseteq Node
      /\ \A n : /\ Get(v, n) \in Counter /\ Get(v, n) \in Nat
                /\ Get(r, n) \in Counter /\ Get(r, n) \in Nat
  BY VectorProperties
<1>2. \A n : MaxOf(Get(v, n), Get(r, n)) \in Counter
  BY <1>1 DEF MaxOf
<1>3. MergeVec(v, r) \in [D -> Counter]
  BY <1>2 DEF MergeVec
<1>4. MergeVec(v, r) \in Vector
  BY <1>1, <1>3, VectorIntro
<1>5. ASSUME NEW n PROVE Get(MergeVec(v, r), n) = MaxOf(Get(v, n), Get(r, n))
  <2>1. CASE n \in D
    BY <2>1 DEF MergeVec, Get
  <2>2. CASE n \notin D
    <3>1. Get(MergeVec(v, r), n) = 0 /\ Get(v, n) = 0
      BY <2>2 DEF MergeVec, Get
    <3>2. ~(Get(r, n) > 0)
      BY <2>2, <3>1 DEF Get
    <3>3. Get(r, n) = 0
      BY <1>1, <3>2
    <3> QED
      BY <3>1, <3>3 DEF MaxOf
  <2> QED
    BY <2>1, <2>2
<1> QED
  BY <1>4, <1>5

(* The two loops of Compare together are <= in both directions. *)
LEMMA LoopsAreLessOrEq ==
  ASSUME NEW a \in Vector, NEW b \in Vector
  PROVE  /\ LessOrEq(a, b) <=> \A n \in Node : Get(a, n) <= Get(b, n)
         /\ GreaterOrEq(a, b) <=> LessOrEq(b, a)
<1>1. /\ DOMAIN a \subseteq Node /\ DOMAIN b \subseteq Node
      /\ \A n : Get(a, n) \in Nat /\ Get(b, n) \in Nat
  BY VectorProperties
<1>2. LessOrEq(a, b) <=> \A n \in Node : Get(a, n) <= Get(b, n)
  BY <1>1 DEF LessOrEq, Get
<1>3. LessOrEq(b, a) <=> \A n \in Node : Get(b, n) <= Get(a, n)
  BY <1>1 DEF LessOrEq, Get
<1>4. GreaterOrEq(a, b) <=> \A n \in Node : Get(b, n) <= Get(a, n)
  BY <1>1 DEF GreaterOrEq, Get
<1> QED
  BY <1>2, <1>3, <1>4

(* Compare in terms of that order. *)
LEMMA CompareProperties ==
  ASSUME NEW a \in Vector, NEW b \in Vector
  PROVE  /\ Compare(a, b) = "Equal" <=> LessOrEq(a, b) /\ LessOrEq(b, a)
         /\ Compare(a, b) = "Before" <=> LessOrEq(a, b) /\ ~LessOrEq(b, a)
         /\ Compare(a, b) = "After" <=> ~LessOrEq(a, b) /\ LessOrEq(b, a)
         /\ Compare(a, b) = "Concurrent" <=> ~LessOrEq(a, b) /\ ~LessOrEq(b, a)
<1>1. GreaterOrEq(a, b) <=> LessOrEq(b, a)
  BY LoopsAreLessOrEq
<1>2. CASE LessOrEq(a, b) /\ LessOrEq(b, a)
  BY <1>1, <1>2 DEF Compare
<1>3. CASE LessOrEq(a, b) /\ ~LessOrEq(b, a)
  BY <1>1, <1>3 DEF Compare
<1>4. CASE ~LessOrEq(a, b) /\ LessOrEq(b, a)
  BY <1>1, <1>4 DEF Compare
<1>5. CASE ~LessOrEq(a, b) /\ ~LessOrEq(b, a)
  BY <1>1, <1>5 DEF Compare
<1> QED
  BY <1>2, <1>3, <1>4, <1>5

(* Without zero entries, Snapshot.Equal is equality of the vectors. *)
LEMMA EqualWithoutZeros ==
  ASSUME IsFiniteSet(Node), NEW a \in Vector, NEW b \in Vector,
         NoZeroEntries(a), NoZeroEntries(b)
  PROVE  SnapshotEqual(a, b) <=> Compare(a, b) = "Equal"
<1>1. /\ DOMAIN a \subseteq Node /\ DOMAIN b \subseteq Node
      /\ a \in [DOMAIN a -> Counter] /\ b \in [DOMAIN b -> Counter]
      /\ \A n : Get(a, n) \in Nat /\ Get(b, n) \in Nat
  BY VectorProperties
<1>2. IsFiniteSet(DOMAIN a) /\ IsFiniteSet(DOMAIN b)
  BY <1>1, FS_Subset
<1>3. Compare(a, b) = "Equal" <=> \A n \in Node : Get(a, n) = Get(b, n)
  BY <1>1, LoopsAreLessOrEq, CompareProperties
<1>4. ASSUME SnapshotEqual(a, b) PROVE \A n \in Node : Get(a, n) = Get(b, n)
  <2>1. DOMAIN a \subseteq DOMAIN b
    BY <1>4 DEF SnapshotEqual, NoZeroEntries, Get
  <2>2. DOMAIN a = DOMAIN b
    BY <1>2, <1>4, <2>1, FS_Subset DEF SnapshotEqual
  <2> QED
    BY <1>4, <2>2 DEF SnapshotEqual, Get
<1>5. ASSUME \A n \in Node : Get(a, n) = Get(b, n) PROVE SnapshotEqual(a, b)
  <2>1. DOMAIN a = DOMAIN b
    BY <1>1, <1>5 DEF NoZeroEntries, Get
  <2> QED
    BY <1>1, <1>5, <2>1 DEF SnapshotEqual, Get
<1> QED
  BY <1>3, <1>4, <1>5

-----------------------------------------------------------------------------
(***************************************************************************)
(* The inductive invariant.  A vector stands for a set of events: it       *)
(* covers the k-th event of n when its counter for n is at least k.  The   *)
(* map of a clock covers exactly what its process knows, a snapshot        *)
(* exactly its event and the causes of that (Exact), counters never run    *)
(* ahead of the events (Bounded), and causal pasts are closed (Closed).    *)
(***************************************************************************)
Covers(v, id) == id[2] <= Get(v, id[1])

Represents(v, ids) == \A id \in Ids : id \in ids <=> Covers(v, id)

Exact ==
  /\ \A p \in Node : Represents(vec[p], known[p])
  /\ \A e \in log : Represents(e.stamp, e.past \cup {EventId(e)})

Bounded ==
  /\ \A p, n \in Node : Get(vec[p], n) <= executed[n]
  /\ \A p \in Node : Get(vec[p], p) = executed[p]
  /\ \A e \in log : \A n \in Node : Get(e.stamp, n) <= executed[n]

Closed ==
  /\ \A p \in Node : \A e \in log : EventId(e) \in known[p] => e.past \subseteq known[p]
  /\ \A e, f \in log : HappensBefore(e, f) => e.past \subseteq f.past

IInv ==
  /\ TypeOK
  /\ HistoryOK
  /\ Closed
  /\ ~void => Exact /\ Bounded

(* The types that the proofs below need. *)
LEMMA Types ==
  ASSUME IInv
  PROVE  /\ HistoryTypeOK(Vector) /\ HistoryOK
         /\ \A p \in Node : vec[p] \in Vector /\ disk[p] \in Vector
         /\ \A p \in Node : executed[p] \in 0..MaxEvents /\ executed[p] \in Nat
         /\ \A p \in Node : known[p] \subseteq Ids
         /\ \A e \in log : /\ e.stamp \in Vector
                           /\ e.past \subseteq Ids
                           /\ EventId(e) \in Ids
BY MaxEventsAssumption DEF IInv, TypeOK, HistoryTypeOK, EventId, Ids

(***************************************************************************)
(* Tick, Send and Receive have one shape: an event of p with the causes    *)
(* past, represented by v, gets the snapshot Bump(v, p).                   *)
(***************************************************************************)
LEMMA EventPreserves ==
  ASSUME IInv, NEW p \in Node, NEW past, Causes(p, past), NEW v \in Vector,
         \A e \in log : EventId(e) \in past => e.past \subseteq past,
         ~void => /\ Represents(v, past)
                  /\ Get(v, p) = executed[p]
                  /\ \A n \in Node : Get(v, n) <= executed[n],
         Record(p, past, Bump(v, p)),
         net' = net \/ net' = net \cup {NewEvent(p, past, Bump(v, p))},
         Step(p, v)
  PROVE  IInv'
<1> DEFINE w == Bump(v, p)
           f == NewEvent(p, past, w)
           id0 == <<p, executed[p] + 1>>
<1>1. /\ w \in Vector
      /\ Get(v, p) # MaxUint64 => Get(w, p) = Get(v, p) + 1
      /\ \A n : n # p => Get(w, n) = Get(v, n)
  BY BumpProperties
<1>2. HistoryTypeOK(Vector)' /\ HistoryOK'
  BY <1>1, Types, RecordOK
<1>3. /\ EventId(f) = id0
      /\ f.past = past /\ f.stamp = w /\ f.node = p
      /\ ~HappensBefore(f, f)
      /\ \A e \in log : EventId(e) # EventId(f) /\ ~HappensBefore(f, e)
      /\ \A e \in log : HappensBefore(e, f) <=> EventId(e) \in past
  BY Types, NewEventIsNew
<1>4. /\ log' = log \cup {f}
      /\ known' = [known EXCEPT ![p] = past \cup {id0}]
      /\ executed' = [executed EXCEPT ![p] = executed[p] + 1]
  BY DEF Record
<1>5. /\ vec' = [vec EXCEPT ![p] = w]
      /\ void' = (void \/ Get(v, p) = MaxUint64)
      /\ disk' = disk
  BY DEF Step
<1>6. /\ known'[p] = past \cup {id0} /\ vec'[p] = w /\ executed'[p] = executed[p] + 1
      /\ \A q \in Node : q # p => /\ known'[q] = known[q]
                                  /\ vec'[q] = vec[q]
                                  /\ executed'[q] = executed[q]
  BY <1>4, <1>5 DEF IInv, TypeOK, HistoryTypeOK
<1>7. past \subseteq Ids /\ id0 \notin past /\ \A q \in Node : id0 \notin known[q]
  BY <1>3, Types DEF Causes, HistoryOK, KnownAreRecorded
<1> HIDE DEF w, f, id0
<1>8. TypeOK'
  <2>1. vec' \in [Node -> Vector]
    BY <1>1, <1>5 DEF IInv, TypeOK
  <2>2. void' \in BOOLEAN
    BY <1>5 DEF IInv, TypeOK
  <2> QED
    BY <1>2, <1>5, <2>1, <2>2 DEF IInv, TypeOK
<1>9. Closed'
  <2>1. \A q \in Node : \A e \in log' :
          EventId(e) \in known'[q] => e.past \subseteq known'[q]
    <3> SUFFICES ASSUME NEW q \in Node, NEW e \in log', EventId(e) \in known'[q]
                 PROVE  e.past \subseteq known'[q]
      OBVIOUS
    <3>1. CASE e = f
      BY <3>1, <1>3, <1>6, <1>7
    <3>2. CASE e # f /\ q = p
      BY <3>2, <1>3, <1>4, <1>6
    <3>3. CASE e # f /\ q # p
      BY <3>3, <1>4, <1>6 DEF IInv, Closed
    <3> QED
      BY <3>1, <3>2, <3>3
  <2>2. \A e, g \in log' : HappensBefore(e, g) => e.past \subseteq g.past
    BY <1>3, <1>4 DEF IInv, Closed
  <2> QED
    BY <2>1, <2>2 DEF Closed, HappensBefore, EventId
<1>10. ASSUME ~void' PROVE Exact' /\ Bounded'
  <2>1. /\ ~void /\ Exact /\ Bounded
        /\ Represents(v, past) /\ Get(v, p) = executed[p]
        /\ \A n \in Node : Get(v, n) <= executed[n]
        /\ Get(w, p) = executed[p] + 1
    BY <1>1, <1>5, <1>10 DEF IInv
  <2>2. Represents(w, past \cup {id0})
    <3> SUFFICES ASSUME NEW id \in Ids
                 PROVE  id \in past \cup {id0} <=> Covers(w, id)
      BY DEF Represents
    <3>1. PICK n \in Node, k \in 1..MaxEvents : id = <<n, k>>
      BY DEF Ids
    <3>2. id \in past <=> k <= Get(v, n)
      BY <2>1, <3>1 DEF Represents, Covers
    <3>3. Covers(w, id) <=> k <= Get(w, n)
      BY <3>1 DEF Covers
    <3>4. CASE n # p
      BY <3>1, <3>2, <3>3, <3>4, <1>1 DEF id0
    <3>5. CASE n = p
      <4>1. k \in Int /\ executed[p] \in Int
        BY Types, MaxEventsAssumption
      <4>2. id = id0 <=> k = executed[p] + 1
        BY <3>1, <3>5 DEF id0
      <4> QED
        BY <2>1, <3>2, <3>3, <3>5, <4>1, <4>2
    <3> QED
      BY <3>4, <3>5
  <2>3. Exact'
    <3>1. \A q \in Node : Represents(vec'[q], known'[q])
      BY <1>6, <2>1, <2>2 DEF Exact
    <3>2. \A e \in log' : Represents(e.stamp, e.past \cup {EventId(e)})
      BY <1>3, <1>4, <2>1, <2>2 DEF Exact
    <3> QED
      BY <3>1, <3>2 DEF Exact, Represents, Covers, EventId, Get
  <2>4. \A n \in Node : executed[n] \in Int /\ executed'[n] \in Int /\ executed[n] <= executed'[n]
    BY <1>6, Types
  <2>5. \A n \in Node : Get(w, n) <= executed'[n]
    BY <1>1, <1>6, <2>1, <2>4
  <2>6. \A e \in log : \A n \in Node : Get(e.stamp, n) <= executed'[n]
    <3> SUFFICES ASSUME NEW e \in log, NEW n \in Node
                 PROVE  Get(e.stamp, n) <= executed'[n]
      OBVIOUS
    <3>1. Get(e.stamp, n) \in Nat /\ Get(e.stamp, n) <= executed[n]
      BY <2>1, Types, VectorProperties DEF Bounded
    <3> QED
      BY <3>1, <2>4
  <2>7. \A q, n \in Node : Get(vec'[q], n) <= executed'[n]
    <3> SUFFICES ASSUME NEW q \in Node, NEW n \in Node
                 PROVE  Get(vec'[q], n) <= executed'[n]
      OBVIOUS
    <3>1. Get(vec[q], n) \in Nat /\ Get(vec[q], n) <= executed[n]
      BY <2>1, Types, VectorProperties DEF Bounded
    <3> QED
      BY <3>1, <1>6, <2>4, <2>5
  <2>8. \A q \in Node : Get(vec'[q], q) = executed'[q]
    BY <1>6, <2>1 DEF Bounded
  <2>9. \A e \in log' : \A n \in Node : Get(e.stamp, n) <= executed'[n]
    BY <1>3, <1>4, <2>5, <2>6
  <2>10. Bounded'
    BY <2>7, <2>8, <2>9 DEF Bounded, Get
  <2> QED
    BY <2>3, <2>10
<1> QED
  BY <1>2, <1>8, <1>9, <1>10 DEF IInv

(* The inductive invariant holds initially. *)
LEMMA InitIInv == Init => IInv
<1> SUFFICES ASSUME Init PROVE IInv
  OBVIOUS
<1>1. /\ HistoryTypeOK(Vector) /\ HistoryOK
      /\ log = {} /\ executed = [p \in Node |-> 0] /\ known = [p \in Node |-> {}]
  BY HistoryInitOK DEF Init, HistoryInit
<1>2. \A p \in Node : vec[p] \in Rosters
  BY DEF Init
<1>3. ASSUME NEW v \in Rosters PROVE v \in Vector /\ \A n : Get(v, n) = 0
  <2>1. PICK D \in SUBSET Node : v \in [D -> {0}]
    BY RostersAssumption
  <2>2. v \in [D -> Counter]
    BY <2>1, MaxUint64Assumption DEF Counter
  <2> QED
    BY <2>1, <2>2, VectorIntro DEF Get
<1>4. TypeOK
  <2>1. vec \in [Node -> Vector]
    BY <1>3 DEF Init
  <2> QED
    BY <1>1, <2>1 DEF Init, TypeOK
<1>5. Closed
  BY <1>1 DEF Closed
<1>6. Exact
  <2>1. \A p \in Node : Represents(vec[p], {})
    BY <1>2, <1>3, MaxEventsAssumption DEF Represents, Covers, Ids
  <2> QED
    BY <1>1, <2>1 DEF Exact
<1>7. Bounded
  BY <1>1, <1>2, <1>3 DEF Bounded
<1> QED
  BY <1>1, <1>4, <1>5, <1>6, <1>7 DEF IInv

(* Every step of every action preserves the inductive invariant. *)
LEMMA NextIInv == IInv /\ [Next]_vars => IInv'
<1> SUFFICES ASSUME IInv, [Next]_vars PROVE IInv'
  OBVIOUS
<1>1. ASSUME NEW p \in Node, Tick(p) \/ Send(p) PROVE IInv'
  <2>1. Causes(p, known[p]) /\ vec[p] \in Vector
    BY Types, LocalCauses
  <2>2. /\ \A e \in log : EventId(e) \in known[p] => e.past \subseteq known[p]
        /\ ~void => /\ Represents(vec[p], known[p])
                    /\ Get(vec[p], p) = executed[p]
                    /\ \A n \in Node : Get(vec[p], n) <= executed[n]
    BY DEF IInv, Closed, Exact, Bounded
  <2>3. /\ Record(p, known[p], Bump(vec[p], p))
        /\ net' = net \/ net' = net \cup {NewEvent(p, known[p], Bump(vec[p], p))}
        /\ Step(p, vec[p])
    BY <1>1 DEF Tick, Send, LocalEvent, SendEvent
  <2> QED
    BY <2>1, <2>2, <2>3, EventPreserves
<1>2. ASSUME NEW p \in Node, NEW m \in net, Receive(p, m) PROVE IInv'
  <2> DEFINE v == MergeVec(vec[p], m.stamp)
             past == known[p] \cup m.past \cup {EventId(m)}
  <2>1. m \in log /\ m.stamp \in Vector /\ vec[p] \in Vector
    BY Types DEF HistoryTypeOK
  <2>2. /\ v \in Vector
        /\ \A n : Get(v, n) = MaxOf(Get(vec[p], n), Get(m.stamp, n))
    BY <2>1, MergeProperties
  <2>3. Causes(p, past)
    BY Types, ReceiveCauses
  <2>4. ASSUME NEW e \in log, EventId(e) \in past PROVE e.past \subseteq past
    <3>1. EventId(e) \in known[p] => e.past \subseteq known[p]
      BY DEF IInv, Closed
    <3>2. EventId(e) \in m.past => e.past \subseteq m.past
      BY <2>1 DEF IInv, Closed, HappensBefore
    <3>3. EventId(e) = EventId(m) => e = m
      BY <2>1 DEF IInv, HistoryOK, RecordedOnce
    <3> QED
      BY <2>4, <3>1, <3>2, <3>3
  <2>5. \A n : Get(vec[p], n) \in Nat /\ Get(m.stamp, n) \in Nat
    BY <2>1, VectorProperties
  <2>6. ASSUME ~void
        PROVE  /\ Represents(v, past)
               /\ Get(v, p) = executed[p]
               /\ \A n \in Node : Get(v, n) <= executed[n]
    <3>1. Exact /\ Bounded
      BY <2>6 DEF IInv
    <3>2. ASSUME NEW id \in Ids PROVE id \in past <=> Covers(v, id)
      <4>1. id \in known[p] <=> Covers(vec[p], id)
        BY <3>1 DEF Exact, Represents
      <4>2. id \in m.past \cup {EventId(m)} <=> Covers(m.stamp, id)
        BY <3>1, <2>1 DEF Exact, Represents
      <4>3. Covers(v, id) <=> Covers(vec[p], id) \/ Covers(m.stamp, id)
        <5>1. id[2] \in Int
          BY MaxEventsAssumption DEF Ids
        <5> QED
          BY <5>1, <2>2, <2>5 DEF Covers, MaxOf
      <4> QED
        BY <4>1, <4>2, <4>3
    <3>3. \A n \in Node : Get(v, n) <= executed[n]
      BY <2>1, <2>2, <3>1 DEF Bounded, MaxOf
    <3>4. Get(v, p) = executed[p]
      <4>1. Get(vec[p], p) = executed[p] /\ Get(m.stamp, p) <= executed[p]
        BY <2>1, <3>1 DEF Bounded
      <4> QED
        BY <2>2, <2>5, <4>1 DEF MaxOf
    <3> QED
      BY <3>2, <3>3, <3>4 DEF Represents
  <2>7. Record(p, past, Bump(v, p)) /\ net' = net /\ Step(p, v)
    BY <1>2 DEF Receive, ReceiveEvent
  <2> HIDE DEF v, past
  <2> QED
    BY <2>2, <2>3, <2>4, <2>6, <2>7, EventPreserves
<1> USE DEF IInv, TypeOK, history, HistoryTypeOK, HistoryOK, KnownAreRecorded,
            RecordedOnce, ProcessOrder, Irreflexive, Closed, Exact, Bounded,
            Represents, Covers, HappensBefore, EventId, Get
<1>3. ASSUME NEW p \in Node, Now(p) PROVE IInv'
  BY <1>3 DEF Now
<1>4. ASSUME NEW p \in Node, NewFromMap(p) PROVE IInv'
  <2>1. CASE disk[p] = vec[p]
    <3>1. vec' = vec
      BY <1>4, <2>1 DEF NewFromMap
    <3> QED
      BY <1>4, <2>1, <3>1 DEF NewFromMap
  <2>2. CASE disk[p] # vec[p]
    BY <1>4, <2>2 DEF NewFromMap
  <2> QED
    BY <2>1, <2>2
<1>5. CASE UNCHANGED vars
  BY <1>5 DEF vars
<1> QED
  BY <1>1, <1>2, <1>3, <1>4, <1>5 DEF Next

(* The order of two represented sets of events is that of their vectors. *)
LEMMA LessOrEqIsSubset ==
  ASSUME IInv, NEW a \in Vector, NEW b \in Vector, NEW A, NEW B,
         Represents(a, A), Represents(b, B), A \subseteq Ids, B \subseteq Ids,
         \A n \in Node : Get(a, n) <= executed[n]
  PROVE  LessOrEq(a, b) <=> A \subseteq B
<1>1. \A n : Get(a, n) \in Nat /\ Get(b, n) \in Nat
  BY VectorProperties
<1>2. LessOrEq(a, b) <=> \A n \in Node : Get(a, n) <= Get(b, n)
  BY LoopsAreLessOrEq
<1>3. ASSUME \A n \in Node : Get(a, n) <= Get(b, n), NEW id \in A PROVE id \in B
  <2>1. PICK n \in Node, k \in 1..MaxEvents : id = <<n, k>>
    BY <1>3 DEF Ids
  <2>2. k <= Get(a, n)
    BY <1>3, <2>1 DEF Represents, Covers
  <2>3. k <= Get(b, n)
    BY <1>1, <1>3, <2>2, MaxEventsAssumption
  <2> QED
    BY <1>3, <2>1, <2>3 DEF Represents, Covers
<1>4. ASSUME A \subseteq B, NEW n \in Node PROVE Get(a, n) <= Get(b, n)
  <2>1. CASE Get(a, n) = 0
    BY <1>1, <2>1
  <2>2. CASE Get(a, n) # 0
    <3> DEFINE id == <<n, Get(a, n)>>
    <3>1. Get(a, n) \in 1..MaxEvents
      BY <1>1, <2>2, Types, MaxEventsAssumption
    <3>2. id \in Ids
      BY <3>1 DEF Ids
    <3>3. id \in A
      BY <1>1, <3>2 DEF Represents, Covers
    <3> QED
      BY <1>4, <3>2, <3>3 DEF Represents, Covers
  <2> QED
    BY <2>1, <2>2
<1> QED
  BY <1>2, <1>3, <1>4

(* Between events: the vectors are ordered as the events are. *)
LEMMA EventOrder ==
  ASSUME IInv, ~void, NEW e \in log, NEW f \in log
  PROVE  LessOrEq(e.stamp, f.stamp) <=> HappensBefore(e, f) \/ e = f
<1> DEFINE E == e.past \cup {EventId(e)}
           F == f.past \cup {EventId(f)}
<1>1. /\ e.stamp \in Vector /\ f.stamp \in Vector /\ E \subseteq Ids /\ F \subseteq Ids
      /\ Represents(e.stamp, E) /\ Represents(f.stamp, F)
      /\ \A n \in Node : Get(e.stamp, n) <= executed[n]
  BY Types DEF IInv, Exact, Bounded
<1>2. LessOrEq(e.stamp, f.stamp) <=> E \subseteq F
  <2> HIDE DEF E, F
  <2> QED
    BY <1>1, LessOrEqIsSubset
<1>3. E \subseteq F <=> HappensBefore(e, f) \/ e = f
  BY DEF IInv, Closed, HappensBefore, HistoryOK, RecordedOnce
<1> QED
  BY <1>2, <1>3

-----------------------------------------------------------------------------
(* The inductive invariant holds throughout every behaviour. *)
THEOREM Invariance == Spec => []IInv
<1> QED
  BY InitIInv, NextIInv, PTL DEF Spec

(* Type correctness of the vector clock and its history. *)
THEOREM TypeCorrect == Spec => []TypeOK
<1>1. IInv => TypeOK
  BY DEF IInv
<1> QED
  BY <1>1, Invariance, PTL

(* vector/doc.go: Compare tells exactly whether one event happened before  *)
(* another, after it, or independently of it, in every history without a   *)
(* stale restart or a wrapped counter.                                     *)
THEOREM CharacterisesCausality == Spec => []ExactCausality
<1>1. IInv => ExactCausality
  <2> SUFFICES ASSUME IInv, ~void, NEW e \in log, NEW f \in log
               PROVE  /\ HappensBefore(e, f) <=> Compare(e.stamp, f.stamp) = "Before"
                      /\ HappensBefore(f, e) <=> Compare(e.stamp, f.stamp) = "After"
                      /\ ConcurrentEvents(e, f) <=>
                           Compare(e.stamp, f.stamp) = "Concurrent"
    BY DEF ExactCausality
  <2>1. e.stamp \in Vector /\ f.stamp \in Vector
    BY Types
  <2>2. /\ LessOrEq(e.stamp, f.stamp) <=> HappensBefore(e, f) \/ e = f
        /\ LessOrEq(f.stamp, e.stamp) <=> HappensBefore(f, e) \/ e = f
    BY EventOrder
  <2>3. /\ ~HappensBefore(e, e)
        /\ EventId(e) = EventId(f) <=> e = f
    BY DEF IInv, HistoryOK, Irreflexive, RecordedOnce
  <2>4. ~(HappensBefore(e, f) /\ HappensBefore(f, e))
    BY <2>3 DEF IInv, Closed, HappensBefore
  <2> QED
    BY <2>1, <2>2, <2>3, <2>4, CompareProperties DEF ConcurrentEvents
<1> QED
  BY <1>1, Invariance, PTL

(* A clock's map tells exactly which events its process knows of. *)
THEOREM MapsAreKnowledge == Spec => []ExactKnowledge
<1>1. IInv => ExactKnowledge
  <2> SUFFICES ASSUME IInv, ~void, NEW e \in log, NEW p \in Node
               PROVE  EventId(e) \in known[p] <=>
                        Compare(e.stamp, vec[p]) \in {"Before", "Equal"}
    BY DEF ExactKnowledge
  <2> DEFINE E == e.past \cup {EventId(e)}
  <2>1. /\ e.stamp \in Vector /\ vec[p] \in Vector /\ E \subseteq Ids
        /\ known[p] \subseteq Ids
        /\ Represents(e.stamp, E) /\ Represents(vec[p], known[p])
        /\ \A n \in Node : Get(e.stamp, n) <= executed[n]
    BY Types DEF IInv, Exact, Bounded
  <2>2. LessOrEq(e.stamp, vec[p]) <=> E \subseteq known[p]
    <3> HIDE DEF E
    <3> QED
      BY <2>1, LessOrEqIsSubset
  <2>3. E \subseteq known[p] <=> EventId(e) \in known[p]
    BY DEF IInv, Closed
  <2> QED
    BY <2>1, <2>2, <2>3, CompareProperties
<1> QED
  BY <1>1, Invariance, PTL

(* Snapshot.Equal agrees with Compare on maps without zero entries. *)
THEOREM EqualIsSound ==
  ASSUME IsFiniteSet(Node)
  PROVE  Spec => []EqualAgrees
<1>1. IInv => EqualAgrees
  BY Types, EqualWithoutZeros DEF EqualAgrees
<1> QED
  BY <1>1, Invariance, PTL

-----------------------------------------------------------------------------
(***************************************************************************)
(* The store, for any number of clients and replicas and any order and     *)
(* number of deliveries.  The proof adds two facts on the rows to the      *)
(* invariant of the vector clocks: no row happened before another, and     *)
(* every write received is a row or happened before one.  The second is    *)
(* what makes a check against the rows alone as good as one against all    *)
(* the writes a replica has ever seen.                                     *)
(***************************************************************************)
Received ==
  /\ got \in [Replica -> SUBSET net]
  /\ rows \in [Replica -> SUBSET net]
  /\ \A r \in Replica : rows[r] \subseteq got[r]

Antichain ==
  ~void => \A r \in Replica : \A v, w \in rows[r] : ~HappensBefore(v, w)

\* a write that reached a replica is a row, or was seen by the writer of one
NoLostWrite ==
  ~void => \A r \in Replica : \A w \in got[r] :
    \/ w \in rows[r]
    \/ \E row \in rows[r] : HappensBefore(w, row)

StoreInv == IInv /\ Received /\ Antichain /\ NoLostWrite

(* Compare on the versions of two recorded events decides their order. *)
LEMMA VersionsAreExact ==
  ASSUME IInv, ~void, NEW e \in log, NEW f \in log
  PROVE  /\ Compare(e.stamp, f.stamp) = "Before" <=> HappensBefore(e, f)
         /\ Compare(e.stamp, f.stamp) = "Equal" <=> e = f
<1>1. e.stamp \in Vector /\ f.stamp \in Vector
  BY Types
<1>2. /\ LessOrEq(e.stamp, f.stamp) <=> HappensBefore(e, f) \/ e = f
      /\ LessOrEq(f.stamp, e.stamp) <=> HappensBefore(f, e) \/ e = f
  BY EventOrder
<1>3. /\ ~HappensBefore(e, e)
      /\ HappensBefore(e, f) /\ HappensBefore(f, e) => HappensBefore(e, e)
  BY DEF IInv, HistoryOK, Irreflexive, Closed, HappensBefore
<1> QED
  BY <1>1, <1>2, <1>3, CompareProperties

(* Happens-before is transitive. *)
LEMMA Transitive ==
  ASSUME IInv, NEW e \in log, NEW f \in log, NEW g \in log,
         HappensBefore(e, f), HappensBefore(f, g)
  PROVE  HappensBefore(e, g)
BY DEF IInv, Closed, HappensBefore

(* The effect of write on the rows of one replica: the rows stay free of   *)
(* superseded writes, and everything they covered stays covered.           *)
LEMMA AppliedKeepsOrder ==
  ASSUME IInv, ~void, NEW w \in log, NEW existing \in SUBSET log,
         \A u, v \in existing : ~HappensBefore(u, v)
  PROVE  LET new == Applied(w, existing) IN
         /\ new \subseteq existing \cup {w}
         /\ \A u, v \in new : ~HappensBefore(u, v)
         /\ \A u \in existing \cup {w} :
              u \in new \/ \E v \in new : HappensBefore(u, v)
<1> DEFINE keepers == {row \in existing : ~HappensBefore(row, w)}
           stale == \E row \in existing : HappensBefore(w, row) \/ w = row
<1>1. stale <=> \E row \in existing : Supersedes(row, w)
  BY VersionsAreExact DEF Supersedes
<1>2. keepers = {row \in existing : Compare(row.stamp, w.stamp) # "Before"}
  BY VersionsAreExact
<1>3. Applied(w, existing) = IF stale THEN existing ELSE keepers \cup {w}
  BY <1>1, <1>2 DEF Applied
<1>4. CASE stale
  BY <1>3, <1>4
<1>5. CASE ~stale
  <2>1. Applied(w, existing) = keepers \cup {w}
    BY <1>3, <1>5
  <2>2. ~HappensBefore(w, w)
    BY DEF IInv, HistoryOK, Irreflexive
  <2> QED
    BY <1>5, <2>1, <2>2
<1> QED
  BY <1>4, <1>5

(* The stores start empty. *)
LEMMA StoreInitInv == StoreInit => StoreInv
<1> SUFFICES ASSUME StoreInit PROVE StoreInv
  OBVIOUS
<1>1. IInv
  BY InitIInv DEF StoreInit
<1> QED
  BY <1>1 DEF StoreInit, StoreInv, Received, Antichain, NoLostWrite

(* Clock steps leave the stores alone, and only add events. *)
LEMMA ClockStep ==
  ASSUME StoreInv, [Next]_vars, UNCHANGED store
  PROVE  StoreInv'
<1>1. IInv'
  BY NextIInv DEF StoreInv
<1>2. net \subseteq net' /\ (void => void')
  <2>1. ASSUME NEW p \in Node, NEW v, Step(p, v) PROVE void => void'
    BY <2>1 DEF Step
  <2>2. ASSUME NEW p \in Node, Tick(p) \/ Send(p) \/ \E m \in net : Receive(p, m)
        PROVE  void => void'
    BY <2>1, <2>2, Zenon DEF Tick, Send, Receive
  <2>3. ASSUME NEW p \in Node, Tick(p) \/ Send(p) \/ \E m \in net : Receive(p, m)
        PROVE  net \subseteq net'
    <3>1. net' = net \/ \E e : net' = net \cup {e}
      BY <2>3, Zenon DEF Tick, Send, Receive, LocalEvent, SendEvent, ReceiveEvent
    <3> QED
      BY <3>1
  <2>4. ASSUME NEW p \in Node, Now(p) \/ NewFromMap(p)
        PROVE  net \subseteq net' /\ (void => void')
    <3>1. net' = net
      BY <2>4 DEF Now, NewFromMap, history
    <3>2. ASSUME Now(p) PROVE void' = void
      BY <3>2 DEF Now
    <3>3. ASSUME NewFromMap(p) PROVE void => void'
      BY <3>3, Zenon DEF NewFromMap
    <3>4. void => void'
      BY <2>4, <3>2, <3>3
    <3> QED
      BY <3>1, <3>4
  <2> QED
    BY <2>2, <2>3, <2>4 DEF Next, vars, history
<1>3. Received'
  BY <1>2 DEF StoreInv, Received, store
<1>4. Antichain' /\ NoLostWrite'
  BY <1>2 DEF StoreInv, Antichain, NoLostWrite, store, HappensBefore, EventId
<1> QED
  BY <1>1, <1>3, <1>4 DEF StoreInv

(* A delivery preserves the invariant. *)
LEMMA WriteStep ==
  ASSUME StoreInv, NEW r \in Replica, NEW w \in net, Write(r, w)
  PROVE  StoreInv'
<1>1. IInv'
  BY NextIInv DEF StoreInv, Write
<1>2. /\ UNCHANGED <<net, log, void>>
      /\ got' = [got EXCEPT ![r] = got[r] \cup {w}]
      /\ rows' = [rows EXCEPT ![r] = Applied(w, rows[r])]
  BY DEF Write, vars, history
<1>3. IInv /\ net \subseteq log /\ w \in log /\ rows[r] \in SUBSET log
  BY DEF StoreInv, Received, IInv, TypeOK, HistoryTypeOK
<1>4. Applied(w, rows[r]) \subseteq rows[r] \cup {w}
  BY DEF Applied
<1>5. Received'
  BY <1>2, <1>4 DEF StoreInv, Received
<1>6. ASSUME ~void
      PROVE  /\ \A u, v \in Applied(w, rows[r]) : ~HappensBefore(u, v)
             /\ \A u \in rows[r] \cup {w} :
                  \/ u \in Applied(w, rows[r])
                  \/ \E v \in Applied(w, rows[r]) : HappensBefore(u, v)
  BY <1>3, <1>6, AppliedKeepsOrder DEF StoreInv, Antichain
<1>7. Antichain'
  BY <1>2, <1>6 DEF StoreInv, Received, Antichain, HappensBefore, EventId
<1>8. NoLostWrite'
  <2> SUFFICES ASSUME ~void, NEW q \in Replica, NEW u \in got'[q]
               PROVE  u \in rows'[q] \/ \E row \in rows'[q] : HappensBefore(u, row)
    BY <1>2 DEF NoLostWrite, HappensBefore, EventId
  <2>1. CASE q # r
    BY <1>2, <2>1 DEF StoreInv, Received, NoLostWrite
  <2>2. CASE q = r
    <3>1. rows'[q] = Applied(w, rows[r]) /\ u \in got[r] \cup {w}
      BY <1>2, <2>2 DEF StoreInv, Received
    <3>2. CASE u \in rows[r] \cup {w}
      BY <1>6, <3>1, <3>2
    <3>3. CASE u \notin rows[r] \cup {w}
      <4>1. PICK row \in rows[r] : HappensBefore(u, row)
        BY <3>1, <3>3 DEF StoreInv, NoLostWrite
      <4>2. row \in Applied(w, rows[r])
            \/ \E v \in Applied(w, rows[r]) : HappensBefore(row, v)
        BY <1>6
      <4>3. /\ u \in log /\ row \in log
            /\ Applied(w, rows[r]) \subseteq log
        BY <1>3, <1>4, <3>1 DEF StoreInv, Received
      <4> QED
        BY <1>3, <3>1, <4>1, <4>2, <4>3, Transitive
    <3> QED
      BY <3>2, <3>3
  <2> QED
    BY <2>1, <2>2
<1> QED
  BY <1>1, <1>5, <1>7, <1>8 DEF StoreInv

(* The invariant of clocks and stores. *)
THEOREM StoreInvariance == StoreSpec => []StoreInv
<1>1. StoreInv /\ [StoreNext]_<<vars, store>> => StoreInv'
  BY ClockStep, WriteStep DEF StoreNext, store
<1> QED
  BY StoreInitInv, <1>1, PTL DEF StoreSpec

(* Type correctness of the clocks and the stores. *)
THEOREM StoreTypeCorrect == StoreSpec => []StoreTypeOK
<1>1. StoreInv => StoreTypeOK
  BY DEF StoreInv, IInv, Received, StoreTypeOK
<1> QED
  BY StoreInvariance, <1>1, PTL

(* The rows of a replica are exactly the writes it received that no other  *)
(* one of them has seen: a function of the set of writes, so that replicas *)
(* converge.                                                               *)
THEOREM RowsAreLatest == StoreSpec => []SiblingsAreLatest
<1>1. ASSUME StoreInv PROVE SiblingsAreLatest
  <2> SUFFICES ASSUME ~void, NEW r \in Replica
               PROVE  rows[r] = Latest(got[r])
    BY DEF SiblingsAreLatest
  <2>1. /\ IInv /\ got[r] \subseteq log /\ rows[r] \subseteq got[r]
    BY <1>1 DEF StoreInv, Received, IInv, TypeOK, HistoryTypeOK
  <2>2. \A w \in got[r] : w \in rows[r] \/ \E row \in rows[r] : HappensBefore(w, row)
    BY <1>1 DEF StoreInv, NoLostWrite
  <2>3. \A v, w \in rows[r] : ~HappensBefore(v, w)
    BY <1>1 DEF StoreInv, Antichain
  <2>4. ASSUME NEW w \in rows[r], NEW other \in got[r], HappensBefore(w, other)
        PROVE  FALSE
    <3>1. other \notin rows[r]
      BY <2>3, <2>4
    <3>2. PICK row \in rows[r] : HappensBefore(other, row)
      BY <2>2, <3>1
    <3>3. HappensBefore(w, row)
      BY <2>1, <2>4, <3>2, Transitive
    <3> QED
      BY <2>3, <3>3
  <2>5. Latest(got[r]) \subseteq rows[r]
    BY <2>1, <2>2 DEF Latest
  <2> QED
    BY <2>1, <2>4, <2>5 DEF Latest
<1> QED
  BY StoreInvariance, <1>1, PTL

(* examples/vector_kv: more than one row is a conflict, and only then.     *)
(* Whatever writes reached a replica, in whatever order and how often, any *)
(* two rows are writes that did not know of each other, and Compare, which *)
(* decided on each of them separately, says so of the pair.                *)
THEOREM ConflictsAreReal ==
  StoreSpec => [](~void => \A r \in Replica : \A v, w \in rows[r] :
                    v # w => /\ ConcurrentEvents(v, w)
                             /\ Compare(v.stamp, w.stamp) = "Concurrent")
<1>1. ASSUME StoreInv, ~void, NEW r \in Replica, NEW v \in rows[r], NEW w \in rows[r],
             v # w
      PROVE  ConcurrentEvents(v, w) /\ Compare(v.stamp, w.stamp) = "Concurrent"
  <2>1. IInv /\ v \in log /\ w \in log
    BY <1>1 DEF StoreInv, Received, IInv, TypeOK, HistoryTypeOK
  <2>2. ~HappensBefore(v, w) /\ ~HappensBefore(w, v)
    BY <1>1 DEF StoreInv, Antichain
  <2>3. EventId(v) # EventId(w)
    BY <1>1, <2>1 DEF IInv, HistoryOK, RecordedOnce
  <2>4. v.stamp \in Vector /\ w.stamp \in Vector
    BY <2>1, Types
  <2>5. ~LessOrEq(v.stamp, w.stamp) /\ ~LessOrEq(w.stamp, v.stamp)
    BY <1>1, <2>1, <2>2, EventOrder
  <2> QED
    BY <2>2, <2>3, <2>4, <2>5, CompareProperties DEF ConcurrentEvents
<1>2. StoreInv =>
        (~void => \A r \in Replica : \A v, w \in rows[r] :
           v # w => /\ ConcurrentEvents(v, w)
                    /\ Compare(v.stamp, w.stamp) = "Concurrent")
  BY <1>1
<1> QED
  BY <1>2, StoreInvariance, PTL

-----------------------------------------------------------------------------
(* The wire: the order of the keys.                                        *)

\* a comes before b, from byte i on
LessAt(a, b, i) ==
  /\ i \in 1..Len(b)
  /\ \A j \in 1..(i - 1) : j <= Len(a) /\ a[j] = b[j]
  /\ i > Len(a) \/ a[i] < b[i]

(* The order of strings compares the first byte they differ in. *)
LEMMA LessAtSome ==
  ASSUME NEW a, NEW b
  PROVE  StringLess(a, b) <=> \E i : LessAt(a, b, i)
BY DEF StringLess, LessAt

(* No string comes before itself. *)
LEMMA StringLessIrreflexive ==
  ASSUME NEW a \in Seq(Byte)
  PROVE  ~StringLess(a, a)
<1>1. \A i \in 1..Len(a) : a[i] \in Byte
  OBVIOUS
<1> QED
  BY <1>1, BaseAssumption DEF StringLess, Byte

(* A string that comes before one that comes before a third comes before   *)
(* that one.                                                               *)
LEMMA StringLessTransitive ==
  ASSUME NEW a \in Seq(Byte), NEW b \in Seq(Byte), NEW c \in Seq(Byte),
         StringLess(a, b), StringLess(b, c)
  PROVE  StringLess(a, c)
<1>1. PICK i : LessAt(a, b, i)
  BY LessAtSome
<1>2. PICK k : LessAt(b, c, k)
  BY LessAtSome
<1>3. /\ \A j \in 1..Len(a) : a[j] \in Int
      /\ \A j \in 1..Len(b) : b[j] \in Int
      /\ \A j \in 1..Len(c) : c[j] \in Int
  BY BaseAssumption DEF Byte
<1>4. i \in Nat /\ k \in Nat /\ Len(a) \in Nat /\ Len(b) \in Nat /\ Len(c) \in Nat
  BY <1>1, <1>2 DEF LessAt
<1>5. CASE i < k
  <2>1. i <= Len(c) /\ \A j \in 1..i : j <= Len(b) /\ b[j] = c[j]
    BY <1>2, <1>4, <1>5 DEF LessAt
  <2>2. LessAt(a, c, i)
    BY <1>1, <1>3, <1>4, <2>1 DEF LessAt
  <2> QED
    BY <2>2, LessAtSome
<1>6. CASE k <= i
  <2>1. \A j \in 1..(k - 1) : j <= Len(a) /\ a[j] = b[j]
    BY <1>1, <1>4, <1>6 DEF LessAt
  <2>2. \A j \in 1..(k - 1) : j <= Len(a) /\ a[j] = c[j]
    BY <1>2, <2>1 DEF LessAt
  <2>3. k > Len(a) \/ a[k] < c[k]
    <3> SUFFICES ASSUME k <= Len(a) PROVE a[k] < c[k]
      BY <1>4
    <3>1. k <= Len(b) /\ b[k] < c[k] /\ a[k] \in Int /\ b[k] \in Int /\ c[k] \in Int
      BY <1>1, <1>2, <1>3, <1>4, <1>6 DEF LessAt
    <3>2. k < i => a[k] = b[k]
      BY <1>1, <1>2, <1>4 DEF LessAt
    <3>3. k = i => a[k] < b[k]
      BY <1>1, <1>4 DEF LessAt
    <3>4. k < i \/ k = i
      BY <1>4, <1>6
    <3> QED
      BY <3>1, <3>2, <3>3, <3>4
  <2>4. LessAt(a, c, k)
    BY <1>2, <2>2, <2>3 DEF LessAt
  <2> QED
    BY <2>4, LessAtSome
<1> QED
  BY <1>4, <1>5, <1>6

(* Of two strings one comes before the other. *)
LEMMA StringLessTotal ==
  ASSUME NEW a \in Seq(Byte), NEW b \in Seq(Byte), a # b
  PROVE  StringLess(a, b) \/ StringLess(b, a)
<1> DEFINE D == {i \in Nat \ {0} : i > Len(a) \/ i > Len(b) \/ a[i] # b[i]}
<1>1. Len(a) \in Nat /\ Len(b) \in Nat
  OBVIOUS
<1>2. D \subseteq Nat /\ Len(a) + 1 \in D
  BY <1>1
<1>3. PICK i \in D : \A j \in D : i <= j
  <2> HIDE DEF D
  <2> QED
    BY <1>2, LeastNat
<1>4. i \in Nat \ {0} /\ (i > Len(a) \/ i > Len(b) \/ a[i] # b[i])
  BY <1>3
<1>5. \A j \in 1..(i - 1) : j <= Len(a) /\ j <= Len(b) /\ a[j] = b[j]
  BY <1>1, <1>3, <1>4
<1> HIDE DEF D
<1>6. CASE i > Len(a) /\ i > Len(b)
  <2>1. Len(a) = Len(b)
    BY <1>1, <1>4, <1>5, <1>6
  <2>2. \A j \in 1..Len(a) : a[j] = b[j]
    BY <1>1, <1>4, <1>5, <1>6
  <2>3. a = [j \in 1..Len(a) |-> a[j]] /\ b = [j \in 1..Len(b) |-> b[j]]
    OBVIOUS
  <2> QED
    BY <2>1, <2>2, <2>3
<1>7. CASE i > Len(a) /\ i <= Len(b)
  <2>1. LessAt(a, b, i)
    BY <1>1, <1>4, <1>5, <1>7 DEF LessAt
  <2> QED
    BY <2>1, LessAtSome
<1>8. CASE i > Len(b) /\ i <= Len(a)
  <2>1. LessAt(b, a, i)
    BY <1>1, <1>4, <1>5, <1>8 DEF LessAt
  <2> QED
    BY <2>1, LessAtSome
<1>9. CASE i <= Len(a) /\ i <= Len(b)
  <2>1. a[i] \in Int /\ b[i] \in Int
    BY <1>1, <1>4, <1>9, BaseAssumption DEF Byte
  <2>2. LessAt(a, b, i) \/ LessAt(b, a, i)
    BY <1>1, <1>4, <1>5, <1>9, <2>1 DEF LessAt
  <2> QED
    BY <2>2, LessAtSome
<1> QED
  BY <1>1, <1>4, <1>6, <1>7, <1>8, <1>9

(* A finite set of strings that is not empty has a last one. *)
LEMMA LastString ==
  ASSUME NEW S, IsFiniteSet(S), S \subseteq Seq(Byte), S # {}
  PROVE  \E x \in S : \A y \in S : y = x \/ StringLess(y, x)
<1> DEFINE P == {t \in SUBSET S : t # {} => \E x \in t : \A y \in t : y = x \/ StringLess(y, x)}
<1>1. {} \in P
  OBVIOUS
<1>2. ASSUME NEW t \in SUBSET S, t # {}, \A x \in t : t \ {x} \in P
      PROVE  t \in P
  <2>1. PICK z \in t : TRUE
    BY <1>2
  <2>2. t \ {z} \in P
    BY <1>2
  <2>3. CASE t \ {z} = {}
    BY <2>1, <2>3
  <2>4. CASE t \ {z} # {}
    <3>1. PICK x \in t \ {z} : \A y \in t \ {z} : y = x \/ StringLess(y, x)
      BY <2>2, <2>4
    <3>2. x \in Seq(Byte) /\ z \in Seq(Byte) /\ x # z
      BY <1>2, <2>1, <3>1
    <3>3. CASE StringLess(z, x)
      BY <3>1, <3>3
    <3>4. CASE StringLess(x, z)
      <4>1. \A y \in t : y = z \/ StringLess(y, z)
        BY <3>1, <3>2, <3>4, StringLessTransitive
      <4> QED
        BY <2>1, <4>1
    <3> QED
      BY <3>2, <3>3, <3>4, StringLessTotal
  <2> QED
    BY <2>3, <2>4
<1>3. SUBSET S \subseteq P
  <2> HIDE DEF P
  <2> QED
    BY <1>1, <1>2, SubsetInduction
<1> QED
  BY <1>3

\* keys lists the strings of S in order
Sorts(keys, S) ==
  /\ keys \in [1..Cardinality(S) -> S]
  /\ \A i, j \in 1..Cardinality(S) : i < j => StringLess(keys[i], keys[j])

(* Every finite set of strings can be sorted: its last string goes last. *)
LEMMA SortExists ==
  ASSUME NEW S, IsFiniteSet(S), S \subseteq Seq(Byte)
  PROVE  \E keys : Sorts(keys, S)
<1> DEFINE P == {t \in SUBSET S : \E keys : Sorts(keys, t)}
<1>1. {} \in P
  <2> DEFINE keys == [i \in 1..0 |-> {}]
  <2>1. Cardinality({}) = 0
    BY FS_EmptySet
  <2>2. keys \in [1..0 -> {}]
    OBVIOUS
  <2> HIDE DEF keys
  <2>3. Sorts(keys, {})
    BY <2>1, <2>2 DEF Sorts
  <2> QED
    BY <2>3
<1>2. ASSUME NEW t \in SUBSET S, t # {}, \A x \in t : t \ {x} \in P
      PROVE  t \in P
  <2>1. IsFiniteSet(t) /\ t \subseteq Seq(Byte)
    BY FS_Subset
  <2>2. PICK x \in t : \A y \in t : y = x \/ StringLess(y, x)
    BY <1>2, <2>1, LastString
  <2> DEFINE r == t \ {x}
             n == Cardinality(t)
  <2>3. IsFiniteSet(r) /\ n \in Nat /\ Cardinality(r) = n - 1 /\ Cardinality(r) \in Nat
    BY <2>1, <2>2, FS_RemoveElement, FS_CardinalityType
  <2>4. PICK k : Sorts(k, r)
    BY <1>2, <2>2
  <2> HIDE DEF n, r
  <2>5. /\ k \in [1..(n - 1) -> r]
        /\ \A i, j \in 1..(n - 1) : i < j => StringLess(k[i], k[j])
    BY <2>3, <2>4 DEF Sorts
  <2> DEFINE keys == [i \in 1..n |-> IF i = n THEN x ELSE k[i]]
  <2>6. r \subseteq t /\ x \notin r /\ x \in t
    BY DEF r
  <2>7. \A i \in 1..(n - 1) : k[i] \in r
    BY <2>5
  <2>8. keys \in [1..n -> t]
    BY <2>3, <2>6, <2>7
  <2>9. ASSUME NEW i \in 1..n, NEW j \in 1..n, i < j
        PROVE  StringLess(keys[i], keys[j])
    <3>1. i \in 1..(n - 1) /\ keys[i] = k[i]
      BY <2>3, <2>9
    <3>2. CASE j = n
      <4>1. k[i] \in t /\ k[i] # x
        BY <2>6, <2>7, <3>1
      <4> QED
        BY <2>2, <3>1, <3>2, <4>1
    <3>3. CASE j # n
      <4>1. j \in 1..(n - 1) /\ keys[j] = k[j]
        BY <2>3, <3>3
      <4> QED
        BY <2>5, <2>9, <3>1, <4>1
    <3> QED
      BY <3>2, <3>3
  <2> HIDE DEF keys
  <2>10. Sorts(keys, t)
    BY <2>8, <2>9 DEF Sorts, n
  <2> QED
    BY <2>10
<1>3. SUBSET S \subseteq P
  <2> HIDE DEF P
  <2> QED
    BY <1>1, <1>2, SubsetInduction
<1> QED
  BY <1>3

(* A sorted list has every string of the set, and has it once. *)
LEMMA SortedOnce ==
  ASSUME NEW S, IsFiniteSet(S), S \subseteq Seq(Byte), NEW keys, Sorts(keys, S)
  PROVE  LET n == Cardinality(S)
         IN  /\ n \in Nat
             /\ keys \in [1..n -> S]
             /\ \A i, j \in 1..n : keys[i] = keys[j] => i = j
             /\ \A id \in S : \E i \in 1..n : keys[i] = id
<1> DEFINE n == Cardinality(S)
<1>1. n \in Nat
  BY FS_CardinalityType
<1>2. /\ keys \in [1..n -> S]
      /\ \A i, j \in 1..n : i < j => StringLess(keys[i], keys[j])
  BY DEF Sorts
<1>3. \A i \in 1..n : keys[i] \in Seq(Byte)
  BY <1>2
<1> HIDE DEF n
<1>4. ASSUME NEW i \in 1..n, NEW j \in 1..n, keys[i] = keys[j] PROVE i = j
  <2>1. ~(i < j)
    BY <1>2, <1>3, <1>4, StringLessIrreflexive
  <2>2. ~(j < i)
    BY <1>2, <1>3, <1>4, StringLessIrreflexive
  <2> QED
    BY <1>1, <2>1, <2>2
<1>5. keys \in Injection(1..n, S)
  BY <1>2, <1>4 DEF Injection, IsInjective
<1>6. IsFiniteSet(1..n) /\ Cardinality(1..n) = n
  BY <1>1, FS_Interval
<1>7. keys \in Surjection(1..n, S)
  BY <1>5, <1>6, FS_Injection DEF n
<1>8. \A id \in S : \E i \in 1..n : keys[i] = id
  BY <1>7 DEF Surjection
<1> QED
  BY <1>1, <1>2, <1>4, <1>8 DEF n

(* What sort.Strings returns is sorted. *)
LEMMA SortedKeysSorts ==
  ASSUME NEW S, IsFiniteSet(S), S \subseteq Seq(Byte)
  PROVE  Sorts(SortedKeys(S), S)
<1>1. \E k \in [1..Cardinality(S) -> S] :
        \A i, j \in 1..Cardinality(S) : i < j => StringLess(k[i], k[j])
  BY SortExists DEF Sorts
<1> QED
  BY <1>1 DEF SortedKeys, Sorts

(* vector/encode.go:50, "Node IDs are written in sorted order so the       *)
(* encoding is deterministic": there is one way only to sort the IDs of a  *)
(* map.  At the first place where two sorted lists differ, each would have *)
(* a string that comes before the other's.                                 *)
THEOREM SortedKeysUnique ==
  ASSUME NEW S, IsFiniteSet(S), S \subseteq Seq(Byte), NEW keys, Sorts(keys, S)
  PROVE  keys = SortedKeys(S)
<1> DEFINE n == Cardinality(S)
           sorted == SortedKeys(S)
\* where a and c first differ, the string of c comes before that of a
<1>1. ASSUME NEW a, NEW c, Sorts(a, S), Sorts(c, S), NEW i \in 1..n,
             a[i] # c[i], \A j \in 1..n : j < i => a[j] = c[j]
      PROVE  StringLess(c[i], a[i])
  <2>1. /\ n \in Nat
        /\ a \in [1..n -> S]
        /\ \A k, j \in 1..n : a[k] = a[j] => k = j
    BY <1>1, SortedOnce
  <2>2. \A id \in S : \E j \in 1..n : c[j] = id
    BY <1>1, SortedOnce
  <2>3. PICK j \in 1..n : c[j] = a[i]
    BY <2>1, <2>2
  <2>4. ~(j < i) /\ j # i
    BY <1>1, <2>1, <2>3
  <2>5. i < j
    BY <2>1, <2>4
  <2>6. StringLess(c[i], c[j])
    BY <1>1, <2>5 DEF Sorts
  <2> QED
    BY <2>3, <2>6
<1>2. Sorts(sorted, S)
  BY SortedKeysSorts
<1>3. n \in Nat
  BY FS_CardinalityType
<1>4. keys \in [1..n -> S] /\ sorted \in [1..n -> S]
  BY <1>2 DEF Sorts
<1> HIDE DEF n, sorted
<1> DEFINE Differ == {i \in 1..n : keys[i] # sorted[i]}
<1>5. ASSUME Differ # {} PROVE FALSE
  <2>1. Differ \subseteq Nat
    BY <1>3
  <2>2. PICK i \in Differ : \A j \in Differ : i <= j
    <3> HIDE DEF Differ
    <3> QED
      BY <1>5, <2>1, LeastNat
  <2>3. /\ i \in 1..n /\ keys[i] # sorted[i]
        /\ \A j \in 1..n : j < i => keys[j] = sorted[j]
    BY <1>3, <2>2
  <2>4. StringLess(sorted[i], keys[i])
    BY <1>1, <1>2, <2>3
  <2>5. StringLess(keys[i], sorted[i])
    BY <1>1, <1>2, <2>3
  <2>6. keys[i] \in Seq(Byte) /\ sorted[i] \in Seq(Byte)
    BY <1>4, <2>3
  <2> QED
    BY <2>4, <2>5, <2>6, StringLessTransitive, StringLessIrreflexive
<1>6. \A i \in 1..n : keys[i] = sorted[i]
  BY <1>5
<1>7. keys = [i \in 1..n |-> keys[i]] /\ sorted = [i \in 1..n |-> sorted[i]]
  BY <1>4
<1> QED
  BY <1>6, <1>7 DEF sorted

-----------------------------------------------------------------------------
(* The wire: the bytes of a map.                                           *)

\* a map that MarshalBinary may be given
WireMap(m) ==
  /\ m = [id \in DOMAIN m |-> m[id]]
  /\ IsFiniteSet(DOMAIN m) /\ DOMAIN m \subseteq Seq(Byte)
  /\ \A id \in DOMAIN m : m[id] \in Nat /\ m[id] < Capacity(ValueWidth)

\* the equation of the loop of MarshalBinary
BuffLoop(h, m, keys, n, w) ==
  h = [i \in 0..n |-> IF i = 0 THEN Put(n, w) ELSE h[i - 1] \o Entry(m, keys[i], w)]

\* buff holds the buffers of MarshalBinary for the map m, one a round
Layout(buff, m, keys, n, w) ==
  /\ n = Cardinality(DOMAIN m) /\ n \in Nat /\ n < Capacity(w)
  /\ keys \in [1..n -> DOMAIN m]
  /\ \A id \in DOMAIN m : \E i \in 1..n : keys[i] = id
  /\ \A id \in DOMAIN m : Len(id) < Capacity(w)
  /\ buff \in [0..n -> Seq(Byte)]
  /\ buff[0] = Put(n, w)
  /\ \A i \in 1..n : buff[i] = buff[i - 1] \o Entry(m, keys[i], w)

(* The length of an entry is that of its fields. *)
LEMMA EntryFields ==
  ASSUME NEW w \in Nat, NEW m, WireMap(m), NEW id \in DOMAIN m, Len(id) < Capacity(w)
  PROVE  LET e == Entry(m, id, w)
             n == Len(id)
             v == m[id]
         IN  /\ e \in Seq(Byte) /\ Len(e) = w + n + ValueWidth
             /\ \A j \in 1..w : e[j] = Put(n, w)[j]
             /\ \A j \in 1..n : e[w + j] = id[j]
             /\ \A j \in 1..ValueWidth : e[w + n + j] = Put(v, ValueWidth)[j]
<1> DEFINE a == Put(Len(id), w)
           c == Put(m[id], ValueWidth)
<1>1. id \in Seq(Byte) /\ Len(id) \in Nat
  BY DEF WireMap
<1>2. a \in Seq(Byte) /\ Len(a) = w
  BY <1>1, PutType
<1>3. ValueWidth \in Nat /\ m[id] \in Nat /\ m[id] < Capacity(ValueWidth)
  BY WidthsAssumption DEF WireMap
<1>4. c \in Seq(Byte) /\ Len(c) = ValueWidth
  BY <1>3, PutType
<1>5. Entry(m, id, w) = (a \o id) \o c
  BY DEF Entry
<1> HIDE DEF a, c
<1> DEFINE b == a \o id
<1>6. /\ b \in Seq(Byte) /\ Len(b) = w + Len(id)
      /\ \A j \in 1..w : b[j] = a[j]
      /\ \A j \in 1..Len(id) : b[w + j] = id[j]
  BY <1>1, <1>2
<1>7. Entry(m, id, w) = b \o c
  BY <1>5
<1> HIDE DEF b
<1> DEFINE e == b \o c
<1>8. /\ e \in Seq(Byte) /\ Len(e) = w + Len(id) + ValueWidth
      /\ \A j \in 1..(w + Len(id)) : e[j] = b[j]
      /\ \A j \in 1..ValueWidth : e[w + Len(id) + j] = c[j]
  <2>1. /\ e \in Seq(Byte) /\ Len(e) = Len(b) + Len(c)
        /\ \A j \in 1..Len(b) : e[j] = b[j]
        /\ \A j \in 1..Len(c) : e[Len(b) + j] = c[j]
    BY <1>4, <1>6
  <2> HIDE DEF e
  <2>2. Len(b) = w + Len(id) /\ Len(c) = ValueWidth
    BY <1>4, <1>6
  <2> QED
    BY <2>1, <2>2, Zenon
<1> HIDE DEF e
<1>9. \A j \in 1..w : e[j] = a[j]
  BY <1>1, <1>6, <1>8
<1>10. \A j \in 1..Len(id) : e[w + j] = id[j]
  BY <1>1, <1>6, <1>8
<1>11. Entry(m, id, w) = e
  BY <1>7 DEF e
<1> QED
  BY <1>8, <1>9, <1>10, <1>11 DEF a, c

(* What MarshalBinary returns is the last of its buffers. *)
LEMMA MarshalRounds ==
  ASSUME NEW w \in Nat, NEW m, WireMap(m), ~TooLarge(m, w)
  PROVE  \E buff, keys : LET n == Cardinality(DOMAIN m) IN
           Layout(buff, m, keys, n, w) /\ MarshalBinary(m, w) = [data |-> buff[n]]
<1> DEFINE n == Cardinality(DOMAIN m)
           keys == SortedKeys(DOMAIN m)
           buff == CHOOSE h : BuffLoop(h, m, keys, n, w)
<1>1. MarshalBinary(m, w) = [data |-> buff[n]]
  BY DEF MarshalBinary, BuffLoop
<1>2. /\ n \in Nat
      /\ keys \in [1..n -> DOMAIN m]
      /\ \A id \in DOMAIN m : \E i \in 1..n : keys[i] = id
  <2>1. Sorts(keys, DOMAIN m)
    BY SortedKeysSorts DEF WireMap
  <2> HIDE DEF keys
  <2> QED
    BY <2>1, SortedOnce DEF WireMap
<1>3. Capacity(w) \in Nat
  <2>1. PICK c \in [0..w -> Nat] : c[w] = Capacity(w)
    BY CapacityRounds
  <2> QED
    BY <2>1
<1>4. n < Capacity(w)
  BY <1>2, <1>3 DEF TooLarge, MaxUint16
<1>5. \A id \in DOMAIN m : Len(id) < Capacity(w)
  BY <1>3 DEF TooLarge, MaxUint16, WireMap
<1> HIDE DEF n, keys
<1> DEFINE D == Seq(Byte)
           step == [i \in 1..n |-> [s \in D |-> s \o Entry(m, keys[i], w)]]
<1>6. \A i \in 1..n : Entry(m, keys[i], w) \in Seq(Byte)
  BY <1>2, <1>5, EntryFields
<1>7. step \in [1..n -> [D -> D]]
  <2>1. ASSUME NEW i \in 1..n, NEW s \in Seq(Byte) PROVE s \o Entry(m, keys[i], w) \in Seq(Byte)
    BY <1>6, SliceOfConcat
  <2> QED
    BY <2>1
<1>8. \A i \in 1..n, s \in D : step[i][s] = s \o Entry(m, keys[i], w)
  OBVIOUS
<1>9. Put(n, w) \in D
  BY <1>2, <1>4, PutType
<1> HIDE DEF step, D
<1>10. PICK h : Rounds(h, n, Put(n, w), D, step)
  BY <1>2, <1>7, <1>9, RoundsExist
<1>11. ASSUME NEW i \in 1..n PROVE h[i] = h[i - 1] \o Entry(m, keys[i], w)
  <2>1. h[i - 1] \in D
    BY <1>2, <1>10 DEF Rounds
  <2> QED
    BY <1>8, <1>10, <2>1 DEF Rounds
<1>12. BuffLoop(h, m, keys, n, w)
  <2>1. h = [i \in 0..n |-> h[i]]
    BY <1>10 DEF Rounds
  <2>2. \A i \in 0..n : h[i] = IF i = 0 THEN Put(n, w) ELSE h[i - 1] \o Entry(m, keys[i], w)
    <3>1. h[0] = Put(n, w) /\ \A i \in 0..n : i # 0 => i \in 1..n
      BY <1>2, <1>10 DEF Rounds
    <3> QED
      BY <1>11, <3>1, Zenon
  <2> QED
    BY <2>1, <2>2 DEF BuffLoop
<1>13. BuffLoop(buff, m, keys, n, w)
  BY <1>12
<1> HIDE DEF buff
<1>14. /\ buff[0] = Put(n, w)
       /\ \A i \in 1..n : buff[i] = buff[i - 1] \o Entry(m, keys[i], w)
  BY <1>2, <1>13 DEF BuffLoop
<1> DEFINE P == {i \in Nat : i <= n => buff[i] \in D}
<1>15. 0 \in P
  BY <1>9, <1>14
<1>16. ASSUME NEW i \in Nat, i \in P PROVE i + 1 \in P
  <2> SUFFICES ASSUME i + 1 <= n PROVE buff[i + 1] \in D
    OBVIOUS
  <2>1. buff[i] \in Seq(Byte)
    BY <1>2, <1>16 DEF D
  <2>2. i + 1 \in 1..n /\ (i + 1) - 1 = i
    BY <1>2
  <2>3. buff[i + 1] = buff[i] \o Entry(m, keys[i + 1], w)
    BY <1>14, <2>2
  <2>4. Entry(m, keys[i + 1], w) \in Seq(Byte)
    BY <1>6, <2>2
  <2> QED
    BY <2>1, <2>3, <2>4, SliceOfConcat DEF D
<1>17. Nat \subseteq P
  <2> HIDE DEF P
  <2> QED
    BY <1>15, <1>16, NatSetInduction
<1>18. buff \in [0..n -> Seq(Byte)]
  <2>1. buff = [i \in 0..n |-> buff[i]]
    BY <1>13 DEF BuffLoop
  <2>2. \A i \in 0..n : buff[i] \in D
    BY <1>2, <1>17
  <2> QED
    BY <2>1, <2>2 DEF D
<1>19. Layout(buff, m, keys, n, w)
  BY <1>2, <1>4, <1>5, <1>14, <1>18 DEF Layout, n
<1> QED
  BY <1>1, <1>19 DEF n

\* s is what d begins with
Begins(s, d) == Len(s) <= Len(d) /\ \A j \in 1..Len(s) : s[j] = d[j]

\* each round adds the fields of an entry, and changes nothing before them
Grows(buff, keys, n, w) ==
  /\ Len(buff[0]) = w
  /\ \A i \in 1..n : Len(buff[i]) = Len(buff[i - 1]) + w + Len(keys[i]) + ValueWidth
  /\ \A k \in 0..n : Begins(buff[k], buff[n])

(* The buffers only grow, so each of them begins the last one. *)
LEMMA BuffersGrow ==
  ASSUME NEW w \in Nat, NEW m, WireMap(m), NEW buff, NEW keys, NEW n,
         Layout(buff, m, keys, n, w)
  PROVE  Grows(buff, keys, n, w)
<1>1. /\ n \in Nat /\ n < Capacity(w)
      /\ buff \in [0..n -> Seq(Byte)] /\ buff[0] = Put(n, w)
      /\ \A i \in 1..n : buff[i] = buff[i - 1] \o Entry(m, keys[i], w)
  BY DEF Layout
<1>2. \A i \in 1..n : keys[i] \in DOMAIN m /\ Len(keys[i]) < Capacity(w)
  BY DEF Layout
<1>3. ASSUME NEW i \in 1..n
      PROVE  /\ Entry(m, keys[i], w) \in Seq(Byte)
             /\ Len(Entry(m, keys[i], w)) = w + Len(keys[i]) + ValueWidth
             /\ Len(keys[i]) \in Nat
  <2>1. Len(keys[i]) \in Nat
    BY <1>2 DEF WireMap
  <2> DEFINE id == keys[i]
  <2>2. id \in DOMAIN m /\ Len(id) < Capacity(w)
    BY <1>2
  <2> HIDE DEF id
  <2>3. Entry(m, id, w) \in Seq(Byte) /\ Len(Entry(m, id, w)) = w + Len(id) + ValueWidth
    BY <2>2, EntryFields
  <2> QED
    BY <2>1, <2>3 DEF id
<1>4. ASSUME NEW i \in 1..n
      PROVE  /\ Len(buff[i]) = Len(buff[i - 1]) + Len(Entry(m, keys[i], w))
             /\ Begins(buff[i - 1], buff[i])
  <2> DEFINE s == buff[i - 1]
             e == Entry(m, keys[i], w)
  <2>1. s \in Seq(Byte) /\ e \in Seq(Byte) /\ buff[i] = s \o e
    <3>1. i - 1 \in 0..n
      BY <1>1
    <3>2. buff[i - 1] \in Seq(Byte)
      BY <1>1, <3>1
    <3> QED
      BY <1>1, <1>3, <3>2, Zenon
  <2> HIDE DEF s, e
  <2>2. Len(s \o e) = Len(s) + Len(e) /\ Begins(s, s \o e)
    BY <2>1 DEF Begins
  <2> QED
    BY <2>1, <2>2 DEF s, e
<1>5. \A i \in 0..n : Len(buff[i]) \in Nat
  BY <1>1
<1>6. ASSUME NEW i \in 1..n
      PROVE  Len(buff[i]) = Len(buff[i - 1]) + w + Len(keys[i]) + ValueWidth
  <2>1. i - 1 \in 0..n
    BY <1>1
  <2>2. Len(buff[i - 1]) \in Nat
    BY <1>5, <2>1
  <2>3. Len(buff[i]) = Len(buff[i - 1]) + (w + Len(keys[i]) + ValueWidth)
    BY <1>3, <1>4, Zenon
  <2>4. \A o, l \in Nat : o + (w + l + ValueWidth) = o + w + l + ValueWidth
    BY WidthsAssumption
  <2>5. Len(keys[i]) \in Nat
    BY <1>3, Zenon
  <2> QED
    BY <2>2, <2>3, <2>4, <2>5, Zenon
<1> DEFINE P == {i \in Nat : i <= n => \A k \in 0..i : Begins(buff[k], buff[i])}
<1>7. 0 \in P
  BY <1>5 DEF Begins
<1>8. ASSUME NEW i \in Nat, i \in P PROVE i + 1 \in P
  <2> SUFFICES ASSUME i + 1 <= n, NEW k \in 0..(i + 1) PROVE Begins(buff[k], buff[i + 1])
    OBVIOUS
  <2>1. i + 1 \in 1..n /\ (i + 1) - 1 = i /\ i \in 0..n /\ k \in 0..n
    BY <1>1
  <2>2. Begins(buff[i], buff[i + 1])
    BY <1>4, <2>1
  <2>3. CASE k = i + 1
    BY <1>5, <2>1, <2>3 DEF Begins
  <2>4. CASE k # i + 1
    <3>1. Begins(buff[k], buff[i])
      BY <1>1, <1>8, <2>4
    <3> QED
      BY <1>5, <2>1, <2>2, <3>1 DEF Begins
  <2> QED
    BY <2>3, <2>4
<1>9. Nat \subseteq P
  <2> HIDE DEF P
  <2> QED
    BY <1>7, <1>8, NatSetInduction
<1>10. \A k \in 0..n : Begins(buff[k], buff[n])
  BY <1>1, <1>9
<1>11. Len(buff[0]) = w
  BY <1>1, PutType
<1> QED
  BY <1>6, <1>10, <1>11 DEF Grows

-----------------------------------------------------------------------------
(* The wire: reading the bytes of a map.                                   *)

\* d and data agree as far as both go
Agrees(d, data) ==
  d \in Seq(Byte) /\ \A j \in 1..Len(d) : j <= Len(data) => d[j] = data[j]

(* A field is read back from where it lies. *)
LEMMA FieldAt ==
  ASSUME NEW d \in Seq(Byte), NEW x \in Seq(Byte), NEW o \in Nat,
         o + Len(x) <= Len(d), \A j \in 1..Len(x) : d[o + j] = x[j]
  PROVE  Slice(d, o, o + Len(x)) = x
<1>1. Len(x) \in Nat /\ Len(d) \in Nat
  OBVIOUS
<1>2. Slice(d, o, o + Len(x)) = [j \in 1..Len(x) |-> d[o + j]]
  BY <1>1 DEF Slice
<1>3. x = [j \in 1..Len(x) |-> x[j]]
  OBVIOUS
<1> QED
  BY <1>2, <1>3

\* d holds the fields of entry k where MarshalBinary put them, as far as it goes
HoldsEntry(d, buff, m, keys, k, w) ==
  LET o == Len(buff[k - 1])
      id == keys[k]
      l == Len(id)
  IN  /\ o \in Nat /\ l \in Nat /\ l < Capacity(w) /\ id \in DOMAIN m
      /\ Len(buff[k]) = o + w + l + ValueWidth
      /\ o + w <= Len(d) => Slice(d, o, o + w) = Put(l, w)
      /\ o + w + l <= Len(d) => Slice(d, o + w, o + w + l) = id
      /\ o + w + l + ValueWidth <= Len(d) =>
           Slice(d, o + w + l, o + w + l + ValueWidth) = Put(m[id], ValueWidth)

(* A string that agrees with the encoding holds the fields of each entry   *)
(* where MarshalBinary put them, as far as it goes.                        *)
LEMMA EntryAt ==
  ASSUME NEW w \in Nat, NEW m, WireMap(m), NEW buff, NEW keys, NEW n,
         Layout(buff, m, keys, n, w), NEW d, Agrees(d, buff[n]), NEW k \in 1..n
  PROVE  HoldsEntry(d, buff, m, keys, k, w)
<1> DEFINE s == buff[k - 1]
           o == Len(s)
           id == keys[k]
           l == Len(id)
           e == Entry(m, id, w)
<1>1. n \in Nat /\ k - 1 \in 0..n /\ k \in 0..n /\ n \in 0..n
  BY DEF Layout
<1>2. s \in Seq(Byte) /\ buff[k] = s \o e /\ buff[k] \in Seq(Byte) /\ buff[n] \in Seq(Byte)
  <2>1. /\ buff \in [0..n -> Seq(Byte)]
        /\ \A i \in 1..n : buff[i] = buff[i - 1] \o Entry(m, keys[i], w)
    BY DEF Layout
  <2>2. s \in Seq(Byte) /\ buff[k] \in Seq(Byte) /\ buff[n] \in Seq(Byte)
    BY <1>1, <2>1
  <2> QED
    BY <2>1, <2>2, Zenon
<1>3. id \in DOMAIN m /\ l < Capacity(w)
  BY DEF Layout
<1>4. id \in Seq(Byte) /\ l \in Nat
  BY <1>3 DEF WireMap
<1>5. /\ Len(buff[k]) = o + w + l + ValueWidth
      /\ Begins(buff[k], buff[n])
  <2>1. /\ \A i \in 1..n : Len(buff[i]) = Len(buff[i - 1]) + w + Len(keys[i]) + ValueWidth
        /\ \A i \in 0..n : Begins(buff[i], buff[n])
    <3>1. Grows(buff, keys, n, w)
      BY BuffersGrow
    <3> QED
      BY <3>1, Zenon DEF Grows
  <2> QED
    BY <1>1, <2>1, Zenon
<1> HIDE DEF s, id
<1>6. /\ e \in Seq(Byte) /\ Len(e) = w + l + ValueWidth
      /\ \A j \in 1..w : e[j] = Put(l, w)[j]
      /\ \A j \in 1..l : e[w + j] = id[j]
      /\ \A j \in 1..ValueWidth : e[w + l + j] = Put(m[id], ValueWidth)[j]
  BY <1>3, EntryFields
<1> HIDE DEF e, l, o
<1>7. o \in Nat /\ ValueWidth \in Nat
  BY <1>2, WidthsAssumption DEF o
<1>8. \A j \in 1..Len(e) : buff[k][o + j] = e[j]
  BY <1>2, <1>6 DEF o
<1>9. d \in Seq(Byte) /\ Len(d) \in Nat
  BY DEF Agrees
<1>10. ASSUME NEW j \in 1..(w + l + ValueWidth), o + j <= Len(d) PROVE d[o + j] = e[j]
  <2>1. o + j \in 1..Len(buff[k]) /\ o + j \in 1..Len(d)
    BY <1>4, <1>5, <1>7, <1>9, <1>10
  <2>2. o + j \in 1..Len(buff[n])
    BY <1>2, <1>5, <2>1 DEF Begins
  <2>3. d[o + j] = buff[n][o + j]
    BY <2>1, <2>2 DEF Agrees
  <2>4. buff[n][o + j] = buff[k][o + j]
    BY <1>5, <2>1 DEF Begins
  <2>5. buff[k][o + j] = e[j]
    BY <1>6, <1>8
  <2> QED
    BY <2>3, <2>4, <2>5
<1>11. Put(l, w) \in Seq(Byte) /\ Len(Put(l, w)) = w
  BY <1>3, <1>4, PutType DEF l
<1>12. ASSUME o + w <= Len(d) PROVE Slice(d, o, o + w) = Put(l, w)
  <2> DEFINE x == Put(l, w)
  <2>1. \A j \in 1..w : d[o + j] = x[j]
    BY <1>4, <1>6, <1>7, <1>9, <1>10, <1>12
  <2>2. x \in Seq(Byte) /\ Len(x) = w
    BY <1>11
  <2> HIDE DEF x
  <2>3. Slice(d, o, o + Len(x)) = x
    BY <1>7, <1>9, <1>12, <2>1, <2>2, FieldAt
  <2> QED
    BY <2>2, <2>3 DEF x
<1>13. ASSUME o + w + l <= Len(d) PROVE Slice(d, o + w, o + w + l) = id
  <2>1. \A j \in 1..l : d[(o + w) + j] = id[j]
    <3> SUFFICES ASSUME NEW j \in 1..l PROVE d[(o + w) + j] = id[j]
      OBVIOUS
    <3>1. (o + w) + j = o + (w + j) /\ w + j \in 1..(w + l + ValueWidth) /\ o + (w + j) <= Len(d)
      BY <1>4, <1>7, <1>9, <1>13
    <3>2. d[o + (w + j)] = e[w + j]
      BY <1>10, <3>1
    <3>3. e[w + j] = id[j]
      BY <1>6
    <3> QED
      BY <3>1, <3>2, <3>3
  <2>2. o + w \in Nat /\ l = Len(id)
    BY <1>7 DEF l
  <2> QED
    BY <1>4, <1>9, <1>13, <2>1, <2>2, FieldAt
<1>14. ASSUME o + w + l + ValueWidth <= Len(d)
       PROVE  Slice(d, o + w + l, o + w + l + ValueWidth) = Put(m[id], ValueWidth)
  <2> DEFINE x == Put(m[id], ValueWidth)
             a == o + w + l
  <2>1. x \in Seq(Byte) /\ Len(x) = ValueWidth
    <3>1. m[id] \in Nat /\ m[id] < Capacity(ValueWidth)
      BY <1>3 DEF WireMap
    <3> QED
      BY <1>7, <3>1, PutType
  <2>2. \A j \in 1..ValueWidth : d[a + j] = x[j]
    <3> SUFFICES ASSUME NEW j \in 1..ValueWidth PROVE d[a + j] = x[j]
      OBVIOUS
    <3>1. /\ a + j = o + (w + l + j) /\ w + l + j \in 1..(w + l + ValueWidth)
          /\ o + (w + l + j) <= Len(d)
      BY <1>4, <1>7, <1>9, <1>14
    <3>2. d[o + (w + l + j)] = e[w + l + j]
      BY <1>10, <3>1
    <3>3. e[w + l + j] = x[j]
      BY <1>6
    <3> QED
      BY <3>1, <3>2, <3>3, Zenon
  <2>3. a \in Nat /\ a + ValueWidth <= Len(d)
    BY <1>4, <1>7, <1>14
  <2> HIDE DEF x, a
  <2>4. Slice(d, a, a + Len(x)) = x
    BY <1>9, <2>1, <2>2, <2>3, FieldAt
  <2> QED
    BY <2>1, <2>4, Zenon DEF x, a
<1> QED
  BY <1>3, <1>4, <1>5, <1>7, <1>12, <1>13, <1>14, Zenon DEF HoldsEntry, s, o, id, l

\* what UnmarshalBinary has read of d after k rounds
ReadSoFar(buff, m, keys, d, k) ==
  IF Len(buff[k]) <= Len(d)
  THEN [off |-> Len(buff[k]), vec |-> [id \in {keys[i] : i \in 1..k} |-> m[id]]]
  ELSE ErrCorruptEncoding

(* A state of the loop is not an error. *)
LEMMA StateIsNoError ==
  ASSUME NEW o, NEW f
  PROVE  [off |-> o, vec |-> f] # ErrCorruptEncoding
<1>1. DOMAIN [off |-> o, vec |-> f] # DOMAIN [error |-> "corrupt"]
  OBVIOUS
<1> QED
  BY <1>1 DEF ErrCorruptEncoding

(* A round of the loop adds one entry, or finds that bytes are missing. *)
LEMMA ReadRound ==
  ASSUME NEW w \in Nat, NEW m, WireMap(m), NEW buff, NEW keys, NEW n,
         Layout(buff, m, keys, n, w), NEW d, Agrees(d, buff[n]), NEW k \in 1..n
  PROVE  ReadEntry(d, w, ReadSoFar(buff, m, keys, d, k - 1)) =
           ReadSoFar(buff, m, keys, d, k)
<1> DEFINE o == Len(buff[k - 1])
           id == keys[k]
           l == Len(id)
           before == {keys[i] : i \in 1..(k - 1)}
           f == [x \in before |-> m[x]]
           s == [off |-> o, vec |-> f]
<1>1. /\ o \in Nat /\ l \in Nat /\ l < Capacity(w) /\ id \in DOMAIN m
      /\ Len(buff[k]) = o + w + l + ValueWidth
      /\ o + w <= Len(d) => Slice(d, o, o + w) = Put(l, w)
      /\ o + w + l <= Len(d) => Slice(d, o + w, o + w + l) = id
      /\ o + w + l + ValueWidth <= Len(d) =>
           Slice(d, o + w + l, o + w + l + ValueWidth) = Put(m[id], ValueWidth)
  <2>1. HoldsEntry(d, buff, m, keys, k, w)
    BY EntryAt
  <2> QED
    BY <2>1, Zenon DEF HoldsEntry
<1>2. n \in Nat /\ before \cup {id} = {keys[i] : i \in 1..k}
  <2>1. n \in Nat
    BY DEF Layout
  <2>2. k \in Nat /\ \A i : i \in 1..k <=> i \in 1..(k - 1) \/ i = k
    BY <2>1
  <2> QED
    BY <2>1, <2>2
<1>3. ReadSoFar(buff, m, keys, d, k - 1) = IF o <= Len(d) THEN s ELSE ErrCorruptEncoding
  BY DEF ReadSoFar
<1>4. Len(d) \in Nat /\ ValueWidth \in Nat
  BY WidthsAssumption DEF Agrees
<1>5. m[id] \in Nat /\ m[id] < Capacity(ValueWidth)
  BY <1>1 DEF WireMap
<1>6. Uint(Put(l, w)) = l /\ Uint(Put(m[id], ValueWidth)) = m[id]
  <2> HIDE DEF l, id
  <2>1. Uint(Put(l, w)) = l
    BY <1>1, UintOfPut
  <2>2. Uint(Put(m[id], ValueWidth)) = m[id]
    BY <1>4, <1>5, UintOfPut
  <2> QED
    BY <2>1, <2>2
<1> HIDE DEF o, id, l
<1>7. CASE ~(o <= Len(d))
  <2>1. ~(Len(buff[k]) <= Len(d))
    BY <1>1, <1>4, <1>7
  <2>2. ReadEntry(d, w, ErrCorruptEncoding) = ErrCorruptEncoding
    BY Zenon DEF ReadEntry
  <2> QED
    BY <1>3, <1>7, <2>1, <2>2 DEF ReadSoFar
<1>8. CASE o <= Len(d)
  <2> DEFINE idAt == o + w
             idLen == Uint(Slice(d, o, idAt))
             valAt == idAt + idLen
             read == Slice(d, idAt, valAt)
  <2>1. s # ErrCorruptEncoding
    BY StateIsNoError
  <2>2. s.off = o /\ s.vec = f /\ DOMAIN f = before /\ \A x \in before : f[x] = m[x]
    OBVIOUS
  <2> HIDE DEF s, f
  <2>3. ReadEntry(d, w, s) =
          IF idAt > Len(d) \/ valAt + ValueWidth > Len(d)
          THEN ErrCorruptEncoding
          ELSE [off |-> valAt + ValueWidth,
                vec |-> [x \in before \cup {read} |->
                           IF x = read
                           THEN Uint(Slice(d, valAt, valAt + ValueWidth))
                           ELSE f[x]]]
    BY <2>1, <2>2 DEF ReadEntry
  <2>4. CASE Len(buff[k]) <= Len(d)
    <3>1. o + w <= Len(d) /\ o + w + l <= Len(d) /\ o + w + l + ValueWidth <= Len(d)
      BY <1>1, <1>4, <2>4
    <3>2. idLen = l /\ valAt = o + w + l
      BY <1>1, <1>6, <3>1
    <3>3. read = id
      BY <1>1, <3>1, <3>2
    <3>4. Uint(Slice(d, valAt, valAt + ValueWidth)) = m[id]
      BY <1>1, <1>6, <3>1, <3>2
    <3>5. ~(idAt > Len(d)) /\ ~(valAt + ValueWidth > Len(d))
      BY <1>1, <1>4, <3>1, <3>2
    <3>6. valAt + ValueWidth = Len(buff[k])
      BY <1>1, <3>2
    <3> HIDE DEF idAt, idLen, valAt, read, before
    <3>7. ReadEntry(d, w, s) =
            [off |-> Len(buff[k]),
             vec |-> [x \in before \cup {id} |-> IF x = id THEN m[id] ELSE f[x]]]
      BY <2>3, <3>3, <3>4, <3>5, <3>6
    <3>8. [x \in before \cup {id} |-> IF x = id THEN m[id] ELSE f[x]]
            = [x \in {keys[i] : i \in 1..k} |-> m[x]]
      BY <1>2, <2>2
    <3>9. ReadSoFar(buff, m, keys, d, k) =
            [off |-> Len(buff[k]), vec |-> [x \in {keys[i] : i \in 1..k} |-> m[x]]]
      BY <2>4 DEF ReadSoFar
    <3>10. ReadSoFar(buff, m, keys, d, k - 1) = s
      BY <1>3, <1>8
    <3> QED
      BY <3>7, <3>8, <3>9, <3>10, Zenon
  <2>5. CASE ~(Len(buff[k]) <= Len(d))
    <3>1. idAt > Len(d) \/ valAt + ValueWidth > Len(d)
      <4> SUFFICES ASSUME ~(idAt > Len(d)) PROVE valAt + ValueWidth > Len(d)
        OBVIOUS
      <4>1. o + w <= Len(d)
        BY <1>1, <1>4
      <4>2. idLen = l
        BY <1>1, <1>6, <4>1
      <4> QED
        BY <1>1, <1>4, <2>5, <4>2
    <3> HIDE DEF idAt, idLen, valAt, read, before
    <3>2. ReadEntry(d, w, s) = ErrCorruptEncoding
      BY <2>3, <3>1
    <3>3. ReadSoFar(buff, m, keys, d, k) = ErrCorruptEncoding
      BY <2>5 DEF ReadSoFar
    <3>4. ReadSoFar(buff, m, keys, d, k - 1) = s
      BY <1>3, <1>8
    <3> QED
      BY <3>2, <3>3, <3>4, Zenon
  <2> QED
    BY <2>4, <2>5
<1> QED
  BY <1>7, <1>8

\* the equation of the loop of UnmarshalBinary
VecLoop(h, d, n, w) ==
  h = [i \in 0..n |-> IF i = 0 THEN Start(w) ELSE ReadEntry(d, w, h[i - 1])]

(* A string that agrees with the encoding as far as both go is read back   *)
(* when it is as long, and refused when it is shorter or longer.           *)
LEMMA ReadsWhatAgrees ==
  ASSUME NEW w \in Nat, NEW m, WireMap(m), NEW buff, NEW keys, NEW n,
         Layout(buff, m, keys, n, w), NEW d, Agrees(d, buff[n])
  PROVE  UnmarshalBinary(d, w) =
           IF Len(d) = Len(buff[n]) THEN [vec |-> m] ELSE ErrCorruptEncoding
<1>1. Grows(buff, keys, n, w)
  BY BuffersGrow
<1>2. n \in Nat /\ n < Capacity(w) /\ 0 \in 0..n /\ n \in 0..n
  BY DEF Layout
<1>3. d \in Seq(Byte) /\ Len(d) \in Nat
  BY DEF Agrees
<1>4. buff[0] = Put(n, w) /\ buff[n] \in Seq(Byte) /\ Len(buff[n]) \in Nat
  BY <1>2 DEF Layout
<1>5. /\ Len(buff[0]) = w /\ w <= Len(buff[n])
      /\ \A j \in 1..w : Put(n, w)[j] = buff[n][j]
  BY <1>1, <1>2, <1>4 DEF Grows, Begins
<1>6. CASE Len(d) < w
  <2>1. UnmarshalBinary(d, w) = ErrCorruptEncoding
    BY <1>6 DEF UnmarshalBinary
  <2>2. Len(d) # Len(buff[n])
    BY <1>3, <1>4, <1>5, <1>6
  <2> QED
    BY <2>1, <2>2
<1>7. CASE ~(Len(d) < w)
  <2> DEFINE loop == CHOOSE h : VecLoop(h, d, n, w)
             g == [i \in 0..n |-> ReadSoFar(buff, m, keys, d, i)]
  <2>1. Uint(Slice(d, 0, w)) = n
    <3> DEFINE x == Put(n, w)
    <3>1. x \in Seq(Byte) /\ Len(x) = w
      BY <1>2, PutType
    <3>2. \A j \in 1..w : d[0 + j] = x[j]
      BY <1>3, <1>4, <1>5, <1>7 DEF Agrees
    <3>3. Uint(x) = n
      BY <1>2, UintOfPut
    <3> HIDE DEF x
    <3>4. Slice(d, 0, 0 + Len(x)) = x
      BY <1>3, <1>7, <3>1, <3>2, FieldAt
    <3> QED
      BY <3>1, <3>3, <3>4
  <2>2. UnmarshalBinary(d, w) =
          IF loop[n] = ErrCorruptEncoding \/ loop[n].off # Len(d)
          THEN ErrCorruptEncoding ELSE [vec |-> loop[n].vec]
    BY <1>7, <2>1 DEF UnmarshalBinary, VecLoop
  <2>3. ReadSoFar(buff, m, keys, d, 0) = Start(w)
    <3>1. {keys[i] : i \in 1..0} = {}
      OBVIOUS
    <3>2. Len(buff[0]) <= Len(d)
      BY <1>3, <1>5, <1>7
    <3>3. [id \in {} |-> m[id]] = EmptyVector
      BY DEF EmptyVector
    <3> QED
      BY <1>5, <3>1, <3>2, <3>3 DEF ReadSoFar, Start
  <2>4. \A i \in 1..n : g[i] = ReadEntry(d, w, g[i - 1])
    <3> SUFFICES ASSUME NEW i \in 1..n PROVE g[i] = ReadEntry(d, w, g[i - 1])
      OBVIOUS
    <3>1. i \in 0..n /\ i - 1 \in 0..n
      BY <1>2
    <3>2. g[i] = ReadSoFar(buff, m, keys, d, i) /\ g[i - 1] = ReadSoFar(buff, m, keys, d, i - 1)
      BY <3>1
    <3>3. ReadEntry(d, w, ReadSoFar(buff, m, keys, d, i - 1)) = ReadSoFar(buff, m, keys, d, i)
      BY ReadRound
    <3> QED
      BY <3>2, <3>3, Zenon
  <2>5. g[0] = Start(w) /\ g[n] = ReadSoFar(buff, m, keys, d, n)
    BY <1>2, <2>3
  <2>6. g = [i \in 0..n |-> g[i]]
    OBVIOUS
  <2> HIDE DEF g
  <2>7. VecLoop(g, d, n, w)
    <3>1. \A i \in 0..n : i # 0 => i \in 1..n
      BY <1>2
    <3>2. \A i \in 0..n : g[i] = IF i = 0 THEN Start(w) ELSE ReadEntry(d, w, g[i - 1])
      BY <2>4, <2>5, <3>1, Zenon
    <3> QED
      BY <2>6, <3>2 DEF VecLoop
  <2>8. VecLoop(loop, d, n, w)
    BY <2>7
  <2> HIDE DEF loop
  <2>9. loop[0] = Start(w) /\ \A i \in 1..n : loop[i] = ReadEntry(d, w, loop[i - 1])
    BY <1>2, <2>8 DEF VecLoop
  <2> DEFINE P == {i \in Nat : i <= n => loop[i] = g[i]}
  <2>10. 0 \in P
    BY <2>5, <2>9
  <2>11. ASSUME NEW i \in Nat, i \in P PROVE i + 1 \in P
    <3> SUFFICES ASSUME i + 1 <= n PROVE loop[i + 1] = g[i + 1]
      OBVIOUS
    <3>1. i + 1 \in 1..n /\ (i + 1) - 1 = i /\ loop[i] = g[i]
      BY <1>2, <2>11
    <3>2. loop[i + 1] = ReadEntry(d, w, loop[i]) /\ g[i + 1] = ReadEntry(d, w, g[i])
      BY <2>4, <2>9, <3>1
    <3> QED
      BY <3>1, <3>2
  <2>12. Nat \subseteq P
    <3> HIDE DEF P
    <3> QED
      BY <2>10, <2>11, NatSetInduction
  <2>13. loop[n] = ReadSoFar(buff, m, keys, d, n)
    BY <1>2, <2>5, <2>12
  <2>14. [id \in {keys[i] : i \in 1..n} |-> m[id]] = m
    <3>1. {keys[i] : i \in 1..n} = DOMAIN m
      <4>1. /\ keys \in [1..n -> DOMAIN m]
            /\ \A id \in DOMAIN m : \E i \in 1..n : keys[i] = id
        BY DEF Layout
      <4>2. \A i \in 1..n : keys[i] \in DOMAIN m
        BY <4>1
      <4> QED
        BY <4>1, <4>2
    <3>2. m = [id \in DOMAIN m |-> m[id]]
      BY DEF WireMap
    <3> QED
      BY <3>1, <3>2
  <2>15. CASE Len(buff[n]) <= Len(d)
    <3>1. loop[n] = [off |-> Len(buff[n]), vec |-> m]
      BY <2>13, <2>14, <2>15 DEF ReadSoFar
    <3>2. loop[n] # ErrCorruptEncoding
      BY <3>1, StateIsNoError
    <3>3. loop[n].off = Len(buff[n]) /\ loop[n].vec = m
      BY <3>1
    <3> QED
      BY <2>2, <3>2, <3>3
  <2>16. CASE ~(Len(buff[n]) <= Len(d))
    <3>1. loop[n] = ErrCorruptEncoding
      BY <2>13, <2>16 DEF ReadSoFar
    <3>2. Len(d) # Len(buff[n])
      BY <1>3, <1>4, <2>16
    <3> QED
      BY <2>2, <3>1, <3>2
  <2> QED
    BY <2>15, <2>16
<1> QED
  BY <1>6, <1>7

(* The map of a clock, its keys being strings of bytes. *)
LEMMA NamedIsWireMap ==
  ASSUME IsFiniteSet(Node), NEW v \in Vector, NEW name \in Namings
  PROVE  WireMap(Named(v, name))
<1> DEFINE ids == {name[k] : k \in DOMAIN v}
           at(id) == CHOOSE k \in DOMAIN v : name[k] = id
<1>1. name \in [Node -> Seq(Byte)]
  BY NamingsAssumption
<1>2. DOMAIN v \subseteq Node /\ v \in [DOMAIN v -> Counter]
  BY VectorProperties
<1>3. IsFiniteSet(DOMAIN v)
  BY <1>2, FS_Subset
<1>4. IsFiniteSet(ids)
  <2> DEFINE f == [k \in DOMAIN v |-> name[k]]
  <2>1. f \in Surjection(DOMAIN v, ids)
    BY DEF Surjection
  <2> HIDE DEF f, ids
  <2> QED
    BY <1>3, <2>1, FS_Surjection
<1>5. ids \subseteq Seq(Byte)
  BY <1>1, <1>2
<1>6. \A id \in ids : at(id) \in DOMAIN v
  OBVIOUS
<1>7. \A id \in ids : v[at(id)] \in Nat /\ v[at(id)] <= MaxUint64
  BY <1>2, <1>6, MaxUint64Assumption DEF Counter
<1> HIDE DEF ids, at
<1>8. Named(v, name) = [id \in ids |-> v[at(id)]]
  BY DEF Named, ids, at
<1>9. MaxUint64 \in Nat /\ MaxUint64 < Capacity(ValueWidth) /\ Capacity(ValueWidth) \in Nat
  <2>1. ValueWidth \in Nat /\ MaxUint64 < Capacity(ValueWidth)
    BY WidthsAssumption
  <2>2. PICK c \in [0..ValueWidth -> Nat] : c[ValueWidth] = Capacity(ValueWidth)
    BY <2>1, CapacityRounds
  <2> QED
    BY <2>1, <2>2, MaxUint64Assumption
<1> QED
  BY <1>4, <1>5, <1>7, <1>8, <1>9 DEF WireMap

(* Decoding inverts encoding, and refuses what lost or gained a tail, for  *)
(* every map of a clock, every naming of the nodes and every width.        *)
LEMMA VectorSurvives ==
  ASSUME IsFiniteSet(Node), NEW v \in Vector
  PROVE  Survives(v)
<1> SUFFICES ASSUME NEW name \in Namings, NEW w \in Widths,
                    MarshalBinary(Named(v, name), w) # ErrTooLarge
             PROVE  LET bin == MarshalBinary(Named(v, name), w) IN
                    /\ UnmarshalBinary(bin.data, w) = [vec |-> Named(v, name)]
                    /\ \A cut \in 0..(Len(bin.data) - 1) :
                         UnmarshalBinary(Slice(bin.data, 0, cut), w) = ErrCorruptEncoding
                    /\ \A b \in Byte :
                         UnmarshalBinary(Append(bin.data, b), w) = ErrCorruptEncoding
  BY Zenon DEF Survives
<1> DEFINE m == Named(v, name)
           n == Cardinality(DOMAIN m)
<1>1. WireMap(m) /\ w \in Nat
  BY NamedIsWireMap, WidthsAssumption
<1>2. ~TooLarge(m, w)
  BY DEF MarshalBinary
<1> HIDE DEF m
<1>3. PICK buff, keys : Layout(buff, m, keys, n, w) /\ MarshalBinary(m, w) = [data |-> buff[n]]
  BY <1>1, <1>2, MarshalRounds
<1> DEFINE data == buff[n]
<1>4. data \in Seq(Byte) /\ Len(data) \in Nat
  <2>1. n \in Nat /\ buff \in [0..n -> Seq(Byte)]
    BY <1>3 DEF Layout
  <2> QED
    BY <2>1
<1>5. MarshalBinary(m, w).data = data
  BY <1>3
<1>6. ASSUME NEW d, Agrees(d, data)
      PROVE  UnmarshalBinary(d, w) = IF Len(d) = Len(data) THEN [vec |-> m] ELSE ErrCorruptEncoding
  BY <1>1, <1>3, <1>6, ReadsWhatAgrees
<1> HIDE DEF data, n
<1>7. UnmarshalBinary(data, w) = [vec |-> m]
  <2>1. Agrees(data, data)
    BY <1>4 DEF Agrees
  <2> QED
    BY <1>6, <2>1
<1>8. ASSUME NEW cut \in 0..(Len(data) - 1)
      PROVE  UnmarshalBinary(Slice(data, 0, cut), w) = ErrCorruptEncoding
  <2> DEFINE d == Slice(data, 0, cut)
  <2>1. d \in Seq(Byte) /\ Len(d) = cut /\ \A j \in 1..cut : d[j] = data[j]
    BY <1>4 DEF Slice
  <2> HIDE DEF d
  <2>2. Agrees(d, data)
    BY <1>4, <2>1 DEF Agrees
  <2>3. Len(d) # Len(data)
    BY <1>4, <2>1
  <2> QED
    BY <1>6, <2>2, <2>3 DEF d
<1>9. ASSUME NEW b \in Byte
      PROVE  UnmarshalBinary(Append(data, b), w) = ErrCorruptEncoding
  <2> DEFINE d == Append(data, b)
  <2>1. d \in Seq(Byte) /\ Len(d) = Len(data) + 1 /\ \A j \in 1..Len(data) : d[j] = data[j]
    BY <1>4
  <2> HIDE DEF d
  <2>2. Agrees(d, data)
    BY <1>4, <2>1 DEF Agrees
  <2>3. Len(d) # Len(data)
    BY <1>4, <2>1
  <2> QED
    BY <1>6, <2>2, <2>3 DEF d
<1> QED
  BY <1>5, <1>7, <1>8, <1>9, Zenon DEF m

(* Every map of a clock survives the wire. *)
THEOREM VectorsSurvive ==
  ASSUME IsFiniteSet(Node)
  PROVE  StoreSpec => []VectorsSurviveWire
<1>1. ASSUME NEW v \in Vector PROVE <<v, TRUE>> \in WireOutcomes
  <2>1. Survives(v) = TRUE
    BY VectorSurvives DEF Survives
  <2> QED
    BY <2>1 DEF WireOutcomes
<1>2. TypeOK => VectorsSurviveWire
  BY <1>1 DEF TypeOK, VectorsSurviveWire
<1>3. StoreTypeOK => TypeOK
  BY DEF StoreTypeOK
<1> QED
  BY <1>2, <1>3, StoreTypeCorrect, PTL

-----------------------------------------------------------------------------
(* The wire: any bytes.                                                    *)

\* a map of at most k entries whose IDs fit
Fits(f, k, w) ==
  /\ WireMap(f)
  /\ Cardinality(DOMAIN f) <= k
  /\ \A id \in DOMAIN f : Len(id) < Capacity(w)

\* a state of the loop of UnmarshalBinary after k rounds
LoopState(s, k, w) ==
  \/ s = ErrCorruptEncoding
  \/ \E o, f : o \in Nat /\ s = [off |-> o, vec |-> f] /\ Fits(f, k, w)

(* A round of the loop on any bytes adds one entry at most. *)
LEMMA AnyRound ==
  ASSUME NEW w \in Nat, NEW d \in Seq(Byte), NEW k \in Nat, NEW s, LoopState(s, k, w)
  PROVE  LoopState(ReadEntry(d, w, s), k + 1, w)
<1>1. CASE s = ErrCorruptEncoding
  <2>1. ReadEntry(d, w, ErrCorruptEncoding) = ErrCorruptEncoding
    BY Zenon DEF ReadEntry
  <2> QED
    BY <1>1, <2>1 DEF LoopState
<1>2. CASE s # ErrCorruptEncoding
  <2>1. PICK o, f : o \in Nat /\ s = [off |-> o, vec |-> f] /\ Fits(f, k, w)
    BY <1>2 DEF LoopState
  <2>2. s.off = o /\ s.vec = f
    BY <2>1
  <2> DEFINE idAt == o + w
             idLen == Uint(Slice(d, o, idAt))
             valAt == idAt + idLen
             id == Slice(d, idAt, valAt)
             v == Uint(Slice(d, valAt, valAt + ValueWidth))
             g == [x \in DOMAIN f \cup {id} |-> IF x = id THEN v ELSE f[x]]
  <2>3. ReadEntry(d, w, s) =
          IF idAt > Len(d) \/ valAt + ValueWidth > Len(d)
          THEN ErrCorruptEncoding
          ELSE [off |-> valAt + ValueWidth, vec |-> g]
    BY <1>2, <2>2 DEF ReadEntry
  <2>4. CASE idAt > Len(d) \/ valAt + ValueWidth > Len(d)
    BY <2>3, <2>4 DEF LoopState
  <2>5. CASE ~(idAt > Len(d)) /\ ~(valAt + ValueWidth > Len(d))
    <3>1. Len(d) \in Nat /\ ValueWidth \in Nat /\ idAt \in Nat /\ o <= idAt /\ idAt - o = w
      BY <2>1, WidthsAssumption
    <3>2. idLen \in Nat /\ idLen < Capacity(w)
      <4> DEFINE b == Slice(d, o, idAt)
      <4>1. b \in Seq(Byte) /\ Len(b) = w
        <5> HIDE DEF idAt
        <5>1. idAt <= Len(d)
          BY <2>5, <3>1
        <5> QED
          BY <2>1, <3>1, <5>1, SliceType
      <4> HIDE DEF b
      <4>2. Uint(b) \in Nat /\ Uint(b) < Capacity(w)
        BY <4>1, UintType
      <4> QED
        BY <4>2 DEF b
    <3> HIDE DEF idLen
    <3>3. /\ valAt \in Nat /\ idAt <= valAt /\ valAt - idAt = idLen /\ valAt <= Len(d)
          /\ valAt + ValueWidth \in Nat /\ valAt <= valAt + ValueWidth
          /\ (valAt + ValueWidth) - valAt = ValueWidth /\ valAt + ValueWidth <= Len(d)
      BY <2>5, <3>1, <3>2
    <3> HIDE DEF idAt, valAt
    <3>4. id \in Seq(Byte) /\ Len(id) = idLen
      BY <3>1, <3>3, SliceType
    <3>5. v \in Nat /\ v < Capacity(ValueWidth)
      <4> DEFINE b == Slice(d, valAt, valAt + ValueWidth)
                 to == valAt + ValueWidth
      <4>1. b \in Seq(Byte) /\ Len(b) = ValueWidth
        <5>1. b = Slice(d, valAt, to) /\ to \in Nat /\ valAt <= to /\ to - valAt = ValueWidth /\ to <= Len(d)
          BY <3>3
        <5> HIDE DEF to, b
        <5> QED
          BY <3>3, <5>1, SliceType
      <4> HIDE DEF b
      <4>2. Uint(b) \in Nat /\ Uint(b) < Capacity(ValueWidth)
        BY <4>1, UintType
      <4> QED
        BY <4>2 DEF b
    <3> HIDE DEF id, v
    <3>6. IsFiniteSet(DOMAIN f) /\ Cardinality(DOMAIN f) \in Nat /\ DOMAIN f \subseteq Seq(Byte)
      BY <2>1, FS_CardinalityType DEF Fits, WireMap
    <3>7. /\ IsFiniteSet(DOMAIN f \cup {id})
          /\ Cardinality(DOMAIN f \cup {id}) <= Cardinality(DOMAIN f) + 1
      <4> DEFINE S == DOMAIN f
      <4>1. IsFiniteSet(S) /\ Cardinality(S) \in Nat
        BY <3>6
      <4> HIDE DEF S
      <4>2. /\ IsFiniteSet(S \cup {id})
            /\ Cardinality(S \cup {id}) = Cardinality(S) \/ Cardinality(S \cup {id}) = Cardinality(S) + 1
        BY <4>1, FS_AddElement
      <4>3. Cardinality(S \cup {id}) <= Cardinality(S) + 1
        BY <4>1, <4>2
      <4> QED
        BY <4>2, <4>3 DEF S
    <3>8. DOMAIN g = DOMAIN f \cup {id} /\ g[id] = v /\ \A x \in DOMAIN f : x # id => g[x] = f[x]
      OBVIOUS
    <3>9. g = [x \in DOMAIN g |-> g[x]]
      OBVIOUS
    <3> HIDE DEF g
    <3>10. WireMap(g)
      <4>1. \A x \in DOMAIN f : f[x] \in Nat /\ f[x] < Capacity(ValueWidth)
        BY <2>1 DEF Fits, WireMap
      <4>2. \A x \in DOMAIN g : g[x] \in Nat /\ g[x] < Capacity(ValueWidth)
        BY <3>5, <3>8, <4>1
      <4> QED
        BY <3>4, <3>6, <3>7, <3>8, <3>9, <4>2 DEF WireMap
    <3>11. Cardinality(DOMAIN g) <= k + 1
      <4>1. Cardinality(DOMAIN f) <= k
        BY <2>1 DEF Fits
      <4>2. Cardinality(DOMAIN g) \in Nat
        BY <3>10, FS_CardinalityType DEF WireMap
      <4> QED
        BY <3>6, <3>7, <3>8, <4>1, <4>2
    <3>12. \A x \in DOMAIN g : Len(x) < Capacity(w)
      BY <2>1, <3>2, <3>4, <3>8 DEF Fits
    <3>13. Fits(g, k + 1, w)
      BY <3>10, <3>11, <3>12 DEF Fits
    <3>14. ReadEntry(d, w, s) = [off |-> valAt + ValueWidth, vec |-> g]
      BY <2>3, <2>5
    <3> QED
      BY <3>3, <3>13, <3>14 DEF LoopState
  <2> QED
    BY <2>4, <2>5
<1> QED
  BY <1>1, <1>2

(* Whatever bytes UnmarshalBinary is given, it refuses them or returns a   *)
(* map that MarshalBinary takes.                                           *)
LEMMA AnyBytes ==
  ASSUME NEW w \in Nat, NEW d \in Seq(Byte), UnmarshalBinary(d, w) # ErrCorruptEncoding
  PROVE  \E f : /\ UnmarshalBinary(d, w) = [vec |-> f]
                /\ WireMap(f) /\ ~TooLarge(f, w)
<1> DEFINE n == Uint(Slice(d, 0, w))
           loop == CHOOSE h : VecLoop(h, d, n, w)
<1>1. UnmarshalBinary(d, w) =
        IF Len(d) < w \/ loop[n] = ErrCorruptEncoding \/ loop[n].off # Len(d)
        THEN ErrCorruptEncoding ELSE [vec |-> loop[n].vec]
  BY DEF UnmarshalBinary, VecLoop
<1>2. ~(Len(d) < w) /\ loop[n] # ErrCorruptEncoding /\ UnmarshalBinary(d, w) = [vec |-> loop[n].vec]
  BY <1>1
<1>3. n \in Nat /\ n < Capacity(w)
  <2> DEFINE b == Slice(d, 0, w)
  <2>1. 0 \in Nat /\ 0 <= w /\ w <= Len(d) /\ w - 0 = w
    BY <1>2
  <2>2. b \in Seq(Byte) /\ Len(b) = w
    BY <2>1, SliceType
  <2> HIDE DEF b
  <2>3. Uint(b) \in Nat /\ Uint(b) < Capacity(w)
    BY <2>2, UintType
  <2> QED
    BY <2>3 DEF b
<1> HIDE DEF n
<1>4. LoopState(Start(w), 0, w)
  <2>1. DOMAIN EmptyVector = {} /\ EmptyVector = [id \in {} |-> EmptyVector[id]]
    BY DEF EmptyVector
  <2>2. IsFiniteSet({}) /\ Cardinality({}) = 0
    BY FS_EmptySet
  <2>3. Fits(EmptyVector, 0, w)
    BY <2>1, <2>2 DEF Fits, WireMap
  <2> QED
    BY <2>3 DEF LoopState, Start
<1> DEFINE Maps == UNION {[ids -> Nat] : ids \in SUBSET Seq(Byte)}
           D == {s \in {ErrCorruptEncoding} \cup {[off |-> o, vec |-> f] : o \in Nat, f \in Maps} :
                   \E k \in Nat : LoopState(s, k, w)}
           step == [i \in 1..n |-> [s \in D |-> ReadEntry(d, w, s)]]
<1>5. ASSUME NEW s, NEW k \in Nat, LoopState(s, k, w) PROVE s \in D
  <2>1. ASSUME NEW f, Fits(f, k, w) PROVE f \in Maps
    <3>1. /\ DOMAIN f \in SUBSET Seq(Byte) /\ f = [id \in DOMAIN f |-> f[id]]
          /\ \A id \in DOMAIN f : f[id] \in Nat
      BY <2>1 DEF Fits, WireMap
    <3>2. f \in [DOMAIN f -> Nat]
      BY <3>1
    <3> QED
      BY <3>1, <3>2
  <2> HIDE DEF Maps
  <2> QED
    BY <1>5, <2>1 DEF LoopState
<1>6. \A s \in D : \E k \in Nat : LoopState(s, k, w)
  OBVIOUS
<1> HIDE DEF D
<1>7. \A s \in D : ReadEntry(d, w, s) \in D
  <2> SUFFICES ASSUME NEW s \in D PROVE ReadEntry(d, w, s) \in D
    OBVIOUS
  <2>1. PICK k \in Nat : LoopState(s, k, w)
    BY <1>6
  <2>2. LoopState(ReadEntry(d, w, s), k + 1, w) /\ k + 1 \in Nat
    BY <2>1, AnyRound
  <2> QED
    BY <1>5, <2>2
<1>8. step \in [1..n -> [D -> D]]
  BY <1>7
<1>9. \A i \in 1..n, s \in D : step[i][s] = ReadEntry(d, w, s)
  OBVIOUS
<1>10. Start(w) \in D
  BY <1>4, <1>5
<1> HIDE DEF step
<1>11. PICK h : Rounds(h, n, Start(w), D, step)
  BY <1>3, <1>8, <1>10, RoundsExist
<1>12. VecLoop(h, d, n, w)
  <2>1. h = [i \in 0..n |-> h[i]] /\ h[0] = Start(w)
    BY <1>11 DEF Rounds
  <2>2. ASSUME NEW i \in 1..n PROVE h[i] = ReadEntry(d, w, h[i - 1])
    <3>1. h[i - 1] \in D
      BY <1>3, <1>11 DEF Rounds
    <3> QED
      BY <1>9, <1>11, <3>1 DEF Rounds
  <2>3. \A i \in 0..n : i # 0 => i \in 1..n
    BY <1>3
  <2>4. \A i \in 0..n : h[i] = IF i = 0 THEN Start(w) ELSE ReadEntry(d, w, h[i - 1])
    BY <2>1, <2>2, <2>3, Zenon
  <2> QED
    BY <2>1, <2>4 DEF VecLoop
<1>13. VecLoop(loop, d, n, w)
  BY <1>12
<1> HIDE DEF loop
<1>14. loop[0] = Start(w) /\ \A i \in 1..n : loop[i] = ReadEntry(d, w, loop[i - 1])
  BY <1>3, <1>13 DEF VecLoop
<1> DEFINE P == {i \in Nat : i <= n => LoopState(loop[i], i, w)}
<1>15. 0 \in P
  BY <1>4, <1>14
<1>16. ASSUME NEW i \in Nat, i \in P PROVE i + 1 \in P
  <2> SUFFICES ASSUME i + 1 <= n PROVE LoopState(loop[i + 1], i + 1, w)
    OBVIOUS
  <2>1. i + 1 \in 1..n /\ (i + 1) - 1 = i /\ LoopState(loop[i], i, w)
    BY <1>3, <1>16
  <2>2. loop[i + 1] = ReadEntry(d, w, loop[i])
    BY <1>14, <2>1
  <2> QED
    BY <2>1, <2>2, AnyRound
<1>17. Nat \subseteq P
  <2> HIDE DEF P
  <2> QED
    BY <1>15, <1>16, NatSetInduction
<1>18. LoopState(loop[n], n, w)
  BY <1>3, <1>17
<1>19. PICK o, f : o \in Nat /\ loop[n] = [off |-> o, vec |-> f] /\ Fits(f, n, w)
  BY <1>2, <1>18 DEF LoopState
<1>20. UnmarshalBinary(d, w) = [vec |-> f]
  BY <1>2, <1>19
<1>21. ~TooLarge(f, w)
  <2>1. PICK c \in [0..w -> Nat] : c[w] = Capacity(w)
    BY CapacityRounds
  <2>2. Capacity(w) \in Nat
    BY <2>1
  <2>3. Cardinality(DOMAIN f) \in Nat /\ Cardinality(DOMAIN f) <= n
    BY <1>19, FS_CardinalityType DEF Fits, WireMap
  <2>4. \A id \in DOMAIN f : Len(id) \in Nat /\ Len(id) < Capacity(w)
    BY <1>19 DEF Fits, WireMap
  <2> QED
    BY <1>3, <2>2, <2>3, <2>4 DEF TooLarge, MaxUint16
<1> QED
  BY <1>19, <1>20, <1>21 DEF Fits

(* A map that fits is encoded and read back. *)
LEMMA MapSurvives ==
  ASSUME NEW w \in Nat, NEW m, WireMap(m), ~TooLarge(m, w)
  PROVE  \E data \in Seq(Byte) :
           MarshalBinary(m, w) = [data |-> data] /\ UnmarshalBinary(data, w) = [vec |-> m]
<1> DEFINE n == Cardinality(DOMAIN m)
<1>1. PICK buff, keys : Layout(buff, m, keys, n, w) /\ MarshalBinary(m, w) = [data |-> buff[n]]
  BY MarshalRounds
<1> HIDE DEF n
<1>2. n \in Nat /\ buff \in [0..n -> Seq(Byte)]
  BY <1>1 DEF Layout
<1>3. buff[n] \in Seq(Byte)
  BY <1>2
<1>4. Agrees(buff[n], buff[n])
  BY <1>3 DEF Agrees
<1>5. UnmarshalBinary(buff[n], w) = [vec |-> m]
  BY <1>1, <1>4, ReadsWhatAgrees
<1> QED
  BY <1>1, <1>3, <1>5

(* vector/encode.go:96, UnmarshalBinary on bytes of any origin, with IDs   *)
(* that repeat or are out of order: what it accepts is a map that          *)
(* MarshalBinary does not refuse and that survives the way back, so that   *)
(* a relay can pass on whatever it could read.                             *)
THEOREM DecodedIsEncodable ==
  ASSUME NEW w \in Nat, NEW d \in Seq(Byte), NEW f, UnmarshalBinary(d, w) = [vec |-> f]
  PROVE  /\ MarshalBinary(f, w) # ErrTooLarge
         /\ UnmarshalBinary(MarshalBinary(f, w).data, w) = [vec |-> f]
<1>1. [vec |-> f] # ErrCorruptEncoding
  <2>1. DOMAIN [vec |-> f] # DOMAIN [error |-> "corrupt"]
    OBVIOUS
  <2> QED
    BY <2>1 DEF ErrCorruptEncoding
<1>2. PICK g : UnmarshalBinary(d, w) = [vec |-> g] /\ WireMap(g) /\ ~TooLarge(g, w)
  BY <1>1, AnyBytes
<1>3. [vec |-> f].vec = [vec |-> g].vec
  BY <1>2
<1>4. f = g
  BY <1>3
<1>5. PICK data \in Seq(Byte) :
        MarshalBinary(f, w) = [data |-> data] /\ UnmarshalBinary(data, w) = [vec |-> f]
  BY <1>2, <1>4, MapSurvives
<1>6. [data |-> data] # ErrTooLarge
  <2>1. DOMAIN [data |-> data] # DOMAIN [error |-> "too large"]
    OBVIOUS
  <2> QED
    BY <2>1 DEF ErrTooLarge
<1>7. MarshalBinary(f, w).data = data
  BY <1>5
<1> QED
  BY <1>5, <1>6, <1>7

(* vector/encode.go:50, "useful for hashing and equality checks against the *)
(* wire bytes": two maps have the same bytes exactly when they are equal.  *)
THEOREM BytesIdentifyMaps ==
  ASSUME NEW w \in Nat, NEW m1, NEW m2, WireMap(m1), WireMap(m2),
         ~TooLarge(m1, w), ~TooLarge(m2, w)
  PROVE  MarshalBinary(m1, w) = MarshalBinary(m2, w) <=> m1 = m2
<1> SUFFICES ASSUME MarshalBinary(m1, w) = MarshalBinary(m2, w) PROVE m1 = m2
  OBVIOUS
<1>1. PICK a \in Seq(Byte) :
        MarshalBinary(m1, w) = [data |-> a] /\ UnmarshalBinary(a, w) = [vec |-> m1]
  BY MapSurvives
<1>2. PICK b \in Seq(Byte) :
        MarshalBinary(m2, w) = [data |-> b] /\ UnmarshalBinary(b, w) = [vec |-> m2]
  BY MapSurvives
<1>3. [data |-> a].data = [data |-> b].data
  BY <1>1, <1>2
<1>4. [vec |-> m1].vec = [vec |-> m2].vec
  BY <1>1, <1>2, <1>3
<1> QED
  BY <1>4
=============================================================================
