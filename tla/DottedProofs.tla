---------------------------- MODULE DottedProofs ----------------------------
(***************************************************************************)
(* Versions are the causal histories of the writes they belong to, for any *)
(* number of sessions and actors and any width of the counters, as long as *)
(* each session has seen the earlier writes of the actor it writes for.    *)
(*                                                                         *)
(* A write's rank is the counter of its own actor in its version.  While   *)
(* the histories are clean no two writes of an actor have the same rank,   *)
(* so that a version covers a write exactly if it has reached its rank.    *)
(***************************************************************************)
EXTENDS Dotted, CommonProofs

-----------------------------------------------------------------------------
(* Facts about versions.                                                   *)

\* what the maps of the code are: finite, and without zero counters
Proper(v) ==
  /\ v \in Version
  /\ IsFiniteSet(DOMAIN v)
  /\ \A k \in DOMAIN v : v[k] > 0

(* A version and its counters. *)
LEMMA VersionProperties ==
  ASSUME NEW v \in Version
  PROVE  /\ DOMAIN v \subseteq Actor
         /\ v \in [DOMAIN v -> Counter]
         /\ \A k : Dot(v, k) \in Counter /\ Dot(v, k) \in Nat
<1>1. PICK D \in SUBSET Actor : v \in [D -> Counter]
  BY DEF Version
<1> QED
  BY <1>1, MaxUint64Assumption DEF Dot, Counter

(* A map with a domain of actors and values of counters is a version. *)
LEMMA VersionIntro ==
  ASSUME NEW D \in SUBSET Actor, NEW v \in [D -> Counter]
  PROVE  v \in Version
BY DEF Version

(* An addition that does not reach the limit does not wrap. *)
LEMMA PlusOne ==
  ASSUME NEW c \in Counter
  PROVE  /\ Plus(c, 1) \in Counter
         /\ c # MaxUint64 => Plus(c, 1) = c + 1
BY MaxUint64Assumption DEF Counter, Plus

(* Increment changes the counter of its actor only. *)
LEMMA IncrementProperties ==
  ASSUME NEW v \in Version, NEW a \in Actor
  PROVE  /\ Increment(v, a) \in Version
         /\ DOMAIN Increment(v, a) = DOMAIN v \cup {a}
         /\ Dot(v, a) # MaxUint64 => Dot(Increment(v, a), a) = Dot(v, a) + 1
         /\ \A k : k # a => Dot(Increment(v, a), k) = Dot(v, k)
<1>1. /\ DOMAIN v \subseteq Actor
      /\ v \in [DOMAIN v -> Counter]
      /\ Dot(v, a) \in Counter
  BY VersionProperties
<1>2. Increment(v, a) \in [DOMAIN v \cup {a} -> Counter]
  BY <1>1, PlusOne DEF Increment
<1>3. Increment(v, a) \in Version
  BY <1>1, <1>2, VersionIntro
<1>4. Dot(Increment(v, a), a) = Plus(Dot(v, a), 1)
  BY DEF Increment, Dot
<1>5. \A k : k # a => Dot(Increment(v, a), k) = Dot(v, k)
  BY DEF Increment, Dot
<1> QED
  BY <1>1, <1>2, <1>3, <1>4, <1>5, PlusOne

(* Incrementing below the limit keeps a version proper. *)
LEMMA IncrementProper ==
  ASSUME NEW v, Proper(v), NEW a \in Actor, Dot(v, a) # MaxUint64
  PROVE  Proper(Increment(v, a))
<1>1. /\ Increment(v, a) \in Version
      /\ DOMAIN Increment(v, a) = DOMAIN v \cup {a}
      /\ Dot(Increment(v, a), a) = Dot(v, a) + 1
      /\ \A k : k # a => Dot(Increment(v, a), k) = Dot(v, k)
  BY IncrementProperties DEF Proper
<1>2. IsFiniteSet(DOMAIN v \cup {a})
  BY FS_AddElement DEF Proper
<1>3. Dot(v, a) \in Nat
  BY VersionProperties DEF Proper
<1>4. \A k \in DOMAIN v \cup {a} : Increment(v, a)[k] > 0
  BY <1>1, <1>3 DEF Proper, Dot
<1> QED
  BY <1>1, <1>2, <1>4 DEF Proper

(* Merge takes the larger counter of each actor. *)
LEMMA MergeProperties ==
  ASSUME NEW v \in Version, NEW w \in Version
  PROVE  /\ Merge(v, w) \in Version
         /\ DOMAIN v \subseteq DOMAIN Merge(v, w)
         /\ DOMAIN Merge(v, w) \subseteq DOMAIN v \cup DOMAIN w
         /\ \A k : Dot(Merge(v, w), k) = IF Dot(w, k) > Dot(v, k) THEN Dot(w, k) ELSE Dot(v, k)
<1> DEFINE D == DOMAIN v \cup {j \in DOMAIN w : w[j] > Dot(v, j)}
<1>1. /\ DOMAIN v \subseteq Actor /\ DOMAIN w \subseteq Actor
      /\ v \in [DOMAIN v -> Counter] /\ w \in [DOMAIN w -> Counter]
      /\ \A k : Dot(v, k) \in Nat /\ Dot(w, k) \in Nat
  BY VersionProperties
<1>2. ASSUME NEW k \in D
      PROVE  /\ Merge(v, w)[k] = IF Dot(w, k) > Dot(v, k) THEN Dot(w, k) ELSE Dot(v, k)
             /\ Merge(v, w)[k] \in Counter
  <2>1. CASE Dot(w, k) > Dot(v, k)
    <3>1. k \in DOMAIN w
      BY <1>1, <2>1 DEF Dot
    <3> QED
      BY <1>1, <2>1, <3>1 DEF Merge, Dot
  <2>2. CASE ~(Dot(w, k) > Dot(v, k))
    <3>1. k \in DOMAIN v
      BY <1>2, <2>2 DEF Dot
    <3> QED
      BY <1>1, <2>2, <3>1 DEF Merge, Dot
  <2> QED
    BY <2>1, <2>2
<1>3. Merge(v, w) \in [D -> Counter]
  BY <1>2 DEF Merge
<1>4. Merge(v, w) \in Version
  BY <1>1, <1>3, VersionIntro
<1>5. ASSUME NEW k
      PROVE  Dot(Merge(v, w), k) = IF Dot(w, k) > Dot(v, k) THEN Dot(w, k) ELSE Dot(v, k)
  <2>1. CASE k \in D
    BY <1>2, <1>3, <2>1 DEF Dot
  <2>2. CASE k \notin D
    <3>1. Dot(Merge(v, w), k) = 0 /\ Dot(v, k) = 0
      BY <1>3, <2>2 DEF Dot
    <3>2. ~(Dot(w, k) > 0)
      BY <2>2, <3>1 DEF Dot
    <3> QED
      BY <3>1, <3>2
  <2> QED
    BY <2>1, <2>2
<1> QED
  BY <1>3, <1>4, <1>5

(* The merge of proper versions is proper. *)
LEMMA MergeProper ==
  ASSUME NEW v, Proper(v), NEW w, Proper(w)
  PROVE  Proper(Merge(v, w))
<1>1. v \in Version /\ w \in Version
  BY DEF Proper
<1>2. /\ Merge(v, w) \in Version
      /\ DOMAIN Merge(v, w) \subseteq DOMAIN v \cup DOMAIN w
      /\ \A k : Dot(Merge(v, w), k) = IF Dot(w, k) > Dot(v, k) THEN Dot(w, k) ELSE Dot(v, k)
  BY <1>1, MergeProperties
<1>3. IsFiniteSet(DOMAIN Merge(v, w))
  BY <1>2, FS_Union, FS_Subset DEF Proper
<1>4. \A k : Dot(v, k) \in Nat /\ Dot(w, k) \in Nat
  BY <1>1, VersionProperties
<1>5. ASSUME NEW k \in DOMAIN Merge(v, w) PROVE Merge(v, w)[k] > 0
  <2>1. Dot(v, k) > 0 \/ Dot(w, k) > 0
    BY <1>2, <1>5 DEF Proper, Dot
  <2>2. Merge(v, w)[k] = Dot(Merge(v, w), k)
    BY <1>5 DEF Dot
  <2> QED
    BY <1>2, <1>4, <2>1, <2>2
<1> QED
  BY <1>2, <1>3, <1>5 DEF Proper

(* Descends is the element-wise order. *)
LEMMA DescendsIsOrder ==
  ASSUME NEW v \in Version, NEW w \in Version
  PROVE  Descends(v, w) <=> \A k \in Actor : Dot(w, k) <= Dot(v, k)
<1>1. /\ DOMAIN w \subseteq Actor
      /\ \A k : Dot(v, k) \in Nat /\ Dot(w, k) \in Nat
  BY VersionProperties
<1> QED
  BY <1>1 DEF Descends, Dot

(* On proper versions the other tests follow from Descends: the two loops  *)
(* of Dominates find that the converse fails, and the lengths that Equals  *)
(* compares stand for the sets of actors.                                  *)
LEMMA TestsByDescends ==
  ASSUME NEW v, Proper(v), NEW w, Proper(w)
  PROVE  /\ Dominates(v, w) <=> Descends(v, w) /\ ~Descends(w, v)
         /\ Equals(v, w) <=> Descends(v, w) /\ Descends(w, v)
<1>1. /\ v \in [DOMAIN v -> Counter] /\ w \in [DOMAIN w -> Counter]
      /\ \A k : Dot(v, k) \in Nat /\ Dot(w, k) \in Nat
  BY VersionProperties DEF Proper
<1>2. \A k : (k \in DOMAIN v <=> Dot(v, k) > 0) /\ (k \in DOMAIN w <=> Dot(w, k) > 0)
  BY DEF Proper, Dot
<1>3. Descends(w, v) <=> \A k \in DOMAIN v : ~(Dot(w, k) < Dot(v, k))
  BY DEF Descends, Dot
<1>4. Descends(v, w) <=> \A k \in DOMAIN w : ~(Dot(v, k) < Dot(w, k))
  BY DEF Descends, Dot
<1>5. Dominates(v, w) <=> Descends(v, w) /\ ~Descends(w, v)
  <2>1. Dominates(v, w) <=>
          /\ Descends(v, w)
          /\ \/ \E k \in DOMAIN w : Dot(v, k) > Dot(w, k)
             \/ \E k \in DOMAIN v : k \notin DOMAIN w
    BY DEF Dominates, Dot
  <2>2. (\E k \in DOMAIN v : Dot(w, k) < Dot(v, k)) <=>
          \/ \E k \in DOMAIN w : Dot(v, k) > Dot(w, k)
          \/ \E k \in DOMAIN v : k \notin DOMAIN w
    BY <1>1, <1>2
  <2> QED
    BY <1>3, <2>1, <2>2
<1>6. ASSUME Descends(v, w), Descends(w, v) PROVE Equals(v, w)
  <2>1. \A k : Dot(v, k) = Dot(w, k)
    BY <1>1, <1>2, <1>3, <1>4, <1>6
  <2>2. DOMAIN v = DOMAIN w
    BY <1>2, <2>1
  <2> QED
    BY <2>1, <2>2 DEF Equals, Dot
<1>7. ASSUME Equals(v, w) PROVE Descends(v, w) /\ Descends(w, v)
  <2>1. \A k \in DOMAIN v : Dot(w, k) = Dot(v, k)
    BY <1>7 DEF Equals, Dot
  <2>2. DOMAIN v \subseteq DOMAIN w
    BY <1>2, <2>1
  <2>3. DOMAIN v = DOMAIN w
    BY <1>7, <2>2, FS_Subset DEF Equals, Proper
  <2> QED
    BY <1>1, <1>3, <1>4, <2>1, <2>3
<1> QED
  BY <1>5, <1>6, <1>7

-----------------------------------------------------------------------------
(* The inductive invariant.                                                *)

\* the counter of the writer's own actor
Rank(e) == Dot(e.stamp, actor[e.node])

\* no event is a cause of one of its causes
Asymmetric == \A e, f \in log : HappensBefore(e, f) => ~HappensBefore(f, e)

ProperVersions ==
  /\ \A s \in Node : Proper(version[s])
  /\ \A e \in log : Proper(e.stamp)

\* no counter is ahead of the writes of its actor
Counted ==
  /\ \A s \in Node, a \in Actor : Dot(version[s], a) <= count[a]
  /\ \A e \in log, a \in Actor : Dot(e.stamp, a) <= count[a]

\* whoever knows a write has a version that descends from its version, and
\* whoever has reached its rank knows it
Covering ==
  /\ \A s \in Node, f \in log :
       /\ EventId(f) \in known[s] => Descends(version[s], f.stamp)
       /\ Rank(f) <= Dot(version[s], actor[f.node]) => EventId(f) \in known[s]
  /\ \A e, f \in log :
       /\ HappensBefore(f, e) => Descends(e.stamp, f.stamp)
       /\ Rank(f) <= Dot(e.stamp, actor[f.node]) => HappensBefore(f, e) \/ e = f

IInv ==
  /\ TypeOK
  /\ HistoryOK
  /\ Asymmetric
  /\ integrity # "wrapped" => ProperVersions
  /\ integrity = "clean" => Counted /\ Covering

(* An empty history satisfies the invariant. *)
LEMMA InitIInv == Init => IInv
<1> SUFFICES ASSUME Init PROVE IInv
  OBVIOUS
<1>1. HistoryTypeOK(Version) /\ HistoryOK
  BY HistoryInitOK DEF Init
<1>2. /\ NewVersion \in Version /\ DOMAIN NewVersion = {}
      /\ \A k : Dot(NewVersion, k) = 0
  <2>1. NewVersion \in [{} -> Counter] /\ DOMAIN NewVersion = {}
    BY DEF NewVersion
  <2> QED
    BY <2>1, VersionIntro DEF Dot
<1>3. Proper(NewVersion)
  BY <1>2, FS_EmptySet DEF Proper
<1>4. log = {} /\ version = [s \in Node |-> NewVersion]
  BY DEF Init, HistoryInit
<1>5. TypeOK
  BY <1>1, <1>2, <1>4 DEF TypeOK, Init
<1>6. Asymmetric /\ ProperVersions /\ Counted /\ Covering
  BY <1>2, <1>3, <1>4 DEF Asymmetric, ProperVersions, Counted, Covering, Init
<1> QED
  BY <1>1, <1>5, <1>6 DEF IInv

(* Reading adds nothing to the log, and only causes that are recorded. *)
LEMMA ReadIInv ==
  ASSUME IInv, NEW s \in Node, NEW w \in net, Read(s, w)
  PROVE  IInv'
<1> DEFINE m == Merge(version[s], w.stamp)
           past == known[s] \cup w.past \cup {EventId(w)}
<1>1. /\ w \in log /\ w.stamp \in Version /\ version[s] \in Version
      /\ \A e \in log : e.stamp \in Version /\ e.node \in Node
      /\ actor \in [Node -> Actor] /\ version \in [Node -> Version]
      /\ known \in [Node -> SUBSET Ids]
  BY DEF IInv, TypeOK, HistoryTypeOK
<1>2. /\ version' = [version EXCEPT ![s] = m]
      /\ known' = [known EXCEPT ![s] = past]
      /\ UNCHANGED <<actor, count, integrity, executed, log, net>>
  BY DEF Read
<1>3. Causes(s, past)
  BY ReceiveCauses DEF IInv, TypeOK
<1>4. /\ m \in Version
      /\ \A k : Dot(m, k) = IF Dot(w.stamp, k) > Dot(version[s], k)
                            THEN Dot(w.stamp, k) ELSE Dot(version[s], k)
  BY <1>1, MergeProperties
<1> HIDE DEF m, past
<1>5. TypeOK'
  BY <1>1, <1>2, <1>3, <1>4 DEF IInv, TypeOK, HistoryTypeOK, Causes
<1>6. HistoryOK'
  <2>1. KnownAreRecorded'
    BY <1>1, <1>2, <1>3 DEF IInv, HistoryOK, KnownAreRecorded, Causes, EventId
  <2>2. ProcessOrder'
    BY <1>1, <1>2, <1>3 DEF IInv, HistoryOK, ProcessOrder, Causes, EventId, HappensBefore
  <2> QED
    BY <1>2, <2>1, <2>2 DEF IInv, HistoryOK, RecordedOnce, Irreflexive, EventId, HappensBefore
<1>7. Asymmetric'
  BY <1>2 DEF IInv, Asymmetric, HappensBefore, EventId
<1>8. ASSUME integrity' # "wrapped" PROVE ProperVersions'
  <2>1. ProperVersions
    BY <1>2, <1>8 DEF IInv
  <2>2. Proper(m)
    BY <1>1, <2>1, MergeProper DEF ProperVersions, m
  <2> QED
    BY <1>1, <1>2, <2>1, <2>2 DEF ProperVersions
<1>9. ASSUME integrity' = "clean" PROVE Counted' /\ Covering'
  <2>1. Counted /\ Covering
    BY <1>2, <1>9 DEF IInv
  <2>2. \A k : Dot(version[s], k) \in Nat /\ Dot(w.stamp, k) \in Nat
    BY <1>1, VersionProperties
  <2>3. Counted'
    BY <1>1, <1>2, <1>4, <2>1 DEF Counted
  <2>4. ASSUME NEW f \in log, EventId(f) \in past PROVE Descends(m, f.stamp)
    <3>1. \A k : Dot(f.stamp, k) \in Nat
      BY <1>1, VersionProperties
    <3>2. \/ \A k \in Actor : Dot(f.stamp, k) <= Dot(version[s], k)
          \/ \A k \in Actor : Dot(f.stamp, k) <= Dot(w.stamp, k)
      <4>1. CASE EventId(f) \in known[s]
        BY <1>1, <2>1, <4>1, DescendsIsOrder DEF Covering
      <4>2. CASE EventId(f) \in w.past
        BY <1>1, <2>1, <4>2, DescendsIsOrder DEF Covering, HappensBefore
      <4>3. CASE EventId(f) = EventId(w)
        <5>1. f = w
          BY <1>1, <4>3 DEF IInv, HistoryOK, RecordedOnce
        <5> QED
          BY <2>2, <5>1
      <4> QED
        BY <2>4, <4>1, <4>2, <4>3 DEF past
    <3>3. \A k \in Actor : Dot(f.stamp, k) <= Dot(m, k)
      BY <1>4, <2>2, <3>1, <3>2
    <3> QED
      BY <1>1, <1>4, <3>3, DescendsIsOrder
  <2>5. ASSUME NEW f \in log, Rank(f) <= Dot(m, actor[f.node])
        PROVE  EventId(f) \in past
    <3>1. \/ Rank(f) <= Dot(version[s], actor[f.node])
          \/ Rank(f) <= Dot(w.stamp, actor[f.node])
      BY <1>4, <2>5
    <3>2. EventId(f) \in known[s] \/ HappensBefore(f, w) \/ f = w
      BY <1>1, <2>1, <3>1 DEF Covering
    <3> QED
      BY <3>2 DEF past, HappensBefore
  <2>6. \A f \in log : Rank(f)' = Rank(f) /\ EventId(f)' = EventId(f)
    BY <1>2 DEF Rank, EventId
  <2>7. \A t \in Node, f \in log :
          /\ EventId(f) \in known'[t] => Descends(version'[t], f.stamp)
          /\ Rank(f) <= Dot(version'[t], actor[f.node]) => EventId(f) \in known'[t]
    BY <1>1, <1>2, <2>1, <2>4, <2>5 DEF Covering
  <2>8. Covering'
    BY <1>2, <2>1, <2>6, <2>7 DEF Covering, HappensBefore, EventId, Rank
  <2> QED
    BY <2>3, <2>8
<1> QED
  BY <1>5, <1>6, <1>7, <1>8, <1>9 DEF IInv

(* A write's version covers what its session knows, and nothing else has   *)
(* reached its rank.                                                       *)
LEMMA WriteIInv ==
  ASSUME IInv, NEW s \in Node, Write(s)
  PROVE  IInv'
<1> DEFINE a == actor[s]
           v == Increment(version[s], a)
           g == NewEvent(s, known[s], v)
<1>1. /\ version[s] \in Version /\ a \in Actor
      /\ \A e \in log : e.stamp \in Version /\ e.node \in Node
      /\ actor \in [Node -> Actor] /\ version \in [Node -> Version]
      /\ known \in [Node -> SUBSET Ids] /\ count \in [Actor -> Nat]
  BY DEF IInv, TypeOK, HistoryTypeOK
<1>2. /\ Record(s, known[s], v) /\ net' = net \cup {g}
      /\ version' = [version EXCEPT ![s] = v]
      /\ count' = [count EXCEPT ![a] = count[a] + 1]
      /\ integrity' = IF integrity = "wrapped" \/ Dot(version[s], a) = MaxUint64
                      THEN "wrapped"
                      ELSE IF Dot(version[s], a) # count[a] THEN "shared" ELSE integrity
      /\ actor' = actor
  BY DEF Write, SendEvent
<1>3. /\ v \in Version
      /\ Dot(version[s], a) # MaxUint64 => Dot(v, a) = Dot(version[s], a) + 1
      /\ \A k : k # a => Dot(v, k) = Dot(version[s], k)
  BY <1>1, IncrementProperties
<1>4. Causes(s, known[s])
  BY LocalCauses DEF IInv, TypeOK
<1>5. /\ EventId(g) = <<s, executed[s] + 1>>
      /\ g.past = known[s] /\ g.stamp = v /\ g.node = s
      /\ ~HappensBefore(g, g)
      /\ \A e \in log : EventId(e) # EventId(g) /\ ~HappensBefore(g, e)
      /\ \A e \in log : HappensBefore(e, g) <=> EventId(e) \in known[s]
  BY <1>1, <1>4, NewEventIsNew DEF IInv, TypeOK
<1>6. HistoryTypeOK(Version)' /\ HistoryOK'
  BY <1>2, <1>3, <1>4, RecordOK DEF IInv, TypeOK
<1>7. /\ log' = log \cup {g}
      /\ known' = [known EXCEPT ![s] = known[s] \cup {EventId(g)}]
  BY <1>2, <1>5 DEF Record
<1> HIDE DEF a, v, g
<1>8. TypeOK'
  <2>1. version' \in [Node -> Version] /\ count' \in [Actor -> Nat] /\ actor' \in [Node -> Actor]
    BY <1>1, <1>2, <1>3
  <2>2. integrity' \in {"clean", "shared", "wrapped"}
    BY <1>2 DEF IInv, TypeOK
  <2> QED
    BY <1>6, <2>1, <2>2 DEF TypeOK
<1>9. Asymmetric'
  BY <1>5, <1>7 DEF IInv, Asymmetric, HappensBefore, EventId
<1>10. ASSUME integrity' # "wrapped" PROVE ProperVersions'
  <2>1. ProperVersions /\ Dot(version[s], a) # MaxUint64
    BY <1>2, <1>10 DEF IInv
  <2>2. Proper(v)
    BY <1>1, <2>1, IncrementProper DEF ProperVersions, v
  <2> QED
    BY <1>1, <1>2, <1>5, <1>7, <2>1, <2>2 DEF ProperVersions
<1>11. ASSUME integrity' = "clean" PROVE Counted' /\ Covering'
  <2>1. /\ Counted /\ Covering
        /\ Dot(version[s], a) = count[a] /\ Dot(version[s], a) # MaxUint64
    BY <1>2, <1>11 DEF IInv
  <2>2. /\ Dot(v, a) = count[a] + 1 /\ count'[a] = count[a] + 1
        /\ \A k \in Actor : k # a => count'[k] = count[k]
        /\ \A k \in Actor : count[k] \in Nat
    BY <1>1, <1>2, <1>3, <2>1
  <2>3. \A k : /\ Dot(version[s], k) \in Nat
               /\ \A e \in log : Dot(e.stamp, k) \in Nat
               /\ \A t \in Node : Dot(version[t], k) \in Nat
    BY <1>1, VersionProperties
  <2>4. Counted'
    <3>1. \A k \in Actor : Dot(v, k) <= count'[k]
      BY <1>3, <2>1, <2>2 DEF Counted
    <3>2. \A e \in log, k \in Actor : Dot(e.stamp, k) <= count'[k]
      BY <2>1, <2>2, <2>3 DEF Counted
    <3>3. \A t \in Node, k \in Actor : Dot(version[t], k) <= count'[k]
      BY <2>1, <2>2, <2>3 DEF Counted
    <3> QED
      BY <1>1, <1>2, <1>5, <1>7, <3>1, <3>2, <3>3 DEF Counted
  <2>5. \A f \in log' : Rank(f)' = Dot(f.stamp, actor[f.node]) /\ EventId(f)' = EventId(f)
    BY <1>2 DEF Rank, EventId
  <2>6. Dot(g.stamp, actor[g.node]) = count[a] + 1 /\ actor[g.node] = a
    BY <1>5, <2>2 DEF a
  <2>7. \A k \in Actor : Dot(version[s], k) <= Dot(v, k)
    BY <1>3, <2>1, <2>2, <2>3
  <2>8. ASSUME NEW f \in log, EventId(f) \in known[s] PROVE Descends(v, f.stamp)
    <3>1. \A k \in Actor : Dot(f.stamp, k) <= Dot(version[s], k)
      BY <1>1, <2>1, <2>8, DescendsIsOrder DEF Covering
    <3>2. \A k : Dot(v, k) \in Nat
      BY <1>3, VersionProperties
    <3> QED
      BY <1>1, <1>3, <2>3, <2>7, <3>1, <3>2, DescendsIsOrder
  <2>9. Descends(v, v)
    <3>1. \A k : Dot(v, k) \in Nat
      BY <1>3, VersionProperties
    <3> QED
      BY <1>3, <3>1, DescendsIsOrder
  <2>10. ASSUME NEW f \in log, Dot(f.stamp, actor[f.node]) <= Dot(v, actor[f.node])
         PROVE  EventId(f) \in known[s]
    <3>1. Dot(f.stamp, actor[f.node]) <= Dot(version[s], actor[f.node])
      BY <1>1, <1>3, <2>1, <2>3, <2>10 DEF Counted
    <3> QED
      BY <2>1, <3>1 DEF Covering, Rank
  <2>11. /\ \A t \in Node : ~(count[a] + 1 <= Dot(version[t], a))
         /\ \A e \in log : ~(count[a] + 1 <= Dot(e.stamp, a))
    BY <1>1, <2>1, <2>2, <2>3 DEF Counted
  <2>12. ASSUME NEW t \in Node, NEW f \in log'
         PROVE  /\ EventId(f) \in known'[t] => Descends(version'[t], f.stamp)
                /\ Dot(f.stamp, actor[f.node]) <= Dot(version'[t], actor[f.node])
                     => EventId(f) \in known'[t]
    <3>1. CASE f \in log /\ t # s
      BY <1>1, <1>2, <1>7, <2>1, <3>1 DEF Covering, Rank
    <3>2. CASE f \in log /\ t = s
      BY <1>1, <1>2, <1>5, <1>7, <2>8, <2>10, <3>2
    <3>3. CASE f = g /\ t # s
      <4>1. EventId(g) \notin known[t]
        BY <1>5 DEF IInv, HistoryOK, KnownAreRecorded
      <4> QED
        BY <1>1, <1>2, <1>7, <2>6, <2>11, <3>3, <4>1
    <3>4. CASE f = g /\ t = s
      BY <1>1, <1>2, <1>5, <1>7, <2>9, <3>4
    <3> QED
      BY <1>7, <3>1, <3>2, <3>3, <3>4
  <2>13. ASSUME NEW e \in log', NEW f \in log'
         PROVE  /\ HappensBefore(f, e) => Descends(e.stamp, f.stamp)
                /\ Dot(f.stamp, actor[f.node]) <= Dot(e.stamp, actor[f.node])
                     => HappensBefore(f, e) \/ e = f
    <3>1. CASE e \in log /\ f \in log
      BY <2>1, <3>1 DEF Covering, Rank
    <3>2. CASE e = g /\ f \in log
      BY <1>5, <2>8, <2>10, <3>2
    <3>3. CASE e \in log /\ f = g
      BY <1>5, <2>6, <2>11, <3>3
    <3>4. CASE e = g /\ f = g
      BY <1>5, <3>4
    <3> QED
      BY <1>7, <3>1, <3>2, <3>3, <3>4
  <2>14. Covering'
    BY <1>2, <2>5, <2>12, <2>13 DEF Covering, HappensBefore, EventId, Rank
  <2> QED
    BY <2>4, <2>14
<1> QED
  BY <1>6, <1>8, <1>9, <1>10, <1>11 DEF IInv

(* Every step preserves the invariant. *)
LEMMA NextIInv == IInv /\ [Next]_vars => IInv'
<1> SUFFICES ASSUME IInv, [Next]_vars PROVE IInv'
  OBVIOUS
<1>1. CASE UNCHANGED vars
  BY <1>1 DEF vars, history, IInv, TypeOK, HistoryTypeOK, HistoryOK, KnownAreRecorded,
     RecordedOnce, ProcessOrder, Irreflexive, Asymmetric, ProperVersions, Counted,
     Covering, Rank, EventId, HappensBefore
<1>2. ASSUME NEW s \in Node, Write(s) PROVE IInv'
  BY <1>2, WriteIInv
<1>3. ASSUME NEW s \in Node, NEW w \in net, Read(s, w) PROVE IInv'
  BY <1>3, ReadIInv
<1> QED
  BY <1>1, <1>2, <1>3 DEF Next

(* The invariant holds in every history. *)
THEOREM Invariance == Spec => []IInv
BY InitIInv, NextIInv, PTL DEF Spec

-----------------------------------------------------------------------------
(* Type correctness: every version is a map from actors to counters. *)
THEOREM TypeCorrect == Spec => []TypeOK
<1>1. IInv => TypeOK
  BY DEF IInv
<1> QED
  BY <1>1, Invariance, PTL

(* The invariant makes the four tests exact. *)
LEMMA InvariantIsExact == IInv => ExactHistories
<1>1. ASSUME IInv, integrity = "clean", NEW e \in log, NEW f \in log
      PROVE  /\ Dominates(e.stamp, f.stamp) <=> HappensBefore(f, e)
             /\ Descends(e.stamp, f.stamp) <=> HappensBefore(f, e) \/ e = f
             /\ Equals(e.stamp, f.stamp) <=> e = f
             /\ Concurrent(e.stamp, f.stamp) <=> ConcurrentEvents(e, f)
  <2>1. Covering /\ Proper(e.stamp) /\ Proper(f.stamp)
    BY <1>1 DEF IInv, ProperVersions
  <2>2. /\ e.stamp \in Version /\ f.stamp \in Version
        /\ actor[e.node] \in Actor /\ actor[f.node] \in Actor
    BY <1>1 DEF IInv, TypeOK, HistoryTypeOK
  <2>3. \A k : Dot(e.stamp, k) \in Nat /\ Dot(f.stamp, k) \in Nat
    BY <2>2, VersionProperties
  <2>4. Descends(e.stamp, f.stamp) <=> HappensBefore(f, e) \/ e = f
    BY <2>1, <2>2, <2>3, DescendsIsOrder DEF Covering, Rank
  <2>5. Descends(f.stamp, e.stamp) <=> HappensBefore(e, f) \/ e = f
    BY <2>1, <2>2, <2>3, DescendsIsOrder DEF Covering, Rank
  <2>6. /\ ~(HappensBefore(e, f) /\ HappensBefore(f, e))
        /\ e = f => ~HappensBefore(f, e)
        /\ e = f <=> EventId(e) = EventId(f)
    BY <1>1 DEF IInv, Asymmetric, HistoryOK, Irreflexive, RecordedOnce
  <2>7. /\ Dominates(e.stamp, f.stamp) <=> HappensBefore(f, e)
        /\ Equals(e.stamp, f.stamp) <=> e = f
    BY <2>1, <2>4, <2>5, <2>6, TestsByDescends
  <2>8. Concurrent(e.stamp, f.stamp) <=> ConcurrentEvents(e, f)
    BY <2>4, <2>5, <2>6 DEF Concurrent, ConcurrentEvents
  <2> QED
    BY <2>4, <2>7, <2>8
<1> QED
  BY <1>1 DEF ExactHistories

(* dotted/doc.go: a Version is the causal history of a value.  Descends,   *)
(* Dominates, Equals and Concurrent decide the causal relation of any two  *)
(* writes, as long as the sessions of an actor see each other's writes.    *)
THEOREM VersionsAreHistories == Spec => []ExactHistories
BY InvariantIsExact, Invariance, PTL

(* Even where sessions share an actor, exactly one of the four relations   *)
(* holds between a stored version and that of a session.                   *)
THEOREM RelationsAreExclusive == Spec => []ExactlyOneRelation
<1>1. ASSUME NEW v, Proper(v), NEW w, Proper(w)
      PROVE  LET relations == <<Equals(v, w), Dominates(v, w), Dominates(w, v),
                                Concurrent(v, w)>>
             IN  \E i \in 1..4 : \A j \in 1..4 : relations[j] <=> i = j
  <2> DEFINE relations == <<Equals(v, w), Dominates(v, w), Dominates(w, v), Concurrent(v, w)>>
  <2>1. /\ relations[1] <=> Descends(v, w) /\ Descends(w, v)
        /\ relations[2] <=> Descends(v, w) /\ ~Descends(w, v)
        /\ relations[3] <=> Descends(w, v) /\ ~Descends(v, w)
        /\ relations[4] <=> ~Descends(v, w) /\ ~Descends(w, v)
    BY <1>1, TestsByDescends DEF Concurrent
  <2> HIDE DEF relations
  <2>2. \A j \in 1..4 : j = 1 \/ j = 2 \/ j = 3 \/ j = 4
    OBVIOUS
  <2>3. CASE Descends(v, w) /\ Descends(w, v)
    <3>1. \A j \in 1..4 : relations[j] <=> 1 = j
      BY <2>1, <2>2, <2>3
    <3> QED
      BY <3>1 DEF relations
  <2>4. CASE Descends(v, w) /\ ~Descends(w, v)
    <3>1. \A j \in 1..4 : relations[j] <=> 2 = j
      BY <2>1, <2>2, <2>4
    <3> QED
      BY <3>1 DEF relations
  <2>5. CASE ~Descends(v, w) /\ Descends(w, v)
    <3>1. \A j \in 1..4 : relations[j] <=> 3 = j
      BY <2>1, <2>2, <2>5
    <3> QED
      BY <3>1 DEF relations
  <2>6. CASE ~Descends(v, w) /\ ~Descends(w, v)
    <3>1. \A j \in 1..4 : relations[j] <=> 4 = j
      BY <2>1, <2>2, <2>6
    <3> QED
      BY <3>1 DEF relations
  <2> QED
    BY <2>3, <2>4, <2>5, <2>6
<1>2. ASSUME IInv, integrity # "wrapped", NEW e \in log, NEW s \in Node
      PROVE  Proper(e.stamp) /\ Proper(version[s])
  BY <1>2 DEF IInv, ProperVersions
<1>3. IInv => ExactlyOneRelation
  BY <1>1, <1>2 DEF ExactlyOneRelation
<1> QED
  BY <1>3, Invariance, PTL

-----------------------------------------------------------------------------
(* Sums of counters.                                                       *)

\* g gives each set of actors the sum of their counters in v
Additive(g, v, S) ==
  /\ g \in [SUBSET S -> Nat]
  /\ g[{}] = 0
  /\ \A t \in SUBSET S : \A x \in t : g[t] = v[x] + g[t \ {x}]

(* The counters of a finite map have sums, whatever the order in which     *)
(* they are added.                                                         *)
LEMMA SumsExist ==
  ASSUME NEW S, IsFiniteSet(S), NEW v \in [S -> Nat]
  PROVE  \E g : Additive(g, v, S)
<1> DEFINE P == {t \in SUBSET S : \E g : Additive(g, v, t)}
<1>1. {} \in P
  <2> DEFINE z == [t \in SUBSET {} |-> 0]
  <2>1. Additive(z, v, {})
    BY DEF Additive
  <2> HIDE DEF z
  <2> QED
    BY <2>1
<1>2. ASSUME NEW t \in SUBSET S, t # {}, \A x \in t : t \ {x} \in P
      PROVE  t \in P
  <2>1. PICK x \in t : TRUE
    BY <1>2
  <2>2. PICK g : Additive(g, v, t \ {x})
    BY <1>2, <2>1
  <2> DEFINE h == [r \in SUBSET t |-> IF x \in r THEN v[x] + g[r \ {x}] ELSE g[r]]
  <2>3. v[x] \in Nat
    BY <2>1
  <2>4. g \in [SUBSET (t \ {x}) -> Nat] /\ g[{}] = 0
    BY <2>2 DEF Additive
  <2>5. \A r \in SUBSET t : x \in r => r \ {x} \in SUBSET (t \ {x})
    OBVIOUS
  <2>6. \A r \in SUBSET t : x \notin r => r \in SUBSET (t \ {x})
    OBVIOUS
  <2>7. h \in [SUBSET t -> Nat]
    BY <2>3, <2>4, <2>5, <2>6
  <2>8. h[{}] = 0
    BY <2>4
  <2>9. ASSUME NEW r \in SUBSET t, NEW y \in r PROVE h[r] = v[y] + h[r \ {y}]
    <3>1. r \ {y} \in SUBSET t /\ v[y] \in Nat
      BY <2>9
    <3>2. CASE y = x
      <4>1. h[r] = v[x] + g[r \ {x}]
        BY <2>9, <3>2
      <4>2. h[r \ {x}] = g[r \ {x}]
        BY <3>1, <3>2
      <4> QED
        BY <3>2, <4>1, <4>2
    <3>3. CASE y # x /\ x \in r
      <4>1. h[r] = v[x] + g[r \ {x}]
        BY <2>9, <3>3
      <4>2. g[r \ {x}] = v[y] + g[(r \ {x}) \ {y}]
        BY <2>2, <2>5, <2>9, <3>3 DEF Additive
      <4>3. g[(r \ {x}) \ {y}] = g[(r \ {y}) \ {x}]
        <5>1. (r \ {x}) \ {y} = (r \ {y}) \ {x}
          OBVIOUS
        <5> QED
          BY <5>1
      <4>4. h[r \ {y}] = v[x] + g[(r \ {y}) \ {x}]
        BY <3>1, <3>3
      <4>5. g[(r \ {y}) \ {x}] \in Nat
        BY <2>4, <2>5, <3>1, <3>3
      <4> HIDE DEF h
      <4> QED
        BY <2>3, <3>1, <4>1, <4>2, <4>3, <4>4, <4>5
    <3>4. CASE x \notin r
      <4>1. h[r] = g[r] /\ h[r \ {y}] = g[r \ {y}]
        BY <2>9, <3>1, <3>4
      <4>2. g[r] = v[y] + g[r \ {y}]
        BY <2>2, <2>6, <2>9, <3>4 DEF Additive
      <4> QED
        BY <4>1, <4>2
    <3> QED
      BY <3>2, <3>3, <3>4
  <2> HIDE DEF h
  <2>10. Additive(h, v, t)
    BY <2>7, <2>8, <2>9 DEF Additive
  <2> QED
    BY <2>10
<1>3. SUBSET S \subseteq P
  <2> HIDE DEF P
  <2> QED
    BY <1>1, <1>2, SubsetInduction
<1> QED
  BY <1>3

\* the loop of Total and that of dotSum, which takes the actors in some order
TotalLoop(h, v) ==
  h = [t \in SUBSET DOMAIN v |->
         IF t = {} THEN 0
         ELSE LET x == CHOOSE x \in t : TRUE IN v[x] + h[t \ {x}]]
dotSumLoop(h, v) ==
  h = [t \in SUBSET DOMAIN v |->
         IF t = {} THEN 0
         ELSE LET x == CHOOSE x \in t : TRUE IN Plus(v[x], h[t \ {x}])]

\* h adds one more counter wherever it agrees with g so far
Follows(h, g, v, S) ==
  /\ h[{}] = 0
  /\ \A t \in SUBSET S :
       t # {} => \E x \in t : h[t \ {x}] = g[t \ {x}] => h[t] = v[x] + g[t \ {x}]

(* Whatever follows the sums is the sum. *)
LEMMA LoopIsSum ==
  ASSUME NEW S, IsFiniteSet(S), NEW v \in [S -> Nat], NEW g, Additive(g, v, S),
         NEW h, Follows(h, g, v, S)
  PROVE  h[S] = g[S]
<1> DEFINE P == {t \in SUBSET S : h[t] = g[t]}
<1>1. {} \in P
  BY DEF Additive, Follows
<1>2. ASSUME NEW t \in SUBSET S, t # {}, \A x \in t : t \ {x} \in P
      PROVE  t \in P
  BY <1>2 DEF Additive, Follows
<1>3. SUBSET S \subseteq P
  <2> HIDE DEF P
  <2> QED
    BY <1>1, <1>2, SubsetInduction
<1> QED
  BY <1>3

(* Total is the sum of the counters. *)
LEMMA TotalIsSum ==
  ASSUME NEW S, IsFiniteSet(S), NEW v \in [S -> Nat], NEW g, Additive(g, v, S)
  PROVE  Total(v) = g[S]
<1> DEFINE h == CHOOSE h : TotalLoop(h, v)
<1>1. Total(v) = h[DOMAIN v]
  BY DEF Total, FoldFunction, FoldFunctionOnSet, MapThenFoldSet, TotalLoop
<1>2. DOMAIN v = S
  OBVIOUS
<1>3. TotalLoop(g, v)
  <2> DEFINE k == [t \in SUBSET S |->
                     IF t = {} THEN 0
                     ELSE LET x == CHOOSE x \in t : TRUE IN v[x] + g[t \ {x}]]
  <2>1. ASSUME NEW t \in SUBSET S PROVE g[t] = k[t]
    <3>1. CASE t = {}
      BY <3>1 DEF Additive
    <3>2. CASE t # {}
      <4>1. (CHOOSE x \in t : TRUE) \in t
        BY <3>2
      <4> QED
        BY <3>2, <4>1 DEF Additive
    <3> QED
      BY <3>1, <3>2
  <2>2. g = k
    <3>1. g \in [SUBSET S -> Nat]
      BY DEF Additive
    <3>2. k \in [SUBSET S -> Nat]
      BY <2>1, <3>1
    <3> HIDE DEF k
    <3> QED
      BY <2>1, <3>1, <3>2
  <2> QED
    BY <1>2, <2>2 DEF TotalLoop
<1>4. TotalLoop(h, v)
  BY <1>3
<1> HIDE DEF h
<1>5. h[{}] = 0
  BY <1>4 DEF TotalLoop
<1>6. ASSUME NEW t \in SUBSET S, t # {}
      PROVE  \E x \in t : h[t] = v[x] + h[t \ {x}]
  <2>1. (CHOOSE x \in t : TRUE) \in t
    BY <1>6
  <2>2. LET x == CHOOSE x \in t : TRUE IN h[t] = v[x] + h[t \ {x}]
    BY <1>2, <1>4, <1>6 DEF TotalLoop
  <2> QED
    BY <2>1, <2>2
<1>7. Follows(h, g, v, S)
  BY <1>5, <1>6 DEF Follows
<1>8. h[S] = g[S]
  BY <1>7, LoopIsSum
<1> QED
  BY <1>1, <1>2, <1>8

(* Parts of a sum do not exceed it. *)
LEMMA PartialSums ==
  ASSUME NEW S, IsFiniteSet(S), NEW v \in [S -> Nat], NEW g, Additive(g, v, S)
  PROVE  \A t \in SUBSET S : g[t] <= g[S]
<1> DEFINE P == {r \in SUBSET S : g[S \ r] <= g[S]}
<1>1. g \in [SUBSET S -> Nat]
  BY DEF Additive
<1>2. {} \in P
  BY <1>1
<1>3. ASSUME NEW r \in SUBSET S, r # {}, \A x \in r : r \ {x} \in P
      PROVE  r \in P
  <2>1. PICK x \in r : r \ {x} \in P
    BY <1>3
  <2>2. S \ (r \ {x}) = (S \ r) \cup {x} /\ ((S \ r) \cup {x}) \ {x} = S \ r
    BY <2>1
  <2>3. g[(S \ r) \cup {x}] = v[x] + g[S \ r]
    <3> DEFINE u == (S \ r) \cup {x}
    <3>1. u \in SUBSET S /\ x \in u /\ u \ {x} = S \ r
      BY <2>1, <2>2
    <3> HIDE DEF u
    <3>2. g[u] = v[x] + g[u \ {x}]
      BY <3>1 DEF Additive
    <3> QED
      BY <3>1, <3>2 DEF u
  <2>4. g[(S \ r) \cup {x}] <= g[S]
    BY <2>1, <2>2
  <2>5. v[x] \in Nat /\ g[S \ r] \in Nat /\ g[S] \in Nat
    BY <1>1, <2>1
  <2> QED
    BY <2>3, <2>4, <2>5
<1>4. SUBSET S \subseteq P
  <2> HIDE DEF P
  <2> QED
    BY <1>2, <1>3, SubsetInduction
<1>5. \A t \in SUBSET S : S \ t \in P /\ S \ (S \ t) = t
  BY <1>4
<1> QED
  BY <1>5

(* As long as the sum fits a uint64, dotSum is the sum of the counters. *)
LEMMA dotSumIsSum ==
  ASSUME NEW S, IsFiniteSet(S), NEW v \in [S -> Nat], NEW g, Additive(g, v, S),
         g[S] <= MaxUint64
  PROVE  dotSum(v) = g[S]
<1> DEFINE h == CHOOSE h : dotSumLoop(h, v)
<1>1. dotSum(v) = h[DOMAIN v]
  BY DEF dotSum, FoldFunction, FoldFunctionOnSet, MapThenFoldSet, dotSumLoop
<1>2. DOMAIN v = S /\ g \in [SUBSET S -> Nat]
  BY DEF Additive
<1>3. ASSUME NEW t \in SUBSET S, NEW x \in t
      PROVE  /\ g[t] = v[x] + g[t \ {x}]
             /\ Plus(v[x], g[t \ {x}]) = g[t]
  <2>1. g[t] = v[x] + g[t \ {x}]
    BY DEF Additive
  <2>2. g[t] \in Nat /\ g[t] <= MaxUint64
    <3>1. g[t] <= g[S]
      BY PartialSums
    <3>2. g[t] \in Nat /\ g[S] \in Nat
      BY <1>2
    <3> QED
      BY <3>1, <3>2, MaxUint64Assumption
  <2>3. \A n \in Nat : n <= MaxUint64 => n % (MaxUint64 + 1) = n
    BY MaxUint64Assumption
  <2> QED
    BY <2>1, <2>2, <2>3 DEF Plus
<1>4. dotSumLoop(g, v)
  <2> DEFINE k == [t \in SUBSET S |->
                     IF t = {} THEN 0
                     ELSE LET x == CHOOSE x \in t : TRUE IN Plus(v[x], g[t \ {x}])]
  <2>1. ASSUME NEW t \in SUBSET S PROVE g[t] = k[t]
    <3>1. CASE t = {}
      BY <3>1 DEF Additive
    <3>2. CASE t # {}
      <4>1. (CHOOSE x \in t : TRUE) \in t
        BY <3>2
      <4> QED
        BY <1>3, <3>2, <4>1
    <3> QED
      BY <3>1, <3>2
  <2>2. g = k
    <3>1. k \in [SUBSET S -> Nat]
      BY <1>2, <2>1
    <3> HIDE DEF k
    <3> QED
      BY <1>2, <2>1, <3>1
  <2> QED
    BY <1>2, <2>2 DEF dotSumLoop
<1>5. dotSumLoop(h, v)
  BY <1>4
<1> HIDE DEF h
<1>6. h[{}] = 0
  BY <1>5 DEF dotSumLoop
<1>7. ASSUME NEW t \in SUBSET S, t # {}
      PROVE  \E x \in t : h[t] = Plus(v[x], h[t \ {x}])
  <2>1. (CHOOSE x \in t : TRUE) \in t
    BY <1>7
  <2>2. LET x == CHOOSE x \in t : TRUE IN h[t] = Plus(v[x], h[t \ {x}])
    BY <1>2, <1>5, <1>7 DEF dotSumLoop
  <2> QED
    BY <2>1, <2>2
<1>8. Follows(h, g, v, S)
  <2>1. ASSUME NEW t \in SUBSET S, t # {}
        PROVE  \E x \in t : h[t \ {x}] = g[t \ {x}] => h[t] = v[x] + g[t \ {x}]
    <3>1. PICK x \in t : h[t] = Plus(v[x], h[t \ {x}])
      BY <1>7, <2>1
    <3>2. Plus(v[x], g[t \ {x}]) = v[x] + g[t \ {x}]
      BY <1>3
    <3> QED
      BY <3>1, <3>2
  <2> QED
    BY <1>6, <2>1 DEF Follows
<1>9. h[S] = g[S]
  BY <1>8, LoopIsSum
<1> QED
  BY <1>1, <1>2, <1>9

(* A map that another exceeds has the smaller sum. *)
LEMMA SumsAreMonotonic ==
  ASSUME NEW A, NEW a \in [A -> Nat], NEW ga, Additive(ga, a, A),
         NEW B, NEW b \in [B -> Nat], NEW gb, Additive(gb, b, B),
         IsFiniteSet(B), A \subseteq B,
         \A k \in A : a[k] <= b[k],
         NEW x \in B, x \in A => a[x] < b[x], x \notin A => 0 < b[x]
  PROVE  ga[A] < gb[B]
<1> DEFINE P == {t \in SUBSET B : ga[t \cap A] <= gb[t]}
<1>1. ga \in [SUBSET A -> Nat] /\ gb \in [SUBSET B -> Nat]
  BY DEF Additive
<1>2. ASSUME NEW t \in SUBSET B, NEW y \in t
      PROVE  /\ y \in A => ga[t \cap A] = a[y] + ga[(t \ {y}) \cap A]
             /\ y \notin A => ga[t \cap A] = ga[(t \ {y}) \cap A]
             /\ gb[t] = b[y] + gb[t \ {y}]
             /\ b[y] \in Nat /\ (y \in A => a[y] \in Nat)
             /\ ga[(t \ {y}) \cap A] \in Nat /\ gb[t \ {y}] \in Nat
  <2>1. (t \cap A) \ {y} = (t \ {y}) \cap A
    OBVIOUS
  <2>2. y \in A => ga[t \cap A] = a[y] + ga[(t \cap A) \ {y}]
    BY DEF Additive
  <2>3. y \notin A => t \cap A = (t \ {y}) \cap A
    OBVIOUS
  <2>4. gb[t] = b[y] + gb[t \ {y}]
    BY DEF Additive
  <2>5. (t \ {y}) \cap A \in SUBSET A /\ t \ {y} \in SUBSET B /\ y \in B
    OBVIOUS
  <2> QED
    BY <1>1, <2>1, <2>2, <2>3, <2>4, <2>5
<1>3. {} \in P
  <2>1. {} \cap A = {}
    OBVIOUS
  <2> QED
    BY <2>1 DEF Additive
<1>4. ASSUME NEW t \in SUBSET B, t # {}, \A y \in t : t \ {y} \in P
      PROVE  t \in P
  <2>1. PICK y \in t : ga[(t \ {y}) \cap A] <= gb[t \ {y}]
    BY <1>4
  <2>2. /\ y \in A => ga[t \cap A] = a[y] + ga[(t \ {y}) \cap A]
        /\ y \notin A => ga[t \cap A] = ga[(t \ {y}) \cap A]
        /\ gb[t] = b[y] + gb[t \ {y}]
        /\ b[y] \in Nat /\ (y \in A => a[y] \in Nat)
        /\ ga[(t \ {y}) \cap A] \in Nat /\ gb[t \ {y}] \in Nat
    BY <1>2
  <2>3. ga[t \cap A] <= gb[t]
    BY <2>1, <2>2
  <2> QED
    BY <2>3
<1>5. SUBSET B \subseteq P
  <2> HIDE DEF P
  <2> QED
    BY <1>3, <1>4, SubsetInduction
<1>6. ga[(B \ {x}) \cap A] <= gb[B \ {x}]
  BY <1>5
<1>7. B \cap A = A /\ B \in SUBSET B
  OBVIOUS
<1>8. /\ x \in A => ga[B \cap A] = a[x] + ga[(B \ {x}) \cap A]
      /\ x \notin A => ga[B \cap A] = ga[(B \ {x}) \cap A]
      /\ gb[B] = b[x] + gb[B \ {x}]
      /\ b[x] \in Nat /\ (x \in A => a[x] \in Nat)
      /\ ga[(B \ {x}) \cap A] \in Nat /\ gb[B \ {x}] \in Nat
  BY <1>2, <1>7
<1>9. ga[B \cap A] < gb[B]
  BY <1>6, <1>8
<1> QED
  BY <1>7, <1>9

(* A version that another dominates has the smaller sum. *)
LEMMA DominatedHasSmallerSum ==
  ASSUME NEW v, Proper(v), NEW w, Proper(w), Dominates(w, v)
  PROVE  Total(v) < Total(w)
<1>1. /\ v \in [DOMAIN v -> Nat] /\ w \in [DOMAIN w -> Nat]
      /\ \A k : Dot(v, k) \in Nat /\ Dot(w, k) \in Nat
  <2>1. Counter \subseteq Nat
    BY MaxUint64Assumption DEF Counter
  <2> QED
    BY <2>1, VersionProperties DEF Proper
<1>2. \A k : (k \in DOMAIN v <=> Dot(v, k) > 0) /\ (k \in DOMAIN w <=> Dot(w, k) > 0)
  BY DEF Proper, Dot
<1>3. Descends(w, v) /\ ~Descends(v, w)
  BY TestsByDescends
<1>4. \A k \in DOMAIN v : ~(Dot(w, k) < Dot(v, k))
  BY <1>3 DEF Descends, Dot
<1>5. PICK x \in DOMAIN w : Dot(v, x) < Dot(w, x)
  BY <1>3 DEF Descends, Dot
<1>6. DOMAIN v \subseteq DOMAIN w
  BY <1>1, <1>2, <1>4
<1>7. PICK gv : Additive(gv, v, DOMAIN v)
  BY <1>1, SumsExist DEF Proper
<1>8. PICK gw : Additive(gw, w, DOMAIN w)
  BY <1>1, SumsExist DEF Proper
<1>9. \A k \in DOMAIN v : v[k] <= w[k]
  BY <1>1, <1>4, <1>6 DEF Dot
<1>10. (x \in DOMAIN v => v[x] < w[x]) /\ (x \notin DOMAIN v => 0 < w[x])
  BY <1>5 DEF Dot
<1>11. IsFiniteSet(DOMAIN v) /\ IsFiniteSet(DOMAIN w)
  BY DEF Proper
<1> DEFINE A == DOMAIN v
           B == DOMAIN w
<1> HIDE DEF A, B
<1>12. gv[A] < gw[B]
  BY <1>1, <1>6, <1>7, <1>8, <1>9, <1>10, <1>11, SumsAreMonotonic DEF A, B
<1>13. Total(v) = gv[A] /\ Total(w) = gw[B]
  BY <1>1, <1>7, <1>8, <1>11, TotalIsSum DEF A, B
<1> QED
  BY <1>12, <1>13

(* dotSum does not wrap as long as the sum fits a uint64. *)
LEMMA SumFits ==
  ASSUME NEW v, Proper(v), Total(v) <= MaxUint64
  PROVE  dotSum(v) = Total(v) /\ Total(v) \in Nat
<1>1. v \in [DOMAIN v -> Nat] /\ IsFiniteSet(DOMAIN v)
  <2>1. Counter \subseteq Nat
    BY MaxUint64Assumption DEF Counter
  <2> QED
    BY <2>1, VersionProperties DEF Proper
<1>2. PICK g : Additive(g, v, DOMAIN v)
  BY <1>1, SumsExist
<1>3. Total(v) = g[DOMAIN v]
  BY <1>1, <1>2, TotalIsSum
<1>4. dotSum(v) = g[DOMAIN v]
  BY <1>1, <1>2, <1>3, dotSumIsSum
<1>5. g[DOMAIN v] \in Nat
  BY <1>2 DEF Additive
<1> QED
  BY <1>3, <1>4, <1>5

(* ResolveLatestWriteWins returns a sibling with the largest sum. *)
LEMMA WinnerHasLargestSum ==
  ASSUME NEW e, NEW f, NEW g,
         \A w \in {e, f, g} : dotSum(w.stamp) \in Nat
  PROVE  LET winner == ResolveLatestWriteWins(<<e, f, g>>)
         IN  /\ winner \in {e, f, g}
             /\ \A w \in {e, f, g} : dotSum(w.stamp) <= dotSum(winner.stamp)
<1> DEFINE siblings == <<e, f, g>>
           sum(i) == dotSum(siblings[i].stamp)
           Best(i) == \A j \in DOMAIN siblings :
                        sum(j) < sum(i) \/ (sum(j) = sum(i) /\ i <= j)
           bestIdx == CHOOSE i \in DOMAIN siblings : Best(i)
<1>1. ResolveLatestWriteWins(<<e, f, g>>) = siblings[bestIdx]
  BY DEF ResolveLatestWriteWins
<1>2. DOMAIN siblings = {1, 2, 3}
  OBVIOUS
<1>3. siblings[1] = e /\ siblings[2] = f /\ siblings[3] = g
  OBVIOUS
<1>4. sum(1) \in Nat /\ sum(2) \in Nat /\ sum(3) \in Nat
  BY <1>3
<1> HIDE DEF siblings, sum
<1>5. \E i \in {1, 2, 3} : \A j \in {1, 2, 3} : sum(j) < sum(i) \/ (sum(j) = sum(i) /\ i <= j)
  <2>1. CASE sum(2) <= sum(1) /\ sum(3) <= sum(1)
    BY <1>4, <2>1
  <2>2. CASE sum(1) < sum(2) /\ sum(3) <= sum(2)
    BY <1>4, <2>2
  <2>3. CASE sum(1) < sum(3) /\ sum(2) < sum(3)
    BY <1>4, <2>3
  <2> QED
    BY <1>4, <2>1, <2>2, <2>3
<1>6. \E i \in DOMAIN siblings : Best(i)
  BY <1>2, <1>5
<1>7. bestIdx \in DOMAIN siblings /\ Best(bestIdx)
  BY <1>6
<1> HIDE DEF bestIdx
<1>8. bestIdx \in {1, 2, 3} /\ \A j \in {1, 2, 3} : sum(j) <= sum(bestIdx)
  BY <1>2, <1>4, <1>7
<1>9. siblings[bestIdx] \in {e, f, g}
  BY <1>3, <1>8
<1>10. \A w \in {e, f, g} : dotSum(w.stamp) <= dotSum(siblings[bestIdx].stamp)
  BY <1>3, <1>8 DEF sum
<1> QED
  BY <1>1, <1>9, <1>10

(* A last-write-wins resolution never picks a write that another sibling's *)
(* writer has seen: what is seen has the smaller sum.                      *)
THEOREM WinnersAreLatest == Spec => []WinnerIsLatest
<1>1. ASSUME IInv, integrity = "clean", NEW e \in log, NEW f \in log, NEW g \in log,
             \A w \in {e, f, g} : Total(w.stamp) <= MaxUint64,
             NEW w \in {e, f, g}
      PROVE  ~HappensBefore(ResolveLatestWriteWins(<<e, f, g>>), w)
  <2> DEFINE winner == ResolveLatestWriteWins(<<e, f, g>>)
  <2>1. \A u \in {e, f, g} : u \in log /\ Proper(u.stamp)
    BY <1>1 DEF IInv, ProperVersions
  <2>2. \A u \in {e, f, g} : dotSum(u.stamp) = Total(u.stamp) /\ Total(u.stamp) \in Nat
    BY <1>1, <2>1, SumFits
  <2>3. winner \in {e, f, g} /\ dotSum(w.stamp) <= dotSum(winner.stamp)
    BY <2>2, WinnerHasLargestSum
  <2> HIDE DEF winner
  <2>4. ASSUME HappensBefore(winner, w) PROVE FALSE
    <3>1. Dominates(w.stamp, winner.stamp)
      BY <1>1, <2>1, <2>3, <2>4, InvariantIsExact DEF ExactHistories
    <3>2. Total(winner.stamp) < Total(w.stamp)
      BY <2>1, <2>3, <3>1, DominatedHasSmallerSum
    <3> QED
      BY <2>2, <2>3, <3>2
  <2> QED
    BY <2>4 DEF winner
<1>2. IInv => WinnerIsLatest
  BY <1>1 DEF WinnerIsLatest
<1> QED
  BY <1>2, Invariance, PTL
=============================================================================
