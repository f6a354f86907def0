------------------------------ MODULE Snapshot ------------------------------
(***************************************************************************)
(* vector/clock.go and vector/compare.go: the map from node IDs to uint64  *)
(* counters that a vector Clock holds and a Snapshot copies, and the pure  *)
(* functions on it.  The map is partial: a node without an entry counts    *)
(* as zero, and an entry may itself be zero, because NewFromMap takes any  *)
(* map.                                                                    *)
(***************************************************************************)
EXTENDS Integers, FiniteSets

CONSTANT MaxUint64   \* largest counter value (2^64 - 1 in the code)

ASSUME MaxUint64Assumption == MaxUint64 \in Nat

Counter == 0..MaxUint64

\* the maps that can be built over a set of node IDs
VectorsOver(ids) == UNION {[D -> Counter] : D \in SUBSET ids}

EmptyVector == [n \in {} |-> 0]

\* Snapshot.Get, and Go's value for a missing key
Get(v, n) == IF n \in DOMAIN v THEN v[n] ELSE 0

MaxOf(a, b) == IF a >= b THEN a ELSE b

\* mutant of Inc: a counter that never wraps
IncUnbounded(c) == c + 1

\* ++ on a uint64 that wraps
Inc(c) == IF c = MaxUint64 THEN 0 ELSE c + 1

\* c.vec[c.nodeID]++
Bump(v, p) ==
  [n \in DOMAIN v \cup {p} |-> IF n = p THEN Inc(Get(v, p)) ELSE v[n]]

\* mutant of MergeVec: the remote value overwrites a larger local one
MergeOverwrites(v, r) ==
  [n \in DOMAIN v \cup DOMAIN r |-> IF n \in DOMAIN r THEN r[n] ELSE v[n]]

\* the merge loop of Receive: an entry is written only where the remote
\* counter is larger
MergeVec(v, r) ==
  [n \in DOMAIN v \cup {k \in DOMAIN r : r[k] > Get(v, k)} |->
      MaxOf(Get(v, n), Get(r, n))]

-----------------------------------------------------------------------------
(* Compare.                                                                *)

\* the first loop finds no counter of a above that of b
LessOrEq(a, b) == \A k \in DOMAIN a : a[k] <= Get(b, k)

\* mutant of GreaterOrEq: without the second loop
GreaterOrEqFirstLoop(a, b) == \A k \in DOMAIN a : Get(b, k) <= a[k]

\* neither loop finds a counter of b above that of a
GreaterOrEq(a, b) ==
  /\ \A k \in DOMAIN a : Get(b, k) <= a[k]
  /\ \A k \in DOMAIN b \ DOMAIN a : ~(b[k] > 0)

Compare(a, b) ==
  CASE LessOrEq(a, b) /\ GreaterOrEq(a, b) -> "Equal"
    [] LessOrEq(a, b) /\ ~GreaterOrEq(a, b) -> "Before"
    [] ~LessOrEq(a, b) /\ GreaterOrEq(a, b) -> "After"
    [] OTHER -> "Concurrent"

\* mutant of SnapshotEqual: without the comparison of the lengths
EqualOnFirstKeys(a, b) == \A k \in DOMAIN a : Get(b, k) = a[k]

\* Snapshot.Equal: the lengths agree, and b agrees with a on a's keys
SnapshotEqual(a, b) ==
  /\ Cardinality(DOMAIN a) = Cardinality(DOMAIN b)
  /\ \A k \in DOMAIN a : Get(b, k) = a[k]

NoZeroEntries(v) == \A n \in DOMAIN v : v[n] # 0
=============================================================================
