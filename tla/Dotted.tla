------------------------------- MODULE Dotted -------------------------------
(***************************************************************************)
(* dotted/: immutable Versions of stored values, as the sessions of a      *)
(* replicated store use them.  A session holds the Version of all it has   *)
(* read or written; a write stores a value under the session's Version,    *)
(* incremented for the session's actor, and a read merges the Version of a *)
(* stored value.  The nodes of the history are the sessions, its events    *)
(* the writes.  Several sessions may act for one actor: a client that      *)
(* reconnects, or the clients whose writes one storage node coordinates.   *)
(***************************************************************************)
EXTENDS Causality, FiniteSets, Functions

CONSTANTS
  Actor,       \* the actors
  MaxUint64    \* largest counter value (2^64 - 1 in the code)

ASSUME MaxUint64Assumption == MaxUint64 \in Nat

VARIABLES
  actor,       \* actor[s]: the actor that session s writes for
  version,     \* version[s]: the Version that s holds
  count,       \* history, count[a]: number of writes of actor a
  integrity    \* history: what the versions can be trusted for

vars == <<actor, version, count, integrity, history>>

-----------------------------------------------------------------------------
(* version.go.                                                             *)

Counter == 0..MaxUint64

Version == UNION {[D -> Counter] : D \in SUBSET Actor}

NewVersion == [a \in {} |-> 0]

\* v.dots[k], which is 0 when there is no such entry
Dot(v, k) == IF k \in DOMAIN v THEN v[k] ELSE 0

\* mutant of Plus: a counter that never wraps
PlusUnbounded(a, b) == a + b

\* + on a uint64
Plus(a, b) == (a + b) % (MaxUint64 + 1)

\* mutant of Increment: the other dots are not copied
IncrementAlone(v, a) == [k \in {a} |-> Plus(Dot(v, a), 1)]

Increment(v, a) ==
  [k \in DOMAIN v \cup {a} |-> IF k = a THEN Plus(Dot(v, a), 1) ELSE v[k]]

Merge(v, other) ==
  [k \in DOMAIN v \cup {j \in DOMAIN other : other[j] > Dot(v, j)} |->
      IF Dot(other, k) > Dot(v, k) THEN other[k] ELSE v[k]]

Descends(v, other) == \A k \in DOMAIN other : ~(Dot(v, k) < other[k])

\* mutant of Dominates: without the loop over the actors of v
DominatesFirstLoop(v, other) ==
  Descends(v, other) /\ \E k \in DOMAIN other : Dot(v, k) > other[k]

Dominates(v, other) ==
  /\ Descends(v, other)
  /\ \/ \E k \in DOMAIN other : Dot(v, k) > other[k]
     \/ \E k \in DOMAIN v : k \notin DOMAIN other

Equals(v, other) ==
  /\ Cardinality(DOMAIN v) = Cardinality(DOMAIN other)
  /\ \A k \in DOMAIN v : Dot(other, k) = v[k]

Concurrent(v, other) == ~Descends(v, other) /\ ~Descends(other, v)

-----------------------------------------------------------------------------
(* resolve.go.  A sibling is a write.                                      *)

\* mutant of dotSum: counts the actors
dotCount(v) == Cardinality(DOMAIN v)

dotSum(v) == FoldFunction(Plus, 0, v)

\* the first sibling whose sum no other exceeds
ResolveLatestWriteWins(siblings) ==
  LET sum(i) == dotSum(siblings[i].stamp)
      bestIdx == CHOOSE i \in DOMAIN siblings :
                   \A j \in DOMAIN siblings :
                     sum(j) < sum(i) \/ (sum(j) = sum(i) /\ i <= j)
  IN  siblings[bestIdx]

-----------------------------------------------------------------------------
Init ==
  /\ HistoryInit
  /\ actor \in [Node -> Actor]
  /\ version = [s \in Node |-> NewVersion]
  /\ count = [a \in Actor |-> 0]
  /\ integrity = "clean"

(***************************************************************************)
(* A write makes integrity "shared" when its actor has written something   *)
(* that the session does not know of, and "wrapped" when the counter is at *)
(* its limit.                                                              *)
(***************************************************************************)
Write(s) ==
  LET a == actor[s]
      v == Increment(version[s], a)
  IN
  /\ SendEvent(s, v)
  /\ version' = [version EXCEPT ![s] = v]
  /\ count' = [count EXCEPT ![a] = @ + 1]
  /\ integrity' = IF integrity = "wrapped" \/ Dot(version[s], a) = MaxUint64
                  THEN "wrapped"
                  ELSE IF Dot(version[s], a) # count[a] THEN "shared" ELSE integrity
  /\ UNCHANGED actor

\* a stored value is read, or replicated: late, repeatedly or never
Read(s, w) ==
  /\ version' = [version EXCEPT ![s] = Merge(version[s], w.stamp)]
  /\ known' = [known EXCEPT ![s] = known[s] \cup w.past \cup {EventId(w)}]
  /\ UNCHANGED <<actor, count, integrity, executed, log, net>>

Next ==
  \E s \in Node :
    \/ Write(s)
    \/ \E w \in net : Read(s, w)

Spec == Init /\ [][Next]_vars

-----------------------------------------------------------------------------
(* Every variable has its type. *)
TypeOK ==
  /\ HistoryTypeOK(Version)
  /\ actor \in [Node -> Actor]
  /\ version \in [Node -> Version]
  /\ count \in [Actor -> Nat]
  /\ integrity \in {"clean", "shared", "wrapped"}

(* dotted/doc.go: a Version is the causal history of a stored value.  As   *)
(* long as a session that writes for an actor has seen the actor's earlier *)
(* writes and no counter has wrapped, the four tests decide the causal     *)
(* relation of two writes exactly: a store discards with Dominates only    *)
(* what the new value's writer has seen, and keeps what is Concurrent.     *)
ExactHistories ==
  integrity = "clean" =>
    \A e, f \in log :
      /\ Dominates(e.stamp, f.stamp) <=> HappensBefore(f, e)
      /\ Descends(e.stamp, f.stamp) <=> HappensBefore(f, e) \/ e = f
      /\ Equals(e.stamp, f.stamp) <=> e = f
      /\ Concurrent(e.stamp, f.stamp) <=> ConcurrentEvents(e, f)

(* The four tests fit together even where sessions share an actor: one     *)
(* version equals, dominates or is dominated by the other, or they are     *)
(* concurrent, and exactly one of these holds.                             *)
ExactlyOneRelation ==
  integrity # "wrapped" =>
    \A e \in log, s \in Node :
      LET v == e.stamp
          w == version[s]
          relations == <<Equals(v, w), Dominates(v, w), Dominates(w, v),
                         Concurrent(v, w)>>
      IN  \E i \in 1..4 : \A j \in 1..4 : relations[j] <=> i = j

\* the sum of the dots, as a number that does not wrap
Total(v) == FoldFunction(LAMBDA a, b : a + b, 0, v)

(* A last-write-wins resolution never picks a write that another sibling's *)
(* writer has seen, whatever the order of the siblings, as long as the     *)
(* sums of their counters fit a uint64.                                    *)
WinnerIsLatest ==
  integrity = "clean" =>
    \A e, f, g \in log :
      (\A w \in {e, f, g} : Total(w.stamp) <= MaxUint64) =>
        LET winner == ResolveLatestWriteWins(<<e, f, g>>)
        IN  \A w \in {e, f, g} : ~HappensBefore(winner, w)

(* version.go:62: "if a.Dominates(b) is true, b can be safely discarded",  *)
(* that is, the writer of a has seen b.  Violated when two sessions write  *)
(* for one actor, such as a storage node: the dots of their writes are the *)
(* same.                                                                   *)
DiscardIsSafe ==
  \A e, f \in log : Dominates(e.stamp, f.stamp) => HappensBefore(f, e)
=============================================================================
