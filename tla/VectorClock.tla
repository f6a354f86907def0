---------------------------- MODULE VectorClock ----------------------------
(***************************************************************************)
(* vector/clock.go: one vector Clock per process.  Every method holds the  *)
(* clock's lock throughout and returns a copy of the map, so a method is   *)
(* one atomic step, and a Snapshot never changes.                          *)
(***************************************************************************)
EXTENDS Causality, Snapshot

CONSTANT
  Rosters      \* the maps that clocks are first made from (NewFromMap), New
               \* being the empty one

\* before its first event no process has counted anything
ASSUME RostersAssumption ==
  Rosters \subseteq UNION {[D -> {0}] : D \in SUBSET Node}

VARIABLES
  vec,         \* vec[p]: the vec of p's Clock
  disk,        \* disk[p]: the Snapshot of Now that p's owner saved last
  void         \* history: has a counter been reused or wrapped?

Vector == VectorsOver(Node)

vars == <<vec, disk, void, history>>

Init ==
  /\ HistoryInit
  /\ vec \in [Node -> Rosters]
  /\ disk = vec
  /\ void = FALSE

\* an increment of p's own entry; v is the vector after any merge
Step(p, v) ==
  /\ vec' = [vec EXCEPT ![p] = Bump(v, p)]
  /\ void' = (void \/ Get(v, p) = MaxUint64)
  /\ UNCHANGED disk

Tick(p) ==
  /\ LocalEvent(p, Bump(vec[p], p))
  /\ Step(p, vec[p])

Send(p) ==
  /\ SendEvent(p, Bump(vec[p], p))
  /\ Step(p, vec[p])

Receive(p, m) ==
  LET merged == MergeVec(vec[p], m.stamp) IN
  /\ ReceiveEvent(p, m, Bump(merged, p))
  /\ Step(p, merged)

\* Now changes nothing in the clock; its caller saves the snapshot
Now(p) ==
  /\ disk' = [disk EXCEPT ![p] = vec[p]]
  /\ UNCHANGED <<vec, void, history>>

\* a crash of p, and a restart from the saved map, which may be stale
NewFromMap(p) ==
  /\ vec' = [vec EXCEPT ![p] = disk[p]]
  /\ void' = (void \/ disk[p] # vec[p])
  /\ UNCHANGED <<disk, history>>

Next ==
  \E p \in Node :
    \/ Tick(p)
    \/ Send(p)
    \/ \E m \in net : Receive(p, m)
    \/ Now(p)
    \/ NewFromMap(p)

Spec == Init /\ [][Next]_vars

-----------------------------------------------------------------------------
(* Every variable has its type. *)
TypeOK ==
  /\ HistoryTypeOK(Vector)
  /\ vec \in [Node -> Vector]
  /\ disk \in [Node -> Vector]
  /\ void \in BOOLEAN

(* vector/doc.go: vector clocks characterise causality.  Compare answers   *)
(* Before for two events exactly when the first happened before the        *)
(* second, Concurrent exactly when neither did, and Equal for no two       *)
(* different events, as long as no restart was stale and no counter has    *)
(* wrapped.                                                                *)
ExactCausality ==
  ~void =>
    \A e, f \in log :
      /\ HappensBefore(e, f) <=> Compare(e.stamp, f.stamp) = "Before"
      /\ HappensBefore(f, e) <=> Compare(e.stamp, f.stamp) = "After"
      /\ ConcurrentEvents(e, f) <=> Compare(e.stamp, f.stamp) = "Concurrent"

(* A clock's map says exactly which events its process knows of: Compare   *)
(* puts an event's snapshot at or before the map of a process if and only  *)
(* if the event is in the process's causal past.  A store may therefore    *)
(* drop a write that Compare finds Before or Equal (examples/vector_kv).   *)
ExactKnowledge ==
  ~void =>
    \A e \in log, p \in Node :
      EventId(e) \in known[p] <=> Compare(e.stamp, vec[p]) \in {"Before", "Equal"}

(* Snapshot.Equal and Compare agree on maps without zero entries, such as  *)
(* the ones that New, Tick, Send and Receive build.                        *)
EqualAgrees ==
  \A p \in Node : \A e \in log :
    NoZeroEntries(vec[p]) /\ NoZeroEntries(e.stamp) =>
      (SnapshotEqual(vec[p], e.stamp) <=> Compare(vec[p], e.stamp) = "Equal")

(* vector/clock.go:127: Equal "reports whether two Snapshots have          *)
(* identical vectors".  Violated when a clock was made from a map with a   *)
(* zero entry: another key of the other map may take that entry's place.   *)
EqualMeansIdentical ==
  \A e, f \in log :
    SnapshotEqual(e.stamp, f.stamp) => Compare(e.stamp, f.stamp) = "Equal"
=============================================================================
