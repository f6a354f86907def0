------------------------------ MODULE Ordering ------------------------------
(***************************************************************************)
(* ordering/partial_order.go: TopologicalSort, as the loop that it is, and *)
(* MaximalElements and MinimalElements, as functions of their input.  An   *)
(* event is named by its index, which is what the code works with: IDs and *)
(* stamps may repeat.  IDs are numbers; only their order matters.          *)
(***************************************************************************)
EXTENDS Stamps, Sequences

CONSTANT
  Inputs      \* the slices to be sorted: sequences of [ID, Stamp] records

ASSUME InputsAssumption ==
  \A evs \in Inputs :
    /\ DOMAIN evs = 1..Len(evs)
    /\ Len(evs) \in Nat
    /\ \A i \in DOMAIN evs : evs[i].ID \in Nat
ASSUME StampsAssumption ==
  \A evs \in Inputs : \A i \in DOMAIN evs : IsStamp(evs[i].Stamp)

VARIABLES
  events,     \* the argument
  order,      \* the indices, sorted by ID
  inDeg,      \* inDeg[j]: the incoming edges of j that are left
  used,       \* the indices whose used flag is set
  out,        \* the indices of the events in the result so far
  pc          \* "start", "loop" or "done"

vars == <<events, order, inDeg, used, out, pc>>

Index == DOMAIN events
N == Len(events)

\* an edge of the DAG: an element of succ[i].  The code skips i = j
Edge(i, j) == i # j /\ HappensBefore(events[i].Stamp, events[j].Stamp)

\* sort.SliceStable by ID, of the slice 1..N
ByID(o) ==
  \A k, m \in Index :
    k < m => \/ events[o[k]].ID < events[o[m]].ID
             \/ events[o[k]].ID = events[o[m]].ID /\ o[k] < o[m]
Sorted ==
  {o \in [Index -> Index] : (\A i \in Index : \E k \in Index : o[k] = i) /\ ByID(o)}

-----------------------------------------------------------------------------
Init ==
  /\ events \in Inputs
  /\ order = <<>>
  /\ inDeg = <<>>
  /\ used = {}
  /\ out = <<>>
  /\ pc = "start"

ReturnNil ==
  /\ pc = "start"
  /\ N = 0
  /\ pc' = "done"
  /\ UNCHANGED <<events, order, inDeg, used, out>>

\* mutant of InDegrees: the inner loop starts at i
HalfInDegrees == [j \in Index |-> Cardinality({i \in Index : i < j /\ Edge(i, j)})]

InDegrees == [j \in Index |-> Cardinality({i \in Index : Edge(i, j)})]

\* the order, and the edges
Build ==
  /\ pc = "start"
  /\ N > 0
  /\ order' \in Sorted
  /\ inDeg' = InDegrees
  /\ pc' = "loop"
  /\ UNCHANGED <<events, used, out>>

\* mutant of Available: forgets the used flag
AvailableAgain(i) == inDeg[i] = 0

Available(i) == i \notin used /\ inDeg[i] = 0

\* mutant of First: the last available one
LastInOrder(k) == Available(order[k]) /\ \A m \in Index : m > k => ~Available(order[m])

\* the scan of order stops at k
First(k) == Available(order[k]) /\ \A m \in Index : m < k => ~Available(order[m])

\* mutant of Released: every event loses an edge
ReleaseAll(i) == [j \in Index |-> inDeg[j] - 1]

\* inDeg[s]-- for the successors of i
Released(i) == [j \in Index |-> IF Edge(i, j) THEN inDeg[j] - 1 ELSE inDeg[j]]

\* one round of the loop
Emit(k) ==
  /\ pc = "loop"
  /\ Len(out) < N
  /\ First(k)
  /\ used' = used \cup {order[k]}
  /\ out' = Append(out, order[k])
  /\ inDeg' = Released(order[k])
  /\ UNCHANGED <<events, order, pc>>

\* chosen = -1, or the loop condition fails
Return ==
  /\ pc = "loop"
  /\ Len(out) >= N \/ \A k \in Index : ~Available(order[k])
  /\ pc' = "done"
  /\ UNCHANGED <<events, order, inDeg, used, out>>

Next == ReturnNil \/ Build \/ (\E k \in Index : Emit(k)) \/ Return

Spec == Init /\ [][Next]_vars

\* a function that is called runs
FairSpec == Spec /\ WF_vars(Next)

-----------------------------------------------------------------------------
(* The frontier and the roots, as sets of indices: the results keep the    *)
(* input's order.                                                          *)

\* mutant of MaximalElements: the arguments of HappensBefore are swapped
MaximalSwapped == {i \in Index : \A j \in Index : ~Edge(j, i)}

MaximalElements == {i \in Index : \A j \in Index : ~Edge(i, j)}
MinimalElements == {i \in Index : \A j \in Index : ~Edge(j, i)}

-----------------------------------------------------------------------------
(* Every variable has its type; out lists the used events, each once. *)
TypeOK ==
  /\ events \in Inputs
  /\ pc \in {"start", "loop", "done"}
  /\ used \subseteq Index
  /\ out \in Seq(Index)
  /\ used = {out[k] : k \in DOMAIN out}
  /\ \A k, m \in DOMAIN out : out[k] = out[m] => k = m
  /\ pc = "loop" => order \in Sorted /\ inDeg \in [Index -> Nat]

\* the sets whose members all wait for another member
Blocked == {S \in SUBSET Index : \A j \in S : \E i \in S : Edge(i, j)}
Stuck == UNION Blocked

(* partial_order.go:59-63: when HappensBefore is not a partial order the   *)
(* result is short, without an error.  The events that are missing are     *)
(* exactly those on a cycle or after one: the others are all sorted.       *)
StopsExactlyAtCycles == pc = "done" => used = Index \ Stuck

\* i has the smaller ID, or the same ID and the earlier place in the input
Smaller(i, j) ==
  \/ events[i].ID < events[j].ID
  \/ events[i].ID = events[j].ID /\ i < j

Extensions ==
  {q \in [Index -> Index] :
     /\ \A i \in Index : \E k \in Index : q[k] = i
     /\ \A k, m \in Index : Edge(q[k], q[m]) => k < m}

(* TopologicalSort's comment: a total order consistent with the partial    *)
(* order, and the smallest ID first where there is a choice.  Without      *)
(* cycles the result is the one linear extension that is least,            *)
(* lexicographically, in the order of the IDs; so it is deterministic, and *)
(* only events with one ID depend on the order of the input.               *)
LeastExtension ==
  pc = "done" /\ Stuck = {} =>
    /\ out \in Extensions
    /\ \A q \in Extensions \ {out} :
         \E k \in Index : Smaller(out[k], q[k]) /\ \A m \in 1..(k-1) : out[m] = q[m]

PartialOrder ==
  \A i, j, k \in Index : Edge(i, j) /\ Edge(j, k) => Edge(i, k)

(* The frontier loses nothing: by a partial order every event is before    *)
(* some maximal element or is one itself, and after some minimal element   *)
(* or is one; and a sort begins at a root and ends at the frontier.        *)
FrontierCovers ==
  PartialOrder =>
    /\ \A i \in Index :
         /\ i \in MaximalElements \/ \E j \in MaximalElements : Edge(i, j)
         /\ i \in MinimalElements \/ \E j \in MinimalElements : Edge(j, i)
    /\ pc = "done" /\ N > 0 =>
         out[1] \in MinimalElements /\ out[N] \in MaximalElements

(* ordering/doc.go: the adapters give one notion of happens-before.  Even  *)
(* in a slice of mixed types it is a strict partial order.  Concurrent is  *)
(* symmetric and excludes it.  Two stamps of one type are always related   *)
(* by one of the two, or they are equal vectors; others never are.         *)
AdaptersAgree ==
  \A i, j, k \in Index :
    LET a == events[i].Stamp
        b == events[j].Stamp
        c == events[k].Stamp
    IN "Foreign" \notin {a.type, b.type, c.type} =>
         /\ ~HappensBefore(a, a)
         /\ HappensBefore(a, b) /\ HappensBefore(b, c) => HappensBefore(a, c)
         /\ Concurrent(a, b) => /\ Concurrent(b, a)
                                /\ ~HappensBefore(a, b)
         /\ a.type = b.type <=>
              \/ HappensBefore(a, b) \/ HappensBefore(b, a) \/ Concurrent(a, b)
              \/ /\ {a.type, b.type} = {"Vector"}
                 /\ Compare(a.value, b.value) = "Equal"

-----------------------------------------------------------------------------
Abstract == INSTANCE LinearExtension WITH
  items    <- Index,
  before   <- {e \in Index \X Index : Edge(e[1], e[2])},
  emitted  <- out,
  finished <- pc = "done"

(* TopologicalSort implements a sort by a partial order: it emits an event *)
(* only after the events that happen before it, stops only when every      *)
(* event that is left waits for another, and it does stop.                 *)
RefinesLinearExtension == Abstract!Spec
=============================================================================
