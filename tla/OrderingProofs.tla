--------------------------- MODULE OrderingProofs ---------------------------
(***************************************************************************)
(* Proofs about Ordering, for every slice and every HappensBefore.         *)
(***************************************************************************)
EXTENDS Ordering, FiniteSetTheorems, TLAPS

\* the predecessors of j that have not been emitted
Waiting(j) == {i \in Index \ used : Edge(i, j)}

\* inDeg counts them
Counts == pc = "loop" => \A j \in Index : inDeg[j] = Cardinality(Waiting(j))

\* nothing that waits for itself is emitted
NoneBlocked == \A S \in Blocked : S \cap used = {}

\* when the loop has ended, whatever is left waits
RestWaits == pc = "done" => \A j \in Index \ used : Waiting(j) # {}

IInv ==
  /\ TypeOK
  /\ Cardinality(used) = Len(out)
  /\ pc = "start" => out = <<>>
  /\ Counts
  /\ NoneBlocked
  /\ RestWaits

-----------------------------------------------------------------------------
(* The indices of a slice are 1..N, finitely many. *)
LEMMA IndexFinite ==
  ASSUME events \in Inputs
  PROVE  /\ N \in Nat
         /\ Index = 1..N
         /\ IsFiniteSet(Index)
         /\ Cardinality(Index) = N
<1>1. N \in Nat /\ Index = 1..N
  BY InputsAssumption DEF N, Index
<1>2. IsFiniteSet(1..N) /\ Cardinality(1..N) = N
  BY <1>1, FS_Interval, Z3
<1> QED
  BY <1>1, <1>2

(* The sets that inDeg counts are finite, and a count of zero is an empty  *)
(* set.                                                                    *)
LEMMA WaitingFinite ==
  ASSUME events \in Inputs, NEW j
  PROVE  /\ IsFiniteSet(Waiting(j))
         /\ Cardinality(Waiting(j)) \in Nat
         /\ Cardinality(Waiting(j)) = 0 <=> Waiting(j) = {}
<1>1. IsFiniteSet(Index)
  BY IndexFinite
<1>2. Waiting(j) \subseteq Index
  BY DEF Waiting
<1>3. IsFiniteSet(Waiting(j))
  BY <1>1, <1>2, FS_Subset
<1> QED
  BY <1>3, FS_CardinalityType, FS_EmptySet

(* The initial state satisfies the invariant. *)
LEMMA InitIInv == Init => IInv
<1> SUFFICES ASSUME Init PROVE IInv
  OBVIOUS
<1>1. TypeOK
  BY DEF Init, TypeOK
<1>2. Cardinality(used) = Len(out)
  BY FS_EmptySet DEF Init
<1> QED
  BY <1>1, <1>2 DEF Init, IInv, Counts, NoneBlocked, RestWaits

(* Build establishes the counts. *)
LEMMA BuildIInv == IInv /\ Build => IInv'
<1> SUFFICES ASSUME IInv, Build PROVE IInv'
  OBVIOUS
<1> USE DEF IInv
<1>1. events' = events /\ used' = used /\ out' = out /\ pc' = "loop" /\ used = {}
  BY DEF Build, TypeOK
<1>2. Index' = Index /\ \A i, j : Edge(i, j)' = Edge(i, j)
  BY <1>1 DEF Index, Edge
<1>3. \A j : Waiting(j) = {i \in Index : Edge(i, j)}
  BY <1>1, <1>2 DEF Waiting
<1>4. \A j : Waiting(j)' = Waiting(j)
  BY <1>1, <1>2 DEF Waiting
<1>5. \A j \in Index : inDeg'[j] = Cardinality(Waiting(j))
  BY <1>3 DEF Build, InDegrees
<1>6. TypeOK'
  <2>1. inDeg' \in [Index -> Nat]
    <3>1. \A j \in Index : Cardinality({i \in Index : Edge(i, j)}) \in Nat
      BY <1>3, WaitingFinite DEF TypeOK
    <3> QED
      BY <3>1 DEF Build, InDegrees
  <2>2. order' \in Sorted'
    BY <1>1, <1>2 DEF Build, Sorted, ByID
  <2> QED
    BY <1>1, <1>2, <2>1, <2>2 DEF TypeOK
<1>7. Counts'
  BY <1>2, <1>4, <1>5 DEF Counts
<1>8. NoneBlocked'
  BY <1>1 DEF NoneBlocked
<1> QED
  BY <1>1, <1>6, <1>7, <1>8 DEF RestWaits

(* Returning leaves everything but pc alone. *)
LEMMA ReturnIInv == IInv /\ (Return \/ ReturnNil) => IInv'
<1> SUFFICES ASSUME IInv, Return \/ ReturnNil PROVE IInv'
  OBVIOUS
<1> USE DEF IInv
<1>1. /\ UNCHANGED <<events, order, inDeg, used, out>>
      /\ pc' = "done"
  BY DEF Return, ReturnNil
<1>2. Index' = Index /\ N' = N /\ \A i, j : Edge(i, j)' = Edge(i, j)
  BY <1>1 DEF Index, N, Edge
<1>3. \A j : Waiting(j)' = Waiting(j)
  BY <1>1, <1>2 DEF Waiting
<1>4. TypeOK' /\ Counts'
  BY <1>1, <1>2 DEF TypeOK, Counts
<1>5. NoneBlocked'
  BY <1>1, <1>2 DEF NoneBlocked, Blocked
<1>6. \A j \in Index \ used : Waiting(j) # {}
  <2>1. CASE N = 0
    BY <2>1, IndexFinite DEF TypeOK
  <2>2. CASE Return /\ Len(out) >= N
    <3>1. IsFiniteSet(Index) /\ Cardinality(Index) = N /\ N \in Nat
      BY IndexFinite DEF TypeOK
    <3>2. used \subseteq Index /\ Cardinality(used) >= N
      BY <2>2 DEF TypeOK
    <3>3. /\ Cardinality(used) \in Nat /\ Cardinality(used) <= N
          /\ Cardinality(used) = N => used = Index
      BY <3>1, <3>2, FS_Subset, FS_CardinalityType
    <3> QED
      BY <3>1, <3>2, <3>3
  <2>3. CASE Return /\ \A k \in Index : ~Available(order[k])
    <3>1. \A j \in Index : ~Available(j)
      BY <2>3 DEF Return, TypeOK, Sorted
    <3>2. \A j \in Index \ used : Cardinality(Waiting(j)) # 0
      BY <2>3, <3>1 DEF Return, Available, Counts
    <3> QED
      BY <3>2, WaitingFinite DEF TypeOK
  <2> QED
    BY <2>1, <2>2, <2>3 DEF Return, ReturnNil
<1>7. RestWaits'
  BY <1>1, <1>2, <1>3, <1>6 DEF RestWaits
<1> QED
  BY <1>1, <1>4, <1>5, <1>7

(* An event is emitted only when nothing before it is left. *)
LEMMA EmitReady ==
  ASSUME IInv, NEW k \in Index, Emit(k)
  PROVE  /\ order[k] \in Index \ used
         /\ Waiting(order[k]) = {}
<1>1. order[k] \in Index /\ inDeg[order[k]] = 0 /\ order[k] \notin used
  BY DEF IInv, TypeOK, Sorted, Emit, First, Available
<1>2. Cardinality(Waiting(order[k])) = 0
  BY <1>1 DEF IInv, Counts, Emit
<1> QED
  BY <1>1, <1>2, WaitingFinite DEF IInv, TypeOK

(* One round of the loop preserves the invariant. *)
LEMMA EmitIInv ==
  ASSUME IInv, NEW k \in Index, Emit(k)
  PROVE  IInv'
<1> DEFINE c == order[k]
<1> USE DEF IInv
<1>1. /\ c \in Index /\ c \notin used /\ Waiting(c) = {}
  BY EmitReady
<1>2. /\ UNCHANGED <<events, order, pc>> /\ pc = "loop"
      /\ used' = used \cup {c}
      /\ out' = Append(out, c)
      /\ inDeg' = [j \in Index |-> IF Edge(c, j) THEN inDeg[j] - 1 ELSE inDeg[j]]
  BY DEF Emit, Released
<1> HIDE DEF c
<1>3. Index' = Index /\ N' = N /\ \A i, j : Edge(i, j)' = Edge(i, j)
  BY <1>2 DEF Index, N, Edge
<1>4. \A j \in Index : Waiting(j)' = Waiting(j) \ {c}
  BY <1>2, <1>3 DEF Waiting
<1>5. \A j \in Index : c \in Waiting(j) <=> Edge(c, j)
  BY <1>1 DEF Waiting
<1>6. \A j \in Index : inDeg'[j] = Cardinality(Waiting(j)') /\ inDeg'[j] \in Nat
  <2> SUFFICES ASSUME NEW j \in Index
               PROVE  inDeg'[j] = Cardinality(Waiting(j) \ {c}) /\ inDeg'[j] \in Nat
    BY <1>4
  <2>1. /\ IsFiniteSet(Waiting(j)) /\ Cardinality(Waiting(j)) \in Nat
        /\ inDeg[j] = Cardinality(Waiting(j))
    BY <1>2, WaitingFinite DEF TypeOK, Counts
  <2>2. CASE Edge(c, j)
    <3>1. /\ IsFiniteSet(Waiting(j) \ {c})
          /\ Cardinality(Waiting(j) \ {c}) = Cardinality(Waiting(j)) - 1
      BY <2>1, <2>2, <1>5, FS_RemoveElement
    <3>2. Cardinality(Waiting(j) \ {c}) \in Nat
      BY <3>1, FS_CardinalityType
    <3> QED
      BY <1>2, <2>1, <2>2, <3>1, <3>2
  <2>3. CASE ~Edge(c, j)
    <3>1. Waiting(j) \ {c} = Waiting(j)
      BY <2>3, <1>5
    <3> QED
      BY <1>2, <2>1, <2>3, <3>1
  <2> QED
    BY <2>2, <2>3
<1>7. Counts'
  BY <1>3, <1>6 DEF Counts
<1>8. TypeOK'
  <2>1. out \in Seq(Index) /\ used = {out[m] : m \in DOMAIN out} /\ used \subseteq Index
    BY DEF TypeOK
  <2>2. /\ out' \in Seq(Index)
        /\ DOMAIN out' = 1..(Len(out) + 1) /\ DOMAIN out = 1..Len(out) /\ Len(out) \in Nat
        /\ \A m \in 1..Len(out) : out'[m] = out[m]
        /\ out'[Len(out) + 1] = c
    BY <1>1, <1>2, <2>1
  <2>3. used' = {out'[m] : m \in DOMAIN out'}
    BY <1>2, <2>1, <2>2
  <2>4. \A l, m \in DOMAIN out' : out'[l] = out'[m] => l = m
    <3>1. \A m \in 1..Len(out) : out[m] # c
      BY <1>1, <2>1, <2>2
    <3> QED
      BY <2>2, <3>1 DEF TypeOK
  <2>5. order' \in Sorted'
    BY <1>2, <1>3 DEF TypeOK, Sorted, ByID
  <2>6. inDeg' \in [Index -> Nat]
    BY <1>2, <1>6
  <2>7. events' \in Inputs /\ pc' = "loop" /\ used' \subseteq Index
    BY <1>1, <1>2, <2>1 DEF TypeOK
  <2> QED
    BY <1>3, <2>2, <2>3, <2>4, <2>5, <2>6, <2>7 DEF TypeOK
<1>9. Cardinality(used') = Len(out')
  <2>1. IsFiniteSet(used)
    BY IndexFinite, FS_Subset DEF TypeOK
  <2>2. Cardinality(used \cup {c}) = Cardinality(used) + 1
    BY <1>1, <2>1, FS_AddElement
  <2>3. Len(out') = Len(out) + 1
    BY <1>2 DEF TypeOK
  <2> QED
    BY <1>2, <2>2, <2>3
<1>10. NoneBlocked'
  <2>1. Blocked' = Blocked
    BY <1>3 DEF Blocked
  <2>2. ASSUME NEW S \in Blocked PROVE c \notin S
    <3>1. S \cap used = {} /\ S \subseteq Index
      BY DEF NoneBlocked, Blocked
    <3>2. ASSUME c \in S PROVE FALSE
      <4>1. PICK i \in S : Edge(i, c)
        BY <3>2 DEF Blocked
      <4>2. i \in Waiting(c)
        BY <3>1, <4>1 DEF Waiting
      <4> QED
        BY <1>1, <4>2
    <3> QED
      BY <3>2
  <2> QED
    BY <1>2, <2>1, <2>2 DEF NoneBlocked
<1> QED
  BY <1>2, <1>7, <1>8, <1>9, <1>10 DEF RestWaits

(* Every step preserves the invariant. *)
LEMMA NextIInv == IInv /\ [Next]_vars => IInv'
<1> SUFFICES ASSUME IInv, [Next]_vars PROVE IInv'
  OBVIOUS
<1>1. CASE \E k \in Index : Emit(k)
  BY <1>1, EmitIInv
<1>2. CASE UNCHANGED vars
  <2>1. Index' = Index /\ \A i, j : Edge(i, j)' = Edge(i, j)
    BY <1>2 DEF vars, Index, Edge
  <2>2. \A j : Waiting(j)' = Waiting(j)
    BY <1>2, <2>1 DEF vars, Waiting
  <2>3. TypeOK'
    BY <1>2, <2>1 DEF IInv, vars, TypeOK, Sorted, ByID
  <2>4. Counts' /\ RestWaits'
    BY <1>2, <2>1, <2>2 DEF IInv, vars, Counts, RestWaits
  <2>5. NoneBlocked'
    BY <1>2, <2>1 DEF IInv, vars, NoneBlocked, Blocked
  <2> QED
    BY <1>2, <2>3, <2>4, <2>5 DEF IInv, vars
<1> QED
  BY <1>1, <1>2, BuildIInv, ReturnIInv DEF Next

(* The invariant holds throughout a sort. *)
LEMMA Inductive == Spec => []IInv
  BY InitIInv, NextIInv, PTL DEF Spec

-----------------------------------------------------------------------------
(* TopologicalSort keeps the types of its variables, and emits no event    *)
(* twice, for every slice and every HappensBefore.                         *)
THEOREM TypeCorrect == Spec => []TypeOK
<1>1. IInv => TypeOK
  BY DEF IInv
<1> QED
  BY <1>1, Inductive, PTL

(* partial_order.go:59-63: whatever HappensBefore is, the events that the  *)
(* result lacks are exactly those on a cycle or after one.                 *)
THEOREM ShortOnlyAtCycles == Spec => []StopsExactlyAtCycles
<1>1. IInv => StopsExactlyAtCycles
  <2> SUFFICES ASSUME IInv, pc = "done" PROVE used = Index \ Stuck
    BY DEF StopsExactlyAtCycles
  <2>1. used \subseteq Index
    BY DEF IInv, TypeOK
  <2>2. used \cap Stuck = {}
    BY DEF IInv, NoneBlocked, Stuck
  <2>3. \A j \in Index \ used : \E i \in Index \ used : Edge(i, j)
    BY DEF IInv, RestWaits, Waiting
  <2>4. Index \ used \in Blocked
    BY <2>3 DEF Blocked
  <2> QED
    BY <2>1, <2>2, <2>4 DEF Stuck
<1> QED
  BY <1>1, Inductive, PTL

(* TopologicalSort implements LinearExtension: each round emits an event   *)
(* whose predecessors have been emitted, and the loop ends only when there *)
(* is none.  (That it ends is checked by TLC.)                             *)
THEOREM ImplementsLinearExtension == Spec => Abstract!Safe
<1>1. Init => Abstract!Init
  BY DEF Init, Abstract!Init
<1>2. ASSUME IInv, [Next]_vars PROVE [Abstract!Next]_(Abstract!vars)
  <2> DEFINE before == {e \in Index \X Index : Edge(e[1], e[2])}
  <2>1. Abstract!Emitted = used
    BY <1>2 DEF IInv, TypeOK, Abstract!Emitted
  <2>2. \A i \in Index : Abstract!Ready(i) <=> i \notin used /\ Waiting(i) = {}
    BY <2>1 DEF Abstract!Ready, Waiting
  <2>3. CASE UNCHANGED vars
    <3>1. Index' = Index /\ before' = before
      BY <2>3 DEF vars, Index, Edge
    <3> QED
      BY <2>3, <3>1 DEF vars, Abstract!vars
  <2>4. CASE Build
    <3>1. Index' = Index /\ before' = before
      BY <2>4 DEF Build, Index, Edge
    <3>2. out' = out /\ (pc' = "done") = (pc = "done")
      BY <2>4 DEF Build
    <3> QED
      BY <3>1, <3>2 DEF Abstract!vars
  <2>5. CASE Return \/ ReturnNil
    <3>1. Index' = Index /\ before' = before /\ out' = out
      BY <2>5 DEF Return, ReturnNil, Index, Edge
    <3>2. pc # "done" /\ pc' = "done"
      BY <2>5 DEF Return, ReturnNil
    <3>3. \A i \in Index : ~Abstract!Ready(i)
      <4>1. IInv'
        BY <1>2, NextIInv
      <4>2. \A j \in Index \ used : Waiting(j)' # {}
        BY <3>1, <3>2, <4>1, <2>5 DEF IInv, RestWaits, Return, ReturnNil
      <4>3. \A j : Waiting(j)' = Waiting(j)
        BY <2>5 DEF Return, ReturnNil, Waiting, Index, Edge
      <4> QED
        BY <2>2, <4>2, <4>3
    <3>4. Abstract!Finish
      BY <3>1, <3>2, <3>3 DEF Abstract!Finish
    <3> QED
      BY <3>4 DEF Abstract!Next
  <2>6. ASSUME NEW k \in Index, Emit(k)
        PROVE  Abstract!Next
    <3>1. order[k] \in Index /\ Abstract!Ready(order[k])
      BY <1>2, <2>2, <2>6, EmitReady
    <3>2. Index' = Index /\ before' = before
      BY <2>6 DEF Emit, Index, Edge
    <3>3. pc # "done" /\ pc' = pc /\ out' = Append(out, order[k])
      BY <2>6 DEF Emit
    <3>4. Abstract!Emit(order[k])
      BY <3>1, <3>2, <3>3 DEF Abstract!Emit
    <3> QED
      BY <3>1, <3>4 DEF Abstract!Next
  <2> QED
    BY <1>2, <2>3, <2>4, <2>5, <2>6 DEF Next
<1> QED
  BY <1>1, <1>2, Inductive, PTL DEF Spec, Abstract!Safe

-----------------------------------------------------------------------------
(* Least elements.  The library states the least-number principle for      *)
(* operators; for sets it follows from well-foundedness.                   *)

(* Some relation is well-founded on Nat and is <. *)
LEMMA NatLess ==
  \E R : IsWellFoundedOn(R, Nat) /\ \A x, y \in Nat : <<x, y>> \in R <=> x < y
<1>1. \A x, y \in Nat : <<x, y>> \in OpToRel(<, Nat) <=> x < y
  BY Zenon DEF OpToRel
<1> QED
  BY <1>1, NatLessThanWellFounded, Zenon

(* A set of naturals that is not empty has a least element. *)
LEMMA LeastNat ==
  ASSUME NEW S, S \subseteq Nat, S # {}
  PROVE  \E n \in S : \A m \in S : n <= m
<1>1. PICK R : IsWellFoundedOn(R, Nat) /\ \A x, y \in Nat : <<x, y>> \in R <=> x < y
  BY NatLess, Zenon
<1>2. \E x \in S : \A y \in S : ~ (<<y, x>> \in R)
  <2>1. IsWellFoundedOn(R, Nat)
    BY <1>1, Zenon
  <2> QED
    BY ONLY <2>1, S \subseteq Nat, S # {}, WFMin
<1>3. \E x \in S : \A y \in S : ~ (y < x)
  BY <1>1, <1>2, Zenon
<1>4. \A x, y \in S : ~ (y < x) => x <= y
  BY SMT
<1> QED
  BY <1>3, <1>4, Zenon

(* A finite strict partial order has a minimal element. *)
LEMMA MinimalExists ==
  ASSUME NEW S, IsFiniteSet(S), S # {}, NEW R,
         \A x \in S : <<x, x>> \notin R,
         \A x, y, z \in S : <<x, y>> \in R /\ <<y, z>> \in R => <<x, z>> \in R
  PROVE  \E x \in S : \A y \in S : <<y, x>> \notin R
<1> DEFINE Below(x) == {y \in S : <<y, x>> \in R}
           size == [x \in S |-> Cardinality(Below(x))]
           sizes == {size[x] : x \in S}
<1>1. \A x \in S : IsFiniteSet(Below(x)) /\ Cardinality(Below(x)) \in Nat
  <2> TAKE x \in S
  <2>1. Below(x) \in SUBSET S
    OBVIOUS
  <2> QED
    BY <2>1, FS_Subset, FS_CardinalityType
<1>2. PICK n \in sizes : \A m \in sizes : n <= m
  <2>1. \A x \in S : size[x] \in Nat
    BY <1>1
  <2> HIDE DEF size
  <2>2. sizes \subseteq Nat /\ sizes # {}
    BY <2>1
  <2> HIDE DEF sizes
  <2> QED
    BY <2>2, LeastNat
<1>3. PICK x \in S : \A y \in S : size[x] <= size[y]
  <2> HIDE DEF size
  <2> QED
    BY <1>2
<1>4. ASSUME NEW y \in S, <<y, x>> \in R PROVE FALSE
  <2>1. Below(y) \subseteq Below(x) \ {y}
    BY <1>4
  <2>2. /\ IsFiniteSet(Below(x) \ {y})
        /\ Cardinality(Below(x) \ {y}) = Cardinality(Below(x)) - 1
    <3>1. IsFiniteSet(Below(x)) /\ y \in Below(x)
      BY <1>1, <1>4
    <3> QED
      BY <3>1, FS_RemoveElement
  <2>3. /\ size[x] = Cardinality(Below(x)) /\ size[y] = Cardinality(Below(y))
        /\ size[x] \in Nat /\ size[y] \in Nat
    BY <1>1
  <2> HIDE DEF Below, size
  <2>4. Cardinality(Below(y)) <= Cardinality(Below(x) \ {y})
    BY <2>1, <2>2, FS_Subset
  <2> QED
    BY <1>3, <2>2, <2>3, <2>4
<1> QED
  BY <1>4

(* In a slice whose stamps are partially ordered, every set of events has  *)
(* a first and a last one.                                                 *)
LEMMA ExtremesExist ==
  ASSUME events \in Inputs, PartialOrder, NEW S, S \subseteq Index, S # {}
  PROVE  /\ \E i \in S : \A j \in S : ~Edge(j, i)
         /\ \E i \in S : \A j \in S : ~Edge(i, j)
<1>1. IsFiniteSet(S)
  BY IndexFinite, FS_Subset
<1>2. \E i \in S : \A j \in S : ~Edge(j, i)
  <2> DEFINE R == {e \in S \X S : Edge(e[1], e[2])}
  <2>1. \A i, j \in S : <<i, j>> \in R <=> Edge(i, j)
    OBVIOUS
  <2>2. /\ \A i \in S : <<i, i>> \notin R
        /\ \A i, j, k \in S : <<i, j>> \in R /\ <<j, k>> \in R => <<i, k>> \in R
    <3>1. \A i \in S : ~Edge(i, i)
      BY DEF Edge
    <3> QED
      BY <2>1, <3>1 DEF PartialOrder
  <2> HIDE DEF R
  <2>3. \E i \in S : \A j \in S : <<j, i>> \notin R
    BY <1>1, <2>2, MinimalExists
  <2> QED
    BY <2>1, <2>3
<1>3. \E i \in S : \A j \in S : ~Edge(i, j)
  <2> DEFINE R == {e \in S \X S : Edge(e[2], e[1])}
  <2>1. \A i, j \in S : <<j, i>> \in R <=> Edge(i, j)
    OBVIOUS
  <2>2. /\ \A i \in S : <<i, i>> \notin R
        /\ \A i, j, k \in S : <<i, j>> \in R /\ <<j, k>> \in R => <<i, k>> \in R
    <3>1. \A i \in S : ~Edge(i, i)
      BY DEF Edge
    <3> QED
      BY <2>1, <3>1 DEF PartialOrder
  <2> HIDE DEF R
  <2>3. \E i \in S : \A j \in S : <<j, i>> \notin R
    BY <1>1, <2>2, MinimalExists
  <2> QED
    BY <2>1, <2>3
<1> QED
  BY <1>2, <1>3

-----------------------------------------------------------------------------
(* The order of the result.                                                *)

\* i is among the first m events of the result
Among(i, m) == \E k \in 1..m : out[k] = i

\* the events before the m-th of the result precede it there
Forward ==
  \A m \in 1..Len(out) : \A i \in Index : Edge(i, out[m]) => Among(i, m - 1)

\* the m-th event of the result is the least of those that could stand there
Greedy ==
  \A m \in 1..Len(out) : \A i \in Index :
    ~Among(i, m - 1) /\ (\A j \in Index : Edge(j, i) => Among(j, m - 1))
      => i = out[m] \/ Smaller(out[m], i)

OrderInv == Forward /\ Greedy

(* A round appends to the result the least event that is ready. *)
LEMMA EmitOrder ==
  ASSUME IInv, OrderInv, NEW k \in Index, Emit(k)
  PROVE  OrderInv'
<1> DEFINE c == order[k]
           l == Len(out)
<1>1. /\ c \in Index \ used /\ Waiting(c) = {}
  BY EmitReady
<1>2. /\ out' = Append(out, c) /\ events' = events /\ pc = "loop"
      /\ out \in Seq(Index) /\ used = {out[m] : m \in DOMAIN out}
  BY DEF Emit, IInv, TypeOK
<1>3. /\ l \in Nat /\ Len(out') = l + 1 /\ DOMAIN out = 1..l
      /\ \A m \in 1..l : out'[m] = out[m]
      /\ out'[l + 1] = c
  BY <1>1, <1>2
<1>4. /\ Index' = Index /\ (\A i, j : Edge(i, j)' = Edge(i, j))
      /\ \A i, j : Smaller(i, j)' = Smaller(i, j)
  BY <1>2 DEF Index, Edge, Smaller
<1>5. \A m \in 0..l : \A i : Among(i, m)' <=> Among(i, m)
  BY <1>3 DEF Among
<1>6. \A i : Among(i, l) <=> i \in used
  BY <1>2, <1>3 DEF Among
<1>7. \A i \in Index : Edge(i, c) => i \in used
  BY <1>1 DEF Waiting
<1>8. ASSUME NEW i \in Index, i \notin used,
             \A j \in Index : Edge(j, i) => j \in used
      PROVE  i = c \/ Smaller(c, i)
  <2>1. Waiting(i) = {}
    BY <1>8 DEF Waiting
  <2>2. inDeg[i] = 0
    BY <1>2, <2>1, FS_EmptySet DEF IInv, Counts
  <2>3. Available(i)
    BY <1>8, <2>2 DEF Available
  <2>4. order \in Sorted
    BY <1>2 DEF IInv, TypeOK
  <2>5. PICK m \in Index : order[m] = i
    BY <2>4 DEF Sorted
  <2>6. ~(m < k)
    BY <2>3, <2>5 DEF Emit, First
  <2>7. k \in Nat /\ m \in Nat
    BY IndexFinite DEF IInv, TypeOK
  <2>8. m = k \/ k < m
    BY <2>6, <2>7
  <2> QED
    BY <2>4, <2>5, <2>8 DEF Sorted, ByID, Smaller
<1> HIDE DEF c, l
<1>9. ASSUME NEW m \in 1..(l + 1)
      PROVE  m - 1 \in 0..l /\ (m \in 1..l \/ (m = l + 1 /\ m - 1 = l))
  <2>1. l \in Nat
    BY <1>3
  <2> QED
    BY <2>1
<1>10. Forward'
  <2> SUFFICES ASSUME NEW m \in 1..(l + 1), NEW i \in Index, Edge(i, out'[m])
               PROVE  Among(i, m - 1)
    BY <1>3, <1>4, <1>5, <1>9 DEF Forward
  <2> QED
    BY <1>3, <1>6, <1>7, <1>9 DEF OrderInv, Forward, l
<1>11. Greedy'
  <2> SUFFICES ASSUME NEW m \in 1..(l + 1), NEW i \in Index, ~Among(i, m - 1),
                      \A j \in Index : Edge(j, i) => Among(j, m - 1)
               PROVE  i = out'[m] \/ Smaller(out'[m], i)
    BY <1>3, <1>4, <1>5, <1>9 DEF Greedy
  <2>1. CASE m \in 1..l
    BY <2>1, <1>3 DEF OrderInv, Greedy, l
  <2>2. CASE m = l + 1 /\ m - 1 = l
    BY <2>2, <1>3, <1>6, <1>8
  <2> QED
    BY <1>9, <2>1, <2>2
<1> QED
  BY <1>10, <1>11 DEF OrderInv

(* The result is in order throughout a sort. *)
LEMMA InOrder == Spec => [](IInv /\ OrderInv)
<1>1. Init => OrderInv
  BY DEF Init, OrderInv, Forward, Greedy
<1>2. ASSUME IInv, OrderInv, [Next]_vars PROVE OrderInv'
  <2>1. CASE \E k \in Index : Emit(k)
    BY <1>2, <2>1, EmitOrder
  <2>2. CASE UNCHANGED <<events, out>>
    <3>1. /\ Index' = Index /\ Len(out') = Len(out)
          /\ \A i, j : Edge(i, j)' = Edge(i, j) /\ Smaller(i, j)' = Smaller(i, j)
          /\ \A i, m : Among(i, m)' = Among(i, m)
      BY <2>2 DEF Index, Edge, Smaller, Among
    <3>2. Forward'
      BY <1>2, <2>2, <3>1 DEF OrderInv, Forward
    <3>3. Greedy'
      BY <1>2, <2>2, <3>1 DEF OrderInv, Greedy
    <3> QED
      BY <3>2, <3>3 DEF OrderInv
  <2> QED
    BY <1>2, <2>1, <2>2 DEF Next, Build, Return, ReturnNil, vars
<1> QED
  BY <1>1, <1>2, Inductive, PTL DEF Spec

(* A complete result lists every index once. *)
LEMMA Complete ==
  ASSUME IInv, pc = "done", Stuck = {}
  PROVE  /\ used = Index /\ Len(out) = N /\ Index = 1..N /\ N \in Nat
         /\ out \in [Index -> Index]
         /\ \A i \in Index : \E k \in Index : out[k] = i
<1>1. used = Index
  <2>1. \A j \in Index \ used : \E i \in Index \ used : Edge(i, j)
    BY DEF IInv, RestWaits, Waiting
  <2>2. Index \ used \in Blocked
    BY <2>1 DEF Blocked
  <2>3. Index \ used \subseteq Stuck
    BY <2>2 DEF Stuck
  <2>4. used \subseteq Index
    BY DEF IInv, TypeOK
  <2> QED
    BY <2>3, <2>4
<1>2. Index = 1..N /\ N \in Nat /\ Cardinality(Index) = N
  BY IndexFinite DEF IInv, TypeOK
<1>3. Len(out) = N
  BY <1>1, <1>2 DEF IInv
<1>4. out \in Seq(Index) /\ used = {out[k] : k \in DOMAIN out}
  BY DEF IInv, TypeOK
<1>5. out \in [Index -> Index] /\ DOMAIN out = Index
  BY <1>2, <1>3, <1>4
<1>6. \A i \in Index : \E k \in Index : out[k] = i
  BY <1>1, <1>4, <1>5
<1> QED
  BY <1>1, <1>2, <1>3, <1>5, <1>6

(* TopologicalSort's comment: without cycles, the result is the linear     *)
(* extension of HappensBefore that is lexicographically least in the order *)
(* of the IDs, for every slice.                                            *)
THEOREM SortIsLeast == Spec => []LeastExtension
<1>1. ASSUME IInv, OrderInv PROVE LeastExtension
  <2> SUFFICES ASSUME pc = "done", Stuck = {}
               PROVE  /\ out \in Extensions
                      /\ \A q \in Extensions \ {out} :
                           \E k \in Index : /\ Smaller(out[k], q[k])
                                            /\ \A m \in 1..(k-1) : out[m] = q[m]
    BY DEF LeastExtension
  <2>1. /\ Len(out) = N /\ Index = 1..N /\ N \in Nat
        /\ out \in [Index -> Index]
        /\ \A i \in Index : \E k \in Index : out[k] = i
    BY <1>1, Complete
  <2>2. \A k, m \in Index : out[k] = out[m] => k = m
    BY <1>1, <2>1 DEF IInv, TypeOK
  <2>3. out \in Extensions
    <3>1. ASSUME NEW k \in Index, NEW m \in Index, Edge(out[k], out[m])
          PROVE  k < m
      <4>1. Among(out[k], m - 1)
        BY <1>1, <2>1, <3>1 DEF OrderInv, Forward
      <4>2. PICK n \in 1..(m - 1) : out[n] = out[k]
        BY <4>1 DEF Among
      <4> QED
        BY <2>1, <2>2, <4>2
    <3> QED
      BY <2>1, <3>1 DEF Extensions
  <2>4. ASSUME NEW q \in Extensions \ {out}
        PROVE  \E k \in Index : /\ Smaller(out[k], q[k])
                                /\ \A m \in 1..(k-1) : out[m] = q[m]
    <3>1. /\ q \in [Index -> Index]
          /\ \A i \in Index : \E k \in Index : q[k] = i
          /\ \A k, m \in Index : Edge(q[k], q[m]) => k < m
      BY <2>4 DEF Extensions
    <3>2. \A k, m \in Index : q[k] = q[m] => k = m
      <4>1. q \in Surjection(Index, Index)
        BY <3>1 DEF Surjection
      <4>2. q \in Injection(Index, Index)
        <5>1. IsFiniteSet(Index)
          BY <1>1, IndexFinite DEF IInv, TypeOK
        <5> QED
          BY <4>1, <5>1, FS_SurjSameCardinalityImpliesInj
      <4> QED
        BY <4>2 DEF Injection, IsInjective
    <3> DEFINE D == {k \in Index : out[k] # q[k]}
    <3>3. D \subseteq Nat /\ D # {}
      <4>1. Index \subseteq Nat
        BY <2>1
      <4>2. \E k \in Index : out[k] # q[k]
        BY <2>1, <2>4, <3>1
      <4> QED
        BY <4>1, <4>2
    <3>4. PICK k \in D : \A m \in D : k <= m
      <4> HIDE DEF D
      <4> QED
        BY <3>3, LeastNat
    <3>5. k \in 1..N /\ \A m \in 1..(k - 1) : m \in Index /\ out[m] = q[m]
      <4>1. k \in 1..N
        BY <2>1
      <4>2. ASSUME NEW m \in 1..(k - 1) PROVE m \in Index /\ ~(k <= m)
        <5>1. m \in 1..N /\ ~(k <= m)
          BY <2>1, <4>1
        <5> QED
          BY <2>1, <5>1
      <4> QED
        BY <3>4, <4>1, <4>2
    <3>6. ~Among(q[k], k - 1)
      BY <2>1, <3>2, <3>5 DEF Among
    <3>7. \A j \in Index : Edge(j, q[k]) => Among(j, k - 1)
      <4> SUFFICES ASSUME NEW j \in Index, Edge(j, q[k]) PROVE Among(j, k - 1)
        OBVIOUS
      <4>1. PICK m \in Index : q[m] = j
        BY <3>1
      <4>2. m < k
        BY <3>1, <3>5, <4>1, <2>1
      <4>3. m \in 1..(k - 1)
        BY <2>1, <3>5, <4>2
      <4> QED
        BY <3>5, <4>1, <4>3 DEF Among
    <3>8. q[k] = out[k] \/ Smaller(out[k], q[k])
      <4>1. q[k] \in Index /\ k \in 1..Len(out)
        BY <2>1, <3>1, <3>5
      <4> QED
        BY <1>1, <3>6, <3>7, <4>1 DEF OrderInv, Greedy
    <3> QED
      BY <2>1, <3>4, <3>5, <3>8
  <2> QED
    BY <2>3, <2>4
<1> QED
  BY <1>1, InOrder, PTL

(* By a partial order no set of events waits for itself. *)
LEMMA NoneStuck ==
  ASSUME IInv, PartialOrder
  PROVE  Stuck = {}
<1> SUFFICES ASSUME NEW S \in Blocked, S # {} PROVE FALSE
  BY DEF Stuck
<1>1. S \subseteq Index /\ \A j \in S : \E i \in S : Edge(i, j)
  BY DEF Blocked
<1>2. \E j \in S : \A i \in S : ~Edge(i, j)
  BY <1>1, ExtremesExist DEF IInv, TypeOK
<1> QED
  BY <1>1, <1>2

(* MaximalElements and MinimalElements: the frontier and the roots of a    *)
(* partially ordered slice account for every event, and a sort begins at a *)
(* root and ends at the frontier.                                          *)
THEOREM FrontierIsComplete == Spec => []FrontierCovers
<1>1. ASSUME IInv, PartialOrder PROVE Stuck = {}
  BY <1>1, NoneStuck
<1>2. ASSUME IInv, PartialOrder, NEW i \in Index
      PROVE  /\ i \in MaximalElements \/ \E j \in MaximalElements : Edge(i, j)
             /\ i \in MinimalElements \/ \E j \in MinimalElements : Edge(j, i)
  <2>1. i \in MaximalElements \/ \E j \in MaximalElements : Edge(i, j)
    <3> DEFINE S == {j \in Index : Edge(i, j)}
    <3> SUFFICES ASSUME i \notin MaximalElements
                 PROVE  \E j \in MaximalElements : Edge(i, j)
      OBVIOUS
    <3>1. S \subseteq Index /\ S # {}
      BY DEF MaximalElements
    <3>2. PICK j \in S : \A m \in S : ~Edge(j, m)
      <4> HIDE DEF S
      <4> QED
        BY <1>2, <3>1, ExtremesExist DEF IInv, TypeOK
    <3> QED
      BY <1>2, <3>2 DEF MaximalElements, PartialOrder
  <2>2. i \in MinimalElements \/ \E j \in MinimalElements : Edge(j, i)
    <3> DEFINE S == {j \in Index : Edge(j, i)}
    <3> SUFFICES ASSUME i \notin MinimalElements
                 PROVE  \E j \in MinimalElements : Edge(j, i)
      OBVIOUS
    <3>1. S \subseteq Index /\ S # {}
      BY DEF MinimalElements
    <3>2. PICK j \in S : \A m \in S : ~Edge(m, j)
      <4> HIDE DEF S
      <4> QED
        BY <1>2, <3>1, ExtremesExist DEF IInv, TypeOK
    <3> QED
      BY <1>2, <3>2 DEF MinimalElements, PartialOrder
  <2> QED
    BY <2>1, <2>2
<1>3. ASSUME IInv, OrderInv, PartialOrder, pc = "done", N > 0
      PROVE  out[1] \in MinimalElements /\ out[N] \in MaximalElements
  <2>1. /\ Len(out) = N /\ Index = 1..N /\ N \in Nat
        /\ out \in [Index -> Index]
        /\ \A i \in Index : \E k \in Index : out[k] = i
        /\ \A k, m \in Index : out[k] = out[m] => k = m
    BY <1>1, <1>3, Complete DEF IInv, TypeOK
  <2>2. ASSUME NEW i \in Index, Edge(i, out[1]) PROVE FALSE
    BY <1>3, <2>1, <2>2 DEF OrderInv, Forward, Among
  <2>3. ASSUME NEW i \in Index, Edge(out[N], i) PROVE FALSE
    <3>1. PICK m \in Index : out[m] = i
      BY <2>1
    <3>2. Among(out[N], m - 1)
      <4>1. m \in 1..Len(out) /\ out[N] \in Index /\ Edge(out[N], out[m])
        BY <1>3, <2>1, <2>3, <3>1
      <4>2. Forward
        BY <1>3 DEF OrderInv
      <4> QED
        BY <4>1, <4>2 DEF Forward
    <3>3. PICK k \in 1..(m - 1) : out[k] = out[N]
      BY <3>2 DEF Among
    <3> QED
      BY <1>3, <2>1, <3>3
  <2>4. 1 \in Index /\ N \in Index
    BY <1>3, <2>1
  <2>5. out[1] \in Index /\ out[N] \in Index
    BY <2>1, <2>4
  <2> QED
    BY <2>2, <2>3, <2>5 DEF MinimalElements, MaximalElements
<1>4. IInv /\ OrderInv => FrontierCovers
  BY <1>2, <1>3 DEF FrontierCovers
<1> QED
  BY <1>4, InOrder, PTL

-----------------------------------------------------------------------------
(* The adapters.                                                           *)

IsMap(v) == \A n \in DOMAIN v : v[n] \in Nat

(* Compare on two maps of counters, zero where they have no entry. *)
LEMMA CompareMaps ==
  ASSUME NEW a, NEW b, IsMap(a), IsMap(b)
  PROVE  /\ Compare(a, b) = "Equal" <=> LessOrEq(a, b) /\ LessOrEq(b, a)
         /\ Compare(a, b) = "Before" <=> LessOrEq(a, b) /\ ~LessOrEq(b, a)
         /\ Compare(a, b) = "Concurrent" <=> ~LessOrEq(a, b) /\ ~LessOrEq(b, a)
<1>1. GreaterOrEq(a, b) <=> LessOrEq(b, a)
  BY DEF IsMap, GreaterOrEq, LessOrEq, Get
<1>2. CASE LessOrEq(a, b) /\ LessOrEq(b, a)
  BY <1>1, <1>2 DEF Compare
<1>3. CASE LessOrEq(a, b) /\ ~LessOrEq(b, a)
  BY <1>1, <1>3 DEF Compare
<1>4. CASE ~LessOrEq(a, b) /\ LessOrEq(b, a)
  BY <1>1, <1>4 DEF Compare
<1>5. CASE ~LessOrEq(a, b) /\ ~LessOrEq(b, a)
  BY <1>1, <1>5 DEF Compare
<1> QED
  BY <1>2, <1>3, <1>4, <1>5

(* The first loop of Compare decides a preorder on the maps. *)
LEMMA LessOrEqPreorder ==
  ASSUME NEW a, NEW b, NEW c, IsMap(a), IsMap(b), IsMap(c)
  PROVE  /\ LessOrEq(a, a)
         /\ LessOrEq(a, b) /\ LessOrEq(b, c) => LessOrEq(a, c)
<1>1. LessOrEq(a, a)
  BY DEF IsMap, LessOrEq, Get
<1>2. ASSUME LessOrEq(a, b), LessOrEq(b, c), NEW k \in DOMAIN a
      PROVE  a[k] <= Get(c, k)
  <2>1. a[k] \in Nat /\ Get(b, k) \in Nat /\ Get(c, k) \in Nat
    BY DEF IsMap, Get
  <2>2. a[k] <= Get(b, k) /\ Get(b, k) <= Get(c, k)
    BY <1>2, <2>1 DEF LessOrEq, Get
  <2> QED
    BY <2>1, <2>2
<1> QED
  BY <1>1, <1>2 DEF LessOrEq

(* What HappensBefore and Concurrent say of stamps of each type. *)
LEMMA AdapterCases ==
  ASSUME NEW a, NEW b
  PROVE  /\ a.type # b.type => ~HappensBefore(a, b) /\ ~Concurrent(a, b)
         /\ a.type = "Lamport" /\ b.type = "Lamport" =>
              /\ HappensBefore(a, b) <=> a.value < b.value
              /\ Concurrent(a, b) <=> a.value = b.value
         /\ a.type = "HLC" /\ b.type = "HLC" =>
              /\ HappensBefore(a, b) <=> HLCLess(a.value, b.value)
              /\ Concurrent(a, b) <=> a.value = b.value
         /\ a.type = "Vector" /\ b.type = "Vector" =>
              /\ HappensBefore(a, b) <=> Compare(a.value, b.value) = "Before"
              /\ Concurrent(a, b) <=> Compare(a.value, b.value) = "Concurrent"
BY DEF HappensBefore, Concurrent

\* what AdaptersAgree says of three stamps
Agree(a, b, c) ==
  /\ ~HappensBefore(a, a)
  /\ HappensBefore(a, b) /\ HappensBefore(b, c) => HappensBefore(a, c)
  /\ Concurrent(a, b) => /\ Concurrent(b, a)
                         /\ ~HappensBefore(a, b)
  /\ a.type = b.type <=>
       \/ HappensBefore(a, b) \/ HappensBefore(b, a) \/ Concurrent(a, b)
       \/ /\ {a.type, b.type} = {"Vector"}
          /\ Compare(a.value, b.value) = "Equal"

(* The adapters agree on any three stamps of their own types. *)
LEMMA StampsAgree ==
  ASSUME NEW a, NEW b, NEW c, IsStamp(a), IsStamp(b), IsStamp(c),
         "Foreign" \notin {a.type, b.type, c.type}
  PROVE  Agree(a, b, c)
<1>1. CASE a.type = "Lamport"
  <2>1. ~HappensBefore(a, a)
    BY <1>1, AdapterCases DEF IsStamp
  <2>2. HappensBefore(a, b) /\ HappensBefore(b, c) => HappensBefore(a, c)
    BY <1>1, AdapterCases DEF IsStamp
  <2>3. CASE b.type = "Lamport"
    BY <1>1, <2>1, <2>2, <2>3, AdapterCases DEF IsStamp, Agree
  <2>4. CASE b.type # "Lamport"
    BY <1>1, <2>1, <2>2, <2>4, AdapterCases DEF Agree
  <2> QED
    BY <2>3, <2>4
<1>2. CASE a.type = "HLC"
  <2>1. ~HappensBefore(a, a)
    BY <1>2, AdapterCases DEF IsStamp, HLCLess
  <2>2. HappensBefore(a, b) /\ HappensBefore(b, c) => HappensBefore(a, c)
    BY <1>2, AdapterCases DEF IsStamp, HLCLess
  <2>3. CASE b.type = "HLC"
    BY <1>2, <2>1, <2>2, <2>3, AdapterCases DEF IsStamp, HLCLess, Agree
  <2>4. CASE b.type # "HLC"
    BY <1>2, <2>1, <2>2, <2>4, AdapterCases DEF Agree
  <2> QED
    BY <2>3, <2>4
<1>3. CASE a.type = "Vector"
  <2>0. IsMap(a.value)
    BY <1>3 DEF IsStamp, IsMap
  <2>1. ~HappensBefore(a, a)
    BY <1>3, <2>0, AdapterCases, CompareMaps
  <2>2. HappensBefore(a, b) /\ HappensBefore(b, c) => HappensBefore(a, c)
    <3> SUFFICES ASSUME HappensBefore(a, b), HappensBefore(b, c)
                 PROVE  HappensBefore(a, c)
      OBVIOUS
    <3>1. b.type = "Vector" /\ c.type = "Vector"
      BY <1>3, AdapterCases
    <3>2. IsMap(b.value) /\ IsMap(c.value)
      BY <3>1 DEF IsStamp, IsMap
    <3>3. /\ LessOrEq(a.value, b.value) /\ ~LessOrEq(b.value, a.value)
          /\ LessOrEq(b.value, c.value)
      BY <1>3, <2>0, <3>1, <3>2, AdapterCases, CompareMaps
    <3>4. LessOrEq(a.value, c.value) /\ ~LessOrEq(c.value, a.value)
      BY <2>0, <3>2, <3>3, LessOrEqPreorder
    <3> QED
      BY <1>3, <2>0, <3>1, <3>2, <3>4, AdapterCases, CompareMaps
  <2>3. CASE b.type = "Vector"
    <3>1. IsMap(b.value)
      BY <2>3 DEF IsStamp, IsMap
    <3> QED
      BY <1>3, <2>0, <2>1, <2>2, <2>3, <3>1, AdapterCases, CompareMaps DEF Agree
  <2>4. CASE b.type # "Vector"
    BY <1>3, <2>1, <2>2, <2>4, AdapterCases DEF Agree
  <2> QED
    BY <2>3, <2>4
<1> QED
  BY <1>1, <1>2, <1>3 DEF IsStamp

(* The adapters give one strict partial order, also over mixed types. *)
THEOREM AdaptersAreOrders == Spec => []AdaptersAgree
<1>1. ASSUME IInv, NEW i \in Index, NEW j \in Index, NEW k \in Index,
             "Foreign" \notin {events[i].Stamp.type, events[j].Stamp.type,
                              events[k].Stamp.type}
      PROVE  Agree(events[i].Stamp, events[j].Stamp, events[k].Stamp)
  BY <1>1, StampsAgree, StampsAssumption DEF IInv, TypeOK, Index
<1>2. IInv => AdaptersAgree
  BY <1>1 DEF AdaptersAgree, Agree
<1> QED
  BY <1>2, Inductive, PTL

\* no stamp is of a type that the package does not define
OnlyAdapters == \A i \in Index : events[i].Stamp.type # "Foreign"

(* A sort of stamps of the package is never short: they are partially      *)
(* ordered, so that no event waits for ever.                               *)
THEOREM AdaptersSortCompletely ==
  Spec => [](pc = "done" /\ OnlyAdapters => used = Index)
<1>1. ASSUME IInv, OnlyAdapters
      PROVE  PartialOrder
  <2> SUFFICES ASSUME NEW i \in Index, NEW j \in Index, NEW k \in Index,
                      Edge(i, j), Edge(j, k)
               PROVE  Edge(i, k)
    BY DEF PartialOrder
  <2>1. Agree(events[i].Stamp, events[j].Stamp, events[k].Stamp)
    BY <1>1, StampsAgree, StampsAssumption DEF IInv, TypeOK, Index, OnlyAdapters
  <2> QED
    BY <2>1 DEF Edge, Agree
<1>2. IInv /\ StopsExactlyAtCycles => (pc = "done" /\ OnlyAdapters => used = Index)
  BY <1>1, NoneStuck DEF StopsExactlyAtCycles
<1> QED
  BY <1>2, Inductive, ShortOnlyAtCycles, PTL
=============================================================================
