----------------------------- MODULE MCOrdering -----------------------------
(* A small instance of Ordering for TLC.                                   *)
EXTENDS Ordering, TLC

CONSTANTS n1, n2

\* two stamps of each total order, and four vectors in every relation
AdapterStamps ==
  {LamportStamp(1), LamportStamp(2), HLCStamp(1, 1), HLCStamp(2, 0)}
  \cup {NewVectorStamp(v) : v \in {EmptyVector, n1 :> 1, n2 :> 1 @@ n1 :> 0, n1 :> 1 @@ n2 :> 1}}

\* a cycle of three, one event before it and two after it; not transitive
Cyclic == {<<0, 1>>, <<1, 2>>, <<2, 3>>, <<3, 1>>, <<3, 4>>, <<4, 5>>}
ForeignStamps == {ForeignStamp(x) : x \in 0..5}

Event(ids, stamps) == [ID : ids, Stamp : stamps]

SmallSlices ==
  UNION {[1..n -> Event(1..2, AdapterStamps)] : n \in 0..3}
  \cup [1..4 -> Event({1}, ForeignStamps)]
  \cup [1..3 -> Event(1..3, ForeignStamps)]
=============================================================================
