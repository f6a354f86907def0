--------------------------- MODULE MCVectorClock ---------------------------
(* A small instance of VectorClock for TLC.                                *)
EXTENDS VectorClock, TLC

CONSTANTS n1, n2, n3

ThreeNodes == {n1, n2, n3}

\* New, or a map that lists two of the nodes at zero
EmptyOrPair == {EmptyVector, [n \in {n1, n2} |-> 0]}
=============================================================================
