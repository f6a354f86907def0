--------------------------- MODULE MCVectorStore ---------------------------
(* A small instance of VectorStore and VectorEncode for TLC.               *)
EXTENDS VectorStore, VectorEncode, TLC

CONSTANTS n1, n2

TwoNodes == {n1, n2}
Symmetry == Permutations(Node)

\* New, or a map that lists every node at zero
EmptyOrFull == {EmptyVector, [n \in Node |-> 0]}

\* IDs that are empty, that begin alike, that look like a length or a value,
\* and one that is too long for a length of one byte
Strings == {<<>>, <<1>>, <<1, 0>>, <<0, 1, 0>>}
AllNamings == {name \in [Node -> Strings] : \A n, m \in Node : name[n] = name[m] => n = m}
=============================================================================
