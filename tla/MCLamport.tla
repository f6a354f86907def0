----------------------------- MODULE MCLamport -----------------------------
(* A small instance of Lamport for TLC.                                    *)
EXTENDS Lamport, TLC

CONSTANTS n1, n2, n3

ThreeNodes == {n1, n2, n3}
ResetAnywhere == {0, 2}
Symmetry == Permutations(Node)
=============================================================================
