------------------------------ MODULE MCDotted ------------------------------
(* Small instances of Dotted for TLC.                                      *)
EXTENDS Dotted, TLC

CONSTANTS s1, s2, s3, a1, a2

TwoSessions == {s1, s2}
ThreeSessions == {s1, s2, s3}
OneActor == {a1}
TwoActors == {a1, a2}
Symmetry == Permutations(Node) \cup Permutations(Actor)
=============================================================================
