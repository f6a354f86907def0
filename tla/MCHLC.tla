------------------------------- MODULE MCHLC -------------------------------
(* A small instance of HLC and HLCEncode for TLC.                          *)
EXTENDS HLCEncode, TLC

CONSTANTS n1, n2

TwoNodes == {n1, n2}
Symmetry == Permutations(Node)

\* neighbours are within and beyond the drift bound of each other; the sum
\* of the last and the bound overflows
Readings == {0, 2, 6}

\* a timestamp at the limit of the earliest reading, one at the limit of the
\* next, and one from before 1970, which even the overflow lets through
Invented ==
  {[WallTime |-> 2, Logical |-> 1], [WallTime |-> 4, Logical |-> 0],
   [WallTime |-> -8, Logical |-> 2]}
=============================================================================
