---------------------------- MODULE MCNTPRefresh ----------------------------
(* A small instance of NTPRefresh for TLC.                                 *)
EXTENDS NTPRefresh, TLC

CONSTANTS c1, c2

TwoCallers == {c1, c2}
=============================================================================
