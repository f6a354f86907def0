---------------------------- MODULE MCNTPSource ----------------------------
(* A small instance of NTPSource for TLC.                                  *)
EXTENDS NTPSource, TLC

\* slow by the whole dispersion, fast by half a unit
Errors == {-2, 1}
\* the fraction is lost, most of the seconds, or the whole field
Lost == {2, 8, 64}
ZeroOrBehind == {-3, 0}
=============================================================================
