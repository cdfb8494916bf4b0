------------------------------ MODULE MCRateLog ------------------------------
(***************************************************************************)
(* Intervals of three seconds, of half a second and of two fifths.         *)
(***************************************************************************)
EXTENDS RateLog

MCIntervals == {<<3, 1>>, <<1, 2>>, <<2, 5>>}
=============================================================================
