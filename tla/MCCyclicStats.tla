---------------------------- MODULE MCCyclicStats ----------------------------
(* Two exchanges within a microsecond, a short, a nominal, a late cycle.   *)
EXTENDS CyclicStats

MCElapsed == {0, 2, 8, 13}
=============================================================================
