------------------------- MODULE MCCyclicActivities -------------------------
(* Counts below 4: empty tables, one and two entries, and the largest one. *)
EXTENDS CyclicActivities

MCThreads == {Owner, Cycle}
MCCounts == 0..3
=============================================================================
