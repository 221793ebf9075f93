---------------------------- MODULE MCCommandLine ----------------------------
(* Counts below 4: an empty table, one entry, and the largest count.       *)
EXTENDS CommandLine

MCCounts == {0, 1, 3}
=============================================================================
