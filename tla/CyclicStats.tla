----------------------------- MODULE CyclicStats -----------------------------
(***************************************************************************)
(* The statistics EcMaster::RunOneCycle keeps of the process data cycles.  *)
(*                                                                         *)
(* All counters are words of uint32_t; WordSize makes the number of their  *)
(* values a constant, so that the wrap-around is within reach, and a time  *)
(* is cut to a word before it is used.  The statistics and                 *)
(* last_cycle_time_ live as long as the EcMaster: neither Close nor a new  *)
(* Initialize resets them, so the first cycle of a later session measures  *)
(* the gap since the last cycle of the session before.                     *)
(***************************************************************************)
EXTENDS Naturals, Sequences, FiniteSetsExt

CONSTANTS
  WordSize,  \* the number of values of a counter, 2^32 in the code
  Elapsed,   \* the times between two cycles of one session, in microseconds; 0 when
             \* two exchanges follow each other within a microsecond
  Gap,       \* the time between two sessions
  MaxCycles  \* bound on the cycles of a behaviour

ASSUME StatsAssumption ==
  WordSize \in Nat \ {0, 1} /\ Elapsed \subseteq Nat /\ Gap \in Nat

VARIABLES
  stats,      \* stats_
  timed,      \* last_cycle_time_ is set
  first,      \* the next cycle is the first of its session
  halted,     \* RunOneCycle has ended the process
  intervals,  \* history: the intervals measured
  pauses,     \* history: which of the intervals lie between two sessions
  total,      \* history: the sum of the intervals
  mismatches  \* history: whether each cycle missed the expected WKC

vars == <<stats, timed, first, halted, intervals, pauses, total, mismatches>>

Word(n) == n % WordSize

CyclicStats == [cycle_count |-> 0, wkc_mismatch_count |-> 0, consecutive_wkc_mismatch |-> 0,
                min_cycle_us |-> 0, max_cycle_us |-> 0, avg_cycle_us |-> 0]

Init == /\ stats = CyclicStats
        /\ timed = FALSE /\ first = TRUE /\ halted = FALSE
        /\ intervals = <<>> /\ pauses = {} /\ total = 0 /\ mismatches = <<>>

(* The number of cycles, this one included, that the average divides by.   *)
Divisor(s) == Word(s.cycle_count + 1)

(* Mutant: the minimum starts from 0 like the maximum.                     *)
MeasuredFromZero(s, elapsed) ==
  [s EXCEPT
     !.min_cycle_us = IF elapsed < @ THEN elapsed ELSE @,
     !.max_cycle_us = IF elapsed > @ THEN elapsed ELSE @,
     !.avg_cycle_us = Word(@ * s.cycle_count + elapsed) \div Divisor(s)]

(* Mutant: a new minimum is not looked at for the maximum.                 *)
MeasuredElseIf(s, elapsed) ==
  LET shortest == s.min_cycle_us = 0 \/ elapsed < s.min_cycle_us IN
  [s EXCEPT
     !.min_cycle_us = IF shortest THEN elapsed ELSE @,
     !.max_cycle_us = IF ~shortest /\ elapsed > @ THEN elapsed ELSE @,
     !.avg_cycle_us = Word(@ * s.cycle_count + elapsed) \div Divisor(s)]

(* Mutant: the sum of n intervals is divided by n - 1.                     *)
MeasuredShort(s, elapsed) ==
  [s EXCEPT
     !.min_cycle_us = IF @ = 0 \/ elapsed < @ THEN elapsed ELSE @,
     !.max_cycle_us = IF elapsed > @ THEN elapsed ELSE @,
     !.avg_cycle_us = Word(@ * s.cycle_count + elapsed) \div s.cycle_count]

(* An interval is measured; 0 stands for "no minimum yet".                 *)
Measured(s, elapsed) ==
  [s EXCEPT
     !.min_cycle_us = IF @ = 0 \/ elapsed < @ THEN elapsed ELSE @,
     !.max_cycle_us = IF elapsed > @ THEN elapsed ELSE @,
     !.avg_cycle_us = Word(@ * s.cycle_count + elapsed) \div Divisor(s)]

(* Mutant: a good cycle does not end a run of mismatches.                  *)
CountedWithoutReset(s, mismatch) ==
  [s EXCEPT
     !.cycle_count = Word(@ + 1),
     !.wkc_mismatch_count = IF mismatch THEN Word(@ + 1) ELSE @,
     !.consecutive_wkc_mismatch = IF mismatch THEN Word(@ + 1) ELSE @]

Counted(s, mismatch) ==
  [s EXCEPT
     !.cycle_count = Word(@ + 1),
     !.wkc_mismatch_count = IF mismatch THEN Word(@ + 1) ELSE @,
     !.consecutive_wkc_mismatch = IF mismatch THEN Word(@ + 1) ELSE 0]

(* The very first cycle has no interval.  A division by zero is undefined; *)
(* on the targets of this library it raises a signal that ends the process. *)
RunOneCycle(elapsed, mismatch) ==
  /\ ~halted /\ Len(mismatches) < MaxCycles
  /\ timed' = TRUE /\ first' = FALSE
  /\ IF timed /\ Divisor(stats) = 0
       THEN halted' = TRUE /\ UNCHANGED <<stats, intervals, pauses, total, mismatches>>
       ELSE /\ stats' = Counted(IF timed THEN Measured(stats, Word(elapsed)) ELSE stats, mismatch)
            /\ intervals' = IF timed THEN Append(intervals, elapsed) ELSE intervals
            /\ pauses' = IF timed /\ first THEN pauses \cup {Len(intervals) + 1} ELSE pauses
            /\ total' = IF timed THEN total + elapsed ELSE total
            /\ mismatches' = Append(mismatches, mismatch)
            /\ UNCHANGED halted

(* Stop, and all the way up to Operational again.                          *)
NewSession == /\ ~first /\ ~halted
              /\ first' = TRUE
              /\ UNCHANGED <<stats, timed, halted, intervals, pauses, total, mismatches>>

Next == \/ \E elapsed \in (IF first THEN {Gap} ELSE Elapsed), mismatch \in BOOLEAN :
             RunOneCycle(elapsed, mismatch)
        \/ NewSession

Spec == Init /\ [][Next]_vars

(***************************************************************************)
(* Properties.                                                             *)
(***************************************************************************)
(* No late cycle is missed: whatever sessions, pauses and short cycles     *)
(* come before and after it, max_cycle_us is at least its time.            *)
NoLateCycleHidden ==
  \A i \in DOMAIN intervals \ pauses : intervals[i] <= stats.max_cycle_us

(* No short cycle is missed, and none is made up: min_cycle_us is at least *)
(* 1 and at most the time of every cycle measured since the last interval  *)
(* of 0, which RunOneCycle takes for "no minimum yet" and which makes it   *)
(* forget the cycles before.                                               *)
NoShortCycleHidden ==
  \A i \in DOMAIN intervals \ pauses :
    (\A j \in i..Len(intervals) : Word(intervals[j]) # 0)
      => stats.min_cycle_us \in 1..intervals[i]

(* ec_master.h calls the two extremes the minimum and the maximum cycle    *)
(* time: each is 0, or the time of a cycle.                                *)
ExtremesAreCycleTimes ==
  {stats.min_cycle_us, stats.max_cycle_us}
    \subseteq {0} \cup {intervals[i] : i \in DOMAIN intervals \ pauses}

(* consecutive_wkc_mismatch is the length of the run of mismatches that    *)
(* ends with the last cycle, and it survives a restart.                    *)
ConsecutiveIsTrailingRun ==
  LET n == Len(mismatches)
      Trailing(k) == \A i \in (n - k + 1)..n : mismatches[i]
  IN  stats.consecutive_wkc_mismatch = Max({k \in 0..n : Trailing(k)})

(* The first cycle counts without an interval and every division truncates *)
(* what the next one multiplies again, so the average may fall behind the  *)
(* true mean; it never exceeds it.                                         *)
AverageNotAboveMean == stats.avg_cycle_us * Len(intervals) <= total

(* "Execute one exchange of process data": the cycle comes back.           *)
CycleReturns == ~halted
=============================================================================
