-------------------------- MODULE CyclicStatsProofs --------------------------
(***************************************************************************)
(* Theorems about CyclicStats, for every size of the counters and every    *)
(* set of cycle times.                                                     *)
(***************************************************************************)
EXTENDS CyclicStats, SequenceTheorems, TLAPS

(***************************************************************************)
(* The inductive invariant.                                                *)
(***************************************************************************)
CounterType ==
  /\ stats \in [cycle_count : Nat, wkc_mismatch_count : Nat,
                consecutive_wkc_mismatch : Nat,
                min_cycle_us : Nat, max_cycle_us : Nat, avg_cycle_us : Nat]
  /\ intervals \in Seq(Nat) /\ total \in Nat

FlagType == /\ timed \in BOOLEAN /\ first \in BOOLEAN /\ halted \in BOOLEAN
            /\ mismatches \in Seq(BOOLEAN)

(* The cycle counter is exact: before it could wrap, the division by zero  *)
(* has ended the process.                                                  *)
CountsCycles ==
  /\ stats.cycle_count = Len(mismatches) /\ stats.cycle_count < WordSize
  /\ timed => Len(intervals) + 1 = Len(mismatches)
  /\ ~timed => Len(intervals) = 0 /\ Len(mismatches) = 0

(* The run of mismatches is as long as counted, and no longer.             *)
TrailingRun(n, k) ==
  /\ k \in 0..n
  /\ \A i \in (n - k + 1)..n : mismatches[i]
  /\ k < n => ~mismatches[n - k]

RunIsCounted == TrailingRun(Len(mismatches), stats.consecutive_wkc_mismatch)

(* The average times the number of cycles it is multiplied with next.      *)
AverageBelow ==
  /\ stats.avg_cycle_us * stats.cycle_count <= total
  /\ ~timed => stats.avg_cycle_us = 0

IInv == CounterType /\ FlagType /\ CountsCycles /\ RunIsCounted /\ AverageBelow

(***************************************************************************)
(* Words, divisions, sequences.                                            *)
(***************************************************************************)
LEMMA WordRange ==
  ASSUME NEW n \in Nat
  PROVE  /\ Word(n) \in Nat /\ Word(n) < WordSize /\ Word(n) <= n
         /\ n < WordSize => Word(n) = n
         /\ n = WordSize => Word(n) = 0
  BY StatsAssumption DEF Word

LEMMA QuotientTimesDivisor ==
  ASSUME NEW n \in Nat, NEW d \in Nat, d > 0
  PROVE  n \div d \in Nat /\ (n \div d) * d <= n
  BY SMT

LEMMA Appended ==
  ASSUME NEW S, NEW seq \in Seq(S), NEW e \in S
  PROVE  /\ Append(seq, e) \in Seq(S)
         /\ Len(Append(seq, e)) = Len(seq) + 1
         /\ Append(seq, e)[Len(seq) + 1] = e
         /\ \A i \in 1..Len(seq) : Append(seq, e)[i] = seq[i]
         /\ Append(seq, e) # <<>>
  BY AppendProperties

(* The only counter that could wrap stands still: a cycle that does not    *)
(* end the process leaves room for the count.                              *)
LEMMA RoomForTheCount ==
  ASSUME CounterType, CountsCycles, timed => Divisor(stats) # 0
  PROVE  /\ stats.cycle_count + 1 < WordSize
         /\ Word(stats.cycle_count + 1) = stats.cycle_count + 1
  <1> DEFINE n == stats.cycle_count
  <1>1. n \in Nat /\ n < WordSize /\ WordSize \in Nat /\ WordSize > 1
    BY StatsAssumption DEF CounterType, CountsCycles
  <1>2. n + 1 # WordSize
    <2>1. CASE timed
      BY <1>1, <2>1, WordRange DEF Divisor
    <2>2. CASE ~timed
      BY <1>1, <2>2 DEF CountsCycles
    <2> QED
      BY <2>1, <2>2
  <1>3. n + 1 < WordSize /\ n + 1 \in Nat
    BY <1>1, <1>2
  <1> QED
    BY <1>3, WordRange

(* Whatever the truncations, a measurement does not lift the average       *)
(* above the mean: the quotient times the divisor is at most the dividend, *)
(* and a word at most the number it was cut from.                          *)
LEMMA AverageGrowsSlowly ==
  ASSUME NEW avg \in Nat, NEW n \in Nat, NEW elapsed \in Nat, NEW sum \in Nat,
         avg * n <= sum
  PROVE  LET next == Word(avg * n + Word(elapsed)) \div (n + 1) IN
         next \in Nat /\ next * (n + 1) <= sum + elapsed
  <1> DEFINE dividend == avg * n + Word(elapsed)
  <1>1. Word(elapsed) \in Nat /\ Word(elapsed) <= elapsed
    BY WordRange
  <1>2. avg * n \in Nat
    OBVIOUS
  <1>3. dividend \in Nat /\ dividend <= sum + elapsed
    BY <1>1, <1>2
  <1> HIDE DEF dividend
  <1>4. Word(dividend) \in Nat /\ Word(dividend) <= dividend
    BY <1>3, WordRange
  <1> DEFINE q == Word(dividend) \div (n + 1)
  <1>5. q \in Nat /\ q * (n + 1) <= Word(dividend)
    BY <1>4, QuotientTimesDivisor
  <1>6. q * (n + 1) \in Nat
    BY <1>5
  <1> DEFINE product == q * (n + 1)
  <1>7. product \in Nat /\ product <= Word(dividend)
    BY <1>5, <1>6
  <1> HIDE DEF product
  <1>8. product <= sum + elapsed
    BY <1>3, <1>4, <1>7
  <1> QED
    BY <1>5, <1>8 DEF product, dividend

(* One more cycle makes the run of mismatches one longer, or ends it.      *)
LEMMA RunGrowsOrEnds ==
  ASSUME NEW run \in Seq(BOOLEAN), NEW mismatch \in BOOLEAN, NEW k \in 0..Len(run),
         \A i \in (Len(run) - k + 1)..Len(run) : run[i],
         k < Len(run) => ~run[Len(run) - k]
  PROVE  LET longer == Append(run, mismatch)
             n == Len(run) + 1
             c == IF mismatch THEN k + 1 ELSE 0
         IN  /\ Len(longer) = n /\ c \in 0..n
             /\ \A i \in (n - c + 1)..n : longer[i]
             /\ c < n => ~longer[n - c]
  <1>1. Len(run) \in Nat
    OBVIOUS
  <1>2. /\ Len(Append(run, mismatch)) = Len(run) + 1
        /\ Append(run, mismatch)[Len(run) + 1] = mismatch
        /\ \A i \in 1..Len(run) : Append(run, mismatch)[i] = run[i]
    BY Appended
  <1> DEFINE len == Len(run)  longer == Append(run, mismatch)
  <1>3. /\ len \in Nat /\ longer[len + 1] = mismatch
        /\ \A i \in 1..len : longer[i] = run[i]
        /\ Len(longer) = len + 1
        /\ \A i \in (len - k + 1)..len : run[i]
        /\ k < len => ~run[len - k]
        /\ k \in 0..len
    BY <1>1, <1>2
  <1> HIDE DEF len, longer
  <1>4. CASE mismatch
    <2>1. \A i \in (len + 1 - (k + 1) + 1)..(len + 1) : longer[i]
      <3> SUFFICES ASSUME NEW i \in (len + 1 - (k + 1) + 1)..(len + 1)
                   PROVE  longer[i]
        OBVIOUS
      <3>1. CASE i = len + 1
        BY <1>3, <1>4, <3>1
      <3>2. CASE i # len + 1
        <4>1. i \in (len - k + 1)..len /\ i \in 1..len
          BY <1>3, <3>2
        <4> QED
          BY <1>3, <4>1
      <3> QED
        BY <3>1, <3>2
    <2>2. k + 1 < len + 1 => ~longer[len + 1 - (k + 1)]
      <3> SUFFICES ASSUME k + 1 < len + 1
                   PROVE  ~longer[len + 1 - (k + 1)]
        OBVIOUS
      <3>1. len + 1 - (k + 1) = len - k /\ len - k \in 1..len /\ k < len
        BY <1>3
      <3>2. longer[len - k] = run[len - k] /\ ~run[len - k]
        BY <1>3, <3>1
      <3> QED
        BY <3>1, <3>2
    <2>3. k + 1 \in 0..(len + 1)
      BY <1>3
    <2> QED
      BY <1>3, <1>4, <2>1, <2>2, <2>3 DEF len, longer
  <1>5. CASE ~mismatch
    <2>1. (len + 1 - 0 + 1)..(len + 1) = {} /\ len + 1 - 0 = len + 1 /\ 0 \in 0..(len + 1)
      BY <1>3
    <2>2. ~longer[len + 1]
      BY <1>3, <1>5
    <2> QED
      BY <1>3, <1>5, <2>1, <2>2 DEF len, longer
  <1> QED
    BY <1>4, <1>5

(***************************************************************************)
(* One cycle.                                                              *)
(***************************************************************************)
(* What a cycle that does not end the process does to the statistics, with *)
(* the words of the counters resolved.                                     *)
LEMMA CycleFields ==
  ASSUME IInv, NEW elapsed \in Nat, NEW mismatch \in BOOLEAN,
         RunOneCycle(elapsed, mismatch), timed => Divisor(stats) # 0
  PROVE  /\ stats' \in [cycle_count : Nat, wkc_mismatch_count : Nat,
                        consecutive_wkc_mismatch : Nat,
                        min_cycle_us : Nat, max_cycle_us : Nat, avg_cycle_us : Nat]
         /\ stats'.cycle_count = stats.cycle_count + 1
         /\ stats'.consecutive_wkc_mismatch
              = IF mismatch THEN stats.consecutive_wkc_mismatch + 1 ELSE 0
         /\ ~timed => /\ stats'.avg_cycle_us = stats.avg_cycle_us
                      /\ stats'.min_cycle_us = stats.min_cycle_us
                      /\ stats'.max_cycle_us = stats.max_cycle_us
         /\ timed =>
              /\ stats'.avg_cycle_us
                   = Word(stats.avg_cycle_us * stats.cycle_count + Word(elapsed))
                       \div (stats.cycle_count + 1)
              /\ stats'.min_cycle_us
                   = IF stats.min_cycle_us = 0 \/ Word(elapsed) < stats.min_cycle_us
                       THEN Word(elapsed) ELSE stats.min_cycle_us
              /\ stats'.max_cycle_us
                   = IF Word(elapsed) > stats.max_cycle_us
                       THEN Word(elapsed) ELSE stats.max_cycle_us
  <1> DEFINE s == IF timed THEN Measured(stats, Word(elapsed)) ELSE stats
  <1>1. stats' = Counted(s, mismatch)
    BY DEF RunOneCycle
  <1>2. /\ stats.cycle_count + 1 < WordSize
        /\ Word(stats.cycle_count + 1) = stats.cycle_count + 1
    BY RoomForTheCount DEF IInv
  <1>3. Word(elapsed) \in Nat
    BY WordRange
  <1> DEFINE average == Word(stats.avg_cycle_us * stats.cycle_count + Word(elapsed))
                          \div (stats.cycle_count + 1)
  <1>4. average \in Nat
    <2>1. stats.avg_cycle_us \in Nat /\ stats.cycle_count \in Nat
      BY DEF IInv, CounterType
    <2>2. stats.avg_cycle_us * stats.cycle_count \in Nat
      BY <2>1
    <2>3. stats.avg_cycle_us * stats.cycle_count + Word(elapsed) \in Nat
      BY <1>3, <2>2
    <2>4. stats.cycle_count + 1 \in Nat /\ stats.cycle_count + 1 > 0
      BY <2>1
    <2> QED
      BY <2>3, <2>4, WordRange, QuotientTimesDivisor
  <1>5. Divisor(stats) = stats.cycle_count + 1
    BY <1>2 DEF Divisor
  <1> HIDE DEF average
  <1>6. /\ s \in [cycle_count : Nat, wkc_mismatch_count : Nat,
                  consecutive_wkc_mismatch : Nat,
                  min_cycle_us : Nat, max_cycle_us : Nat, avg_cycle_us : Nat]
        /\ s.cycle_count = stats.cycle_count
        /\ s.consecutive_wkc_mismatch = stats.consecutive_wkc_mismatch
        /\ ~timed => s = stats
        /\ timed => /\ s.avg_cycle_us = average
                    /\ s.min_cycle_us
                         = IF stats.min_cycle_us = 0 \/ Word(elapsed) < stats.min_cycle_us
                             THEN Word(elapsed) ELSE stats.min_cycle_us
                    /\ s.max_cycle_us
                         = IF Word(elapsed) > stats.max_cycle_us
                             THEN Word(elapsed) ELSE stats.max_cycle_us
    <2>1. CASE timed
      <3>1. Measured(stats, Word(elapsed))
              = [stats EXCEPT
                   !.min_cycle_us = IF stats.min_cycle_us = 0 \/ Word(elapsed) < stats.min_cycle_us
                                      THEN Word(elapsed) ELSE stats.min_cycle_us,
                   !.max_cycle_us = IF Word(elapsed) > stats.max_cycle_us
                                      THEN Word(elapsed) ELSE stats.max_cycle_us,
                   !.avg_cycle_us = average]
        BY <1>5 DEF Measured, average
      <3>2. s = Measured(stats, Word(elapsed))
        BY <2>1
      <3> QED
        BY <1>3, <1>4, <2>1, <3>1, <3>2 DEF IInv, CounterType
    <2>2. CASE ~timed
      BY <2>2 DEF IInv, CounterType
    <2> QED
      BY <2>1, <2>2
  <1> HIDE DEF s
  <1>7. Word(s.wkc_mismatch_count + 1) \in Nat
    BY <1>6, WordRange
  <1>8. Word(s.consecutive_wkc_mismatch + 1) = stats.consecutive_wkc_mismatch + 1
    <2>1. /\ stats.consecutive_wkc_mismatch \in Nat
          /\ stats.consecutive_wkc_mismatch <= stats.cycle_count
      BY DEF IInv, CounterType, CountsCycles, RunIsCounted, TrailingRun
    <2>2. stats.cycle_count \in Nat /\ WordSize \in Nat
      BY StatsAssumption DEF IInv, CounterType
    <2>3. /\ stats.consecutive_wkc_mismatch + 1 \in Nat
          /\ stats.consecutive_wkc_mismatch + 1 < WordSize
      BY <1>2, <2>1, <2>2
    <2> QED
      BY <1>6, <2>3, WordRange
  <1>9. stats' = [s EXCEPT
                    !.cycle_count = stats.cycle_count + 1,
                    !.wkc_mismatch_count = IF mismatch THEN Word(s.wkc_mismatch_count + 1)
                                           ELSE s.wkc_mismatch_count,
                    !.consecutive_wkc_mismatch
                       = IF mismatch THEN stats.consecutive_wkc_mismatch + 1 ELSE 0]
    BY <1>1, <1>2, <1>6, <1>8 DEF Counted
  <1>10. stats.cycle_count \in Nat /\ stats.consecutive_wkc_mismatch \in Nat
    BY DEF IInv, CounterType
  <1> DEFINE missed == IF mismatch THEN Word(s.wkc_mismatch_count + 1) ELSE s.wkc_mismatch_count
             run == IF mismatch THEN stats.consecutive_wkc_mismatch + 1 ELSE 0
  <1>11. missed \in Nat /\ run \in Nat /\ stats.cycle_count + 1 \in Nat
    BY <1>6, <1>7, <1>10
  <1>12. stats' = [s EXCEPT !.cycle_count = stats.cycle_count + 1,
                            !.wkc_mismatch_count = missed,
                            !.consecutive_wkc_mismatch = run]
    BY <1>9
  <1> HIDE DEF missed, run
  <1>13. /\ stats' \in [cycle_count : Nat, wkc_mismatch_count : Nat,
                         consecutive_wkc_mismatch : Nat,
                         min_cycle_us : Nat, max_cycle_us : Nat, avg_cycle_us : Nat]
         /\ stats'.cycle_count = stats.cycle_count + 1
         /\ stats'.consecutive_wkc_mismatch = run
         /\ stats'.min_cycle_us = s.min_cycle_us
         /\ stats'.max_cycle_us = s.max_cycle_us
         /\ stats'.avg_cycle_us = s.avg_cycle_us
    BY <1>6, <1>11, <1>12
  <1> QED
    BY <1>6, <1>13 DEF average, run

(* A step that leaves the statistics alone.                                *)
LEMMA StatsUntouched ==
  ASSUME IInv, UNCHANGED <<stats, timed, intervals, total, mismatches>>,
         first' \in BOOLEAN, halted' \in BOOLEAN
  PROVE  IInv'
  <1>1. CounterType'
    BY DEF IInv, CounterType
  <1>2. FlagType'
    BY DEF IInv, FlagType
  <1>3. CountsCycles'
    BY DEF IInv, CountsCycles
  <1>4. RunIsCounted'
    BY DEF IInv, RunIsCounted, TrailingRun
  <1>5. AverageBelow'
    BY DEF IInv, AverageBelow
  <1> QED
    BY <1>1, <1>2, <1>3, <1>4, <1>5 DEF IInv

LEMMA CycleStep ==
  ASSUME IInv, NEW elapsed \in Nat, NEW mismatch \in BOOLEAN,
         RunOneCycle(elapsed, mismatch)
  PROVE  IInv'
  <1>1. CASE timed /\ Divisor(stats) = 0
    <2>1. /\ UNCHANGED <<stats, intervals, total, mismatches>>
          /\ timed' = TRUE /\ first' = FALSE /\ halted' = TRUE
      BY <1>1 DEF RunOneCycle
    <2>2. UNCHANGED timed
      BY <1>1, <2>1 DEF IInv, FlagType
    <2> QED
      BY <2>1, <2>2, StatsUntouched
  <1>2. CASE timed => Divisor(stats) # 0
    <2>1. /\ intervals' = IF timed THEN Append(intervals, elapsed) ELSE intervals
          /\ total' = IF timed THEN total + elapsed ELSE total
          /\ mismatches' = Append(mismatches, mismatch)
          /\ timed' = TRUE /\ first' = FALSE /\ UNCHANGED halted
      BY <1>2 DEF RunOneCycle
    <2>2. CounterType'
      <3>1. stats' \in [cycle_count : Nat, wkc_mismatch_count : Nat,
                         consecutive_wkc_mismatch : Nat,
                         min_cycle_us : Nat, max_cycle_us : Nat, avg_cycle_us : Nat]
        BY <1>2, CycleFields
      <3>2. intervals' \in Seq(Nat)
        BY <2>1, Appended DEF IInv, CounterType
      <3>3. total' \in Nat
        BY <2>1 DEF IInv, CounterType
      <3> QED
        BY <3>1, <3>2, <3>3 DEF CounterType
    <2>3. FlagType'
      BY <2>1, Appended DEF IInv, FlagType
    <2>4. CountsCycles'
      <3>1. Len(mismatches') = Len(mismatches) + 1
        BY <2>1, Appended DEF IInv, FlagType
      <3>2. timed => Len(intervals') = Len(intervals) + 1
        BY <2>1, Appended DEF IInv, CounterType
      <3>3. ~timed => Len(intervals') = 0 /\ Len(mismatches') = 1
        BY <2>1, <3>1 DEF IInv, CountsCycles
      <3>4. stats'.cycle_count = stats.cycle_count + 1 /\ stats.cycle_count + 1 < WordSize
        BY <1>2, CycleFields, RoomForTheCount DEF IInv
      <3> QED
        BY <2>1, <3>1, <3>2, <3>3, <3>4 DEF IInv, CountsCycles
    <2>5. RunIsCounted'
      <3> DEFINE k == stats.consecutive_wkc_mismatch
      <3>1. /\ k \in 0..Len(mismatches)
            /\ \A i \in (Len(mismatches) - k + 1)..Len(mismatches) : mismatches[i]
            /\ k < Len(mismatches) => ~mismatches[Len(mismatches) - k]
            /\ mismatches \in Seq(BOOLEAN)
        BY DEF IInv, FlagType, RunIsCounted, TrailingRun
      <3>2. stats'.consecutive_wkc_mismatch = IF mismatch THEN k + 1 ELSE 0
        BY <1>2, CycleFields
      <3> HIDE DEF k
      <3> QED
        BY <2>1, <3>1, <3>2, RunGrowsOrEnds DEF RunIsCounted, TrailingRun
    <2>6. AverageBelow'
      <3>1. stats'.cycle_count = stats.cycle_count + 1
        BY <1>2, CycleFields
      <3>2. /\ stats.avg_cycle_us \in Nat /\ stats.cycle_count \in Nat /\ total \in Nat
            /\ stats.avg_cycle_us * stats.cycle_count <= total
        BY DEF IInv, CounterType, AverageBelow
      <3>3. CASE timed
        <4>1. stats'.avg_cycle_us
                = Word(stats.avg_cycle_us * stats.cycle_count + Word(elapsed))
                    \div (stats.cycle_count + 1)
          BY <1>2, <3>3, CycleFields
        <4>2. total' = total + elapsed
          BY <2>1, <3>3
        <4>3. stats'.avg_cycle_us * (stats.cycle_count + 1) <= total + elapsed
          BY <3>2, <4>1, AverageGrowsSlowly
        <4> QED
          BY <2>1, <3>1, <4>2, <4>3 DEF AverageBelow
      <3>4. CASE ~timed
        <4>1. stats.avg_cycle_us = 0
          BY <3>4 DEF IInv, AverageBelow
        <4>2. stats'.avg_cycle_us = 0 /\ total' = total
          BY <1>2, <2>1, <3>4, <4>1, CycleFields
        <4> QED
          BY <2>1, <3>1, <3>2, <4>2 DEF AverageBelow
      <3> QED
        BY <3>3, <3>4
    <2> QED
      BY <2>2, <2>3, <2>4, <2>5, <2>6 DEF IInv
  <1> QED
    BY <1>1, <1>2

LEMMA TimesAreNatural ==
  ASSUME NEW elapsed \in (IF first THEN {Gap} ELSE Elapsed)
  PROVE  elapsed \in Nat
  BY StatsAssumption

LEMMA InductiveInvariant == Spec => []IInv
  <1>1. Init => IInv
    <2> SUFFICES ASSUME Init
                 PROVE  IInv
      OBVIOUS
    <2>1. intervals = <<>> /\ mismatches = <<>> /\ Len(intervals) = 0 /\ Len(mismatches) = 0
      BY DEF Init
    <2>2. intervals \in Seq(Nat) /\ mismatches \in Seq(BOOLEAN)
      BY <2>1
    <2>3. CounterType
      BY <2>2 DEF Init, CyclicStats, CounterType
    <2>4. FlagType
      BY <2>2 DEF Init, FlagType
    <2>5. CountsCycles
      BY <2>1, StatsAssumption DEF Init, CyclicStats, CountsCycles
    <2>6. RunIsCounted
      <3>1. stats.consecutive_wkc_mismatch = 0
        BY DEF Init, CyclicStats
      <3> QED
        BY <2>1, <3>1 DEF RunIsCounted, TrailingRun
    <2>7. AverageBelow
      BY DEF Init, CyclicStats, AverageBelow
    <2> QED
      BY <2>3, <2>4, <2>5, <2>6, <2>7 DEF IInv
  <1>2. IInv /\ [Next]_vars => IInv'
    <2> SUFFICES ASSUME IInv, [Next]_vars
                 PROVE  IInv'
      OBVIOUS
    <2>1. CASE \E elapsed \in (IF first THEN {Gap} ELSE Elapsed), mismatch \in BOOLEAN :
                 RunOneCycle(elapsed, mismatch)
      BY <2>1, CycleStep, TimesAreNatural
    <2>2. CASE NewSession
      BY <2>2, StatsUntouched DEF NewSession, IInv, FlagType
    <2>3. CASE UNCHANGED vars
      BY <2>3, StatsUntouched DEF vars, IInv, FlagType
    <2> QED
      BY <2>1, <2>2, <2>3 DEF Next
  <1> QED
    BY <1>1, <1>2, PTL DEF Spec

(***************************************************************************)
(* What the statistics mean.                                               *)
(***************************************************************************)
(* consecutive_wkc_mismatch is exactly the length of the run of mismatches *)
(* that ends with the last cycle (the counting at the end of RunOneCycle). *)
THEOREM RunIsExact == Spec => []ConsecutiveIsTrailingRun
  <1>1. ASSUME IInv
        PROVE  ConsecutiveIsTrailingRun
    <2> DEFINE n == Len(mismatches)
               c == stats.consecutive_wkc_mismatch
               Trailing(k) == \A i \in (n - k + 1)..n : mismatches[i]
               Runs == {k \in 0..n : Trailing(k)}
    <2>1. n \in Nat
      BY <1>1 DEF IInv, FlagType
    <2>2. c \in 0..n /\ Trailing(c) /\ (c < n => ~mismatches[n - c])
      BY <1>1 DEF IInv, RunIsCounted, TrailingRun
    <2>3. c \in Runs
      BY <2>2
    <2>4. ASSUME NEW k \in Runs
          PROVE  c >= k
      <3>1. k \in 0..n /\ Trailing(k)
        OBVIOUS
      <3> HIDE DEF n, c
      <3>2. SUFFICES ASSUME c < k
                     PROVE  FALSE
        BY <2>1, <2>2, <3>1
      <3>3. c < n /\ n - c \in (n - k + 1)..n
        BY <2>1, <2>2, <3>1, <3>2
      <3> QED
        BY <2>2, <3>1, <3>3
    <2>5. Runs \subseteq Int
      BY <2>1
    <2> HIDE DEF Runs, c
    <2>6. Max(Runs) = c
      <3>1. Max(Runs) \in Runs /\ \A y \in Runs : Max(Runs) >= y
        BY <2>3, <2>4 DEF Max
      <3>2. Max(Runs) >= c /\ c >= Max(Runs)
        BY <2>3, <2>4, <3>1
      <3> DEFINE m == Max(Runs)
      <3>3. m \in Int /\ c \in Int /\ m >= c /\ c >= m
        BY <2>3, <2>5, <3>1, <3>2
      <3> HIDE DEF m
      <3>4. m = c
        BY <3>3
      <3> QED
        BY <3>4 DEF m
    <2> QED
      BY <2>6 DEF Runs, c, ConsecutiveIsTrailingRun
  <1> QED
    BY <1>1, InductiveInvariant, PTL

(* The running average of RunOneCycle never exceeds the true mean.         *)
THEOREM AverageIsBounded == Spec => []AverageNotAboveMean
  <1>1. ASSUME IInv
        PROVE  AverageNotAboveMean
    <2> DEFINE a == stats.avg_cycle_us
               c == stats.cycle_count
               n == Len(intervals)
    <2>1. a \in Nat /\ c \in Nat /\ n \in Nat /\ total \in Nat
      BY <1>1 DEF IInv, CounterType
    <2>2. n <= c
      BY <1>1, <2>1 DEF IInv, CountsCycles, FlagType
    <2>3. a * c <= total
      BY <1>1 DEF IInv, AverageBelow
    <2> HIDE DEF a, c, n
    <2>4. a * n <= a * c /\ a * n \in Nat /\ a * c \in Nat
      BY <2>1, <2>2
    <2>5. a * n <= total
      <3> DEFINE small == a * n  big == a * c
      <3>1. small \in Nat /\ big \in Nat /\ small <= big /\ big <= total
        BY <2>3, <2>4
      <3> HIDE DEF small, big
      <3>2. small <= total
        BY <2>1, <3>1
      <3> QED
        BY <3>2 DEF small
    <2> QED
      BY <2>5 DEF a, n, AverageNotAboveMean
  <1> QED
    BY <1>1, InductiveInvariant, PTL

(***************************************************************************)
(* The extremes.                                                           *)
(***************************************************************************)
(* No interval of 0 from position i on.                                    *)
Unbroken(seq, i) == \A j \in i..Len(seq) : Word(seq[j]) # 0

AllBelow(seq, max) == \A i \in DOMAIN seq : Word(seq[i]) <= max

AllAbove(seq, min) ==
  \A i \in DOMAIN seq : Unbroken(seq, i) => min \in 1..Word(seq[i])

(* The extremes, in a form that a new interval preserves: the pauses       *)
(* included, and each interval cut to a word.                              *)
Extremes == AllBelow(intervals, stats.max_cycle_us) /\ AllAbove(intervals, stats.min_cycle_us)

CyclesAreElapsed == \A i \in DOMAIN intervals \ pauses : intervals[i] \in Elapsed

LEMMA MaximumGrows ==
  ASSUME NEW seq \in Seq(Nat), NEW e \in Nat, NEW max \in Nat, AllBelow(seq, max)
  PROVE  AllBelow(Append(seq, e), IF Word(e) > max THEN Word(e) ELSE max)
  <1> DEFINE longer == Append(seq, e)
             greater == IF Word(e) > max THEN Word(e) ELSE max
  <1>1. /\ DOMAIN longer = 1..(Len(seq) + 1) /\ DOMAIN seq = 1..Len(seq) /\ Len(seq) \in Nat
        /\ longer[Len(seq) + 1] = e /\ \A i \in 1..Len(seq) : longer[i] = seq[i]
    BY Appended
  <1>2. Word(e) \in Nat /\ \A i \in DOMAIN seq : Word(seq[i]) \in Nat
    BY WordRange
  <1>3. greater \in Nat /\ Word(e) <= greater /\ max <= greater
    BY <1>2
  <1> HIDE DEF longer, greater
  <1>4. ASSUME NEW i \in DOMAIN longer
        PROVE  Word(longer[i]) <= greater
    <2>1. CASE i = Len(seq) + 1
      BY <1>1, <1>3, <2>1
    <2>2. CASE i \in DOMAIN seq
      <3>1. longer[i] = seq[i] /\ Word(seq[i]) \in Nat /\ Word(seq[i]) <= max
        BY <1>1, <1>2, <2>2 DEF AllBelow
      <3> QED
        BY <1>3, <3>1
    <2> QED
      BY <1>1, <2>1, <2>2
  <1> QED
    BY <1>4 DEF AllBelow, longer, greater

LEMMA MinimumShrinks ==
  ASSUME NEW seq \in Seq(Nat), NEW e \in Nat, NEW min \in Nat, AllAbove(seq, min)
  PROVE  AllAbove(Append(seq, e), IF min = 0 \/ Word(e) < min THEN Word(e) ELSE min)
  <1> DEFINE longer == Append(seq, e)
             less == IF min = 0 \/ Word(e) < min THEN Word(e) ELSE min
  <1>1. /\ DOMAIN longer = 1..(Len(seq) + 1) /\ DOMAIN seq = 1..Len(seq) /\ Len(seq) \in Nat
        /\ longer[Len(seq) + 1] = e /\ \A i \in 1..Len(seq) : longer[i] = seq[i]
        /\ Len(longer) = Len(seq) + 1
    BY Appended
  <1>2. Word(e) \in Nat
    BY WordRange
  <1>3. Word(e) # 0 => less \in 1..Word(e) /\ (min # 0 => less \in 1..min)
    BY <1>2
  <1> HIDE DEF longer, less
  <1>4. ASSUME NEW i \in DOMAIN longer, Unbroken(longer, i)
        PROVE  less \in 1..Word(longer[i])
    <2>1. Word(e) # 0
      <3>1. Len(seq) + 1 \in i..Len(longer)
        BY <1>1
      <3> QED
        BY <1>1, <1>4, <3>1 DEF Unbroken
    <2>2. CASE i = Len(seq) + 1
      BY <1>1, <1>3, <2>1, <2>2
    <2>3. CASE i \in DOMAIN seq
      <3>1. ASSUME NEW j \in i..Len(seq)
            PROVE  Word(seq[j]) # 0
        <4>1. j \in i..Len(longer) /\ longer[j] = seq[j]
          BY <1>1, <2>3
        <4> QED
          BY <1>4, <4>1 DEF Unbroken
      <3>2. min \in 1..Word(seq[i])
        BY <2>3, <3>1 DEF AllAbove, Unbroken
      <3>3. Word(seq[i]) \in Nat /\ longer[i] = seq[i]
        BY <1>1, <2>3, WordRange
      <3>4. min # 0 /\ less \in 1..min
        BY <1>3, <2>1, <3>2
      <3> QED
        BY <3>2, <3>3, <3>4
    <2> QED
      BY <1>1, <2>2, <2>3
  <1> QED
    BY <1>4 DEF AllAbove, longer, less

LEMMA ExtremesStep ==
  ASSUME IInv, Extremes, CyclesAreElapsed, [Next]_vars
  PROVE  Extremes' /\ CyclesAreElapsed'
  <1>1. ASSUME NEW elapsed \in (IF first THEN {Gap} ELSE Elapsed), NEW mismatch \in BOOLEAN,
               RunOneCycle(elapsed, mismatch)
        PROVE  Extremes' /\ CyclesAreElapsed'
    <2>1. elapsed \in Nat
      BY <1>1, TimesAreNatural
    <2>2. CASE timed /\ Divisor(stats) = 0
      <3>1. UNCHANGED <<stats, intervals, pauses>>
        BY <1>1, <2>2 DEF RunOneCycle
      <3> QED
        BY <3>1 DEF Extremes, AllBelow, AllAbove, Unbroken, CyclesAreElapsed
    <2>3. CASE timed /\ Divisor(stats) # 0
      <3>1. /\ stats'.min_cycle_us
                 = IF stats.min_cycle_us = 0 \/ Word(elapsed) < stats.min_cycle_us
                     THEN Word(elapsed) ELSE stats.min_cycle_us
            /\ stats'.max_cycle_us
                 = IF Word(elapsed) > stats.max_cycle_us
                     THEN Word(elapsed) ELSE stats.max_cycle_us
        BY <1>1, <2>1, <2>3, CycleFields
      <3>2. /\ intervals' = Append(intervals, elapsed) /\ intervals \in Seq(Nat)
            /\ stats.min_cycle_us \in Nat /\ stats.max_cycle_us \in Nat
        BY <1>1, <2>3 DEF RunOneCycle, IInv, CounterType
      <3>3. Extremes'
        <4>1. AllBelow(intervals', stats'.max_cycle_us)
          BY <2>1, <3>1, <3>2, MaximumGrows DEF Extremes
        <4>2. AllAbove(intervals', stats'.min_cycle_us)
          BY <2>1, <3>1, <3>2, MinimumShrinks DEF Extremes
        <4> QED
          BY <4>1, <4>2, Zenon DEF Extremes, AllBelow, AllAbove, Unbroken
      <3>4. pauses' = IF first THEN pauses \cup {Len(intervals) + 1} ELSE pauses
        BY <1>1, <2>3 DEF RunOneCycle
      <3>5. ASSUME NEW i \in DOMAIN intervals' \ pauses'
            PROVE  intervals'[i] \in Elapsed
        <4>1. /\ DOMAIN intervals' = 1..(Len(intervals) + 1) /\ Len(intervals) \in Nat
              /\ DOMAIN intervals = 1..Len(intervals)
              /\ intervals'[Len(intervals) + 1] = elapsed
              /\ \A k \in 1..Len(intervals) : intervals'[k] = intervals[k]
          BY <2>1, <3>2, Appended
        <4>2. CASE i = Len(intervals) + 1
          <5>1. ~first
            BY <3>4, <3>5, <4>2
          <5>2. elapsed \in Elapsed
            BY <1>1, <5>1
          <5> QED
            BY <4>1, <4>2, <5>2
        <4>3. CASE i \in DOMAIN intervals
          BY <3>4, <3>5, <4>1, <4>3 DEF CyclesAreElapsed
        <4> QED
          BY <4>1, <4>2, <4>3
      <3> QED
        BY <3>3, <3>5 DEF CyclesAreElapsed
    <2>4. CASE ~timed
      <3>1. UNCHANGED <<intervals, pauses>>
        BY <1>1, <2>4 DEF RunOneCycle
      <3>2. stats'.min_cycle_us = stats.min_cycle_us /\ stats'.max_cycle_us = stats.max_cycle_us
        BY <1>1, <2>1, <2>4, CycleFields
      <3> QED
        BY <3>1, <3>2 DEF Extremes, AllBelow, AllAbove, Unbroken, CyclesAreElapsed
    <2> QED
      BY <2>2, <2>3, <2>4
  <1>2. CASE UNCHANGED <<stats, intervals, pauses>>
    BY <1>2 DEF Extremes, AllBelow, AllAbove, Unbroken, CyclesAreElapsed
  <1>3. CASE NewSession
    BY <1>2, <1>3 DEF NewSession
  <1>4. CASE UNCHANGED vars
    BY <1>2, <1>4 DEF vars
  <1> QED
    BY <1>1, <1>3, <1>4 DEF Next

LEMMA ExtremesInvariant == Spec => [](IInv /\ Extremes /\ CyclesAreElapsed)
  <1>1. Init => Extremes /\ CyclesAreElapsed
    <2> SUFFICES ASSUME Init
                 PROVE  Extremes /\ CyclesAreElapsed
      OBVIOUS
    <2>1. DOMAIN intervals = {}
      BY DEF Init
    <2> QED
      BY <2>1 DEF Extremes, AllBelow, AllAbove, CyclesAreElapsed
  <1>2. IInv /\ Extremes /\ CyclesAreElapsed /\ [Next]_vars => Extremes' /\ CyclesAreElapsed'
    BY ExtremesStep
  <1> QED
    BY <1>1, <1>2, InductiveInvariant, PTL DEF Spec

(* No late cycle of any session is missed by max_cycle_us (the comparison  *)
(* in RunOneCycle), as long as no cycle takes more than elapsed_us can     *)
(* hold (71.5 minutes).  Nothing is assumed of the pauses.                 *)
THEOREM LateCyclesAreSeen ==
  ASSUME \A us \in Elapsed : us < WordSize
  PROVE  Spec => []NoLateCycleHidden
  <1>1. ASSUME Extremes, CyclesAreElapsed
        PROVE  NoLateCycleHidden
    <2> SUFFICES ASSUME NEW i \in DOMAIN intervals \ pauses
                 PROVE  intervals[i] <= stats.max_cycle_us
      BY DEF NoLateCycleHidden
    <2>1. intervals[i] \in Nat /\ intervals[i] < WordSize
      BY <1>1, StatsAssumption DEF CyclesAreElapsed
    <2>2. Word(intervals[i]) = intervals[i]
      BY <2>1, WordRange
    <2>3. Word(intervals[i]) <= stats.max_cycle_us
      BY <1>1 DEF Extremes, AllBelow
    <2> QED
      BY <2>2, <2>3
  <1> QED
    BY <1>1, ExtremesInvariant, PTL

(* Since the last interval of 0, which makes RunOneCycle forget the        *)
(* minimum, no cycle was shorter than min_cycle_us, and once there was a   *)
(* cycle it is not 0; under the same assumption.                           *)
THEOREM ShortCyclesAreSeen ==
  ASSUME \A us \in Elapsed : us < WordSize
  PROVE  Spec => []NoShortCycleHidden
  <1>1. ASSUME Extremes, CyclesAreElapsed
        PROVE  NoShortCycleHidden
    <2> SUFFICES ASSUME NEW i \in DOMAIN intervals \ pauses,
                        \A j \in i..Len(intervals) : Word(intervals[j]) # 0
                 PROVE  stats.min_cycle_us \in 1..intervals[i]
      BY DEF NoShortCycleHidden
    <2>1. intervals[i] \in Nat /\ intervals[i] < WordSize
      BY <1>1, StatsAssumption DEF CyclesAreElapsed
    <2>2. Word(intervals[i]) = intervals[i]
      BY <2>1, WordRange
    <2>3. stats.min_cycle_us \in 1..Word(intervals[i])
      BY <1>1 DEF Extremes, AllAbove, Unbroken
    <2> QED
      BY <2>2, <2>3
  <1> QED
    BY <1>1, ExtremesInvariant, PTL
=============================================================================
