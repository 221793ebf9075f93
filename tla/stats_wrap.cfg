SPECIFICATION Spec
CONSTANTS
  WordSize = 8
  Elapsed <- MCElapsed
  Gap = 40
  MaxCycles = 9
INVARIANTS CycleReturns
CHECK_DEADLOCK FALSE
