SPECIFICATION Spec
CONSTANTS
  WordSize = 65536
  Elapsed <- MCElapsed
  Gap = 40
  MaxCycles = 6
INVARIANTS ExtremesAreCycleTimes
CHECK_DEADLOCK FALSE
