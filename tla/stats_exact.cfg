SPECIFICATION Spec
CONSTANTS
  WordSize = 65536
  Elapsed <- MCElapsed
  Gap = 40
  MaxCycles = 6
INVARIANTS NoLateCycleHidden NoShortCycleHidden ConsecutiveIsTrailingRun AverageNotAboveMean
CHECK_DEADLOCK FALSE
