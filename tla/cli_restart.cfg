SPECIFICATION FairSpec
CONSTANTS
  Pending = 2
  Slaves = 2
  WordSize = 4
  Counts <- MCCounts
INVARIANT ScanAfterStop
CHECK_DEADLOCK FALSE
