SPECIFICATION FairSpec
CONSTANTS
  Pending = 3
  Slaves = 2
  WordSize = 4
  Counts <- MCCounts
INVARIANTS TypeOK ReleasedAtExit
PROPERTIES StopIsObeyed ServicedWhileOperational ExitIsHonoured
\* The program ends.
CHECK_DEADLOCK FALSE
