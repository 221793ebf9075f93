SPECIFICATION FairSpec
CONSTANTS
  Threads = {t1, t2}
  NoMaster = NoMaster
  MaxRecords = 1
INVARIANTS RecordsInOrder NoCallbackIntoDeadMaster DrainedAtExit
PROPERTIES RecordsHandled ExitEnds
CHECK_DEADLOCK FALSE
