SPECIFICATION FairSpec
CONSTANTS
  Threads <- MCThreads
  WordSize = 4
  Counts <- MCCounts
INVARIANTS TypeOK OneActivityAtATime NodesOutliveActivities ActivitiesBesideMaintenanceOnly FailureWaitsForStop StartFindsNoThread
PROPERTIES ExecuteReturns StopReturns
