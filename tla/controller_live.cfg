SPECIFICATION FairSpec
CONSTANTS
  Slaves <- MCSlaves
  MaxRetries = 3
  Identity <- MCIdentity
  ExpectedCount = 2
  ExpectedIds <- MCExpectedIds
  ObedientSlaves = {1}
  FaultWhileClosed = FALSE
INVARIANTS NoTrafficWhenClosed ShutdownRestsSlaves
PROPERTIES OperationsReturn
