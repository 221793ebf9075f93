SPECIFICATION Spec
CONSTANTS
  Slaves <- MCThreeSlaves
  MaxRetries = 3
  Identity <- MCThreeIdentity
  ExpectedCount = 0
  ExpectedIds <- MCExpectedIds
  ObedientSlaves = {}
  FaultWhileClosed = TRUE
INVARIANTS TypeOK SlavesBelowController ReadyMeansPrepared ImageBeforeSafeOp ReleasedWhenUninitialized
PROPERTIES EnteredOnlyWhenChecked ImplementsLifecycle
