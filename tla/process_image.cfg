SPECIFICATION Spec
CONSTANTS
  Buses <- MCBuses
  Targets <- MCTargets
  Readings <- MCReadings
  MapBytes = 48
  MaxSets = 2
INVARIANTS TypeOK OwnCommandSent ForeignBytesOnlyByOverrun
PROPERTIES FeedbackIsMeasured
