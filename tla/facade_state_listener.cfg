SPECIFICATION Spec
CONSTANTS
  Interval = 3
  Period = 2
  MaxDepth = 3
  FromCallback <- MCReactions
INVARIANTS StateListenerInSync
