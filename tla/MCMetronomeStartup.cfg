SPECIFICATION Spec
CHECK_DEADLOCK FALSE
CONSTANTS
  Starts <- MCStarts
  Sets <- MCSets
  PauseSeconds = {3}
  MaxQueue = 2
  MaxIndex = 6
  INT_MAX <- MCIntMax
INVARIANTS
  CommandHeeded
