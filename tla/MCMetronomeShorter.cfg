SPECIFICATION Spec
CHECK_DEADLOCK FALSE
CONSTANTS
  Starts <- FiveFour
  Sets <- LongThenShort
  PauseSeconds = {3}
  MaxQueue = 2
  MaxIndex = 10
  INT_MAX <- MCIntMax
INVARIANTS
  BeatInPattern
