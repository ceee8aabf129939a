SPECIFICATION Spec
CHECK_DEADLOCK FALSE
CONSTANTS
  Starts <- AllSignatures
  Sets <- AllSets
  PauseSeconds = {3}
  MaxQueue = 2
  MaxIndex = 12
  INT_MAX <- MCIntMax
INVARIANTS
  MeasureInTime
  InPatternUnlessShortened
