SPECIFICATION FairSpec
CHECK_DEADLOCK FALSE
CONSTANTS
  Starts <- MCStarts
  Sets <- MCSets
  PauseSeconds = {0, 3}
  MaxQueue = 3
  MaxIndex = 6
  INT_MAX <- MCIntMax
INVARIANTS
  TypeOK
  LastCommandWins
PROPERTIES
  StopTakesEffect
  QuitExits
