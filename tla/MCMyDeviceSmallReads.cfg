SPECIFICATION FairSpec
CHECK_DEADLOCK FALSE
CONSTANTS
  Words <- MCWords
  Numbers <- MCNumbers
  Writers <- MCWriters
  Sizes <- MCSizes
  MaxControllers = 2
  MaxAlerts = 2
  MaxReads = 3
INVARIANTS
  ReadContinues
