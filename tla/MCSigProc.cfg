SPECIFICATION FairSpec
CHECK_DEADLOCK FALSE
CONSTANTS
  Numbers <- MCNumbers
  MaxChildren = 3
INVARIANTS
  KillsOnlyChildren
  NoOrphans
PROPERTIES
  GroupEnds
  CleanupEnds
