SPECIFICATION FairSpec
CHECK_DEADLOCK FALSE
CONSTANTS
  Counts <- MCCounts
  Requests <- MCRequests
  QChar <- MCQChar
  Wakers <- MCWakers
  MaxThreads = 2
  MaxSems = 2
  MaxPosts = 3
  MaxSignals = 2
  MaxStarts = 1
INVARIANTS
  WholePoolSafe
