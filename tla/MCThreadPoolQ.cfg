SPECIFICATION FairSpec
CHECK_DEADLOCK FALSE
CONSTANTS
  Counts <- MCCounts
  Requests <- MCWithQ
  QChar <- MCQChar
  Wakers <- MCWakers
  MaxThreads = 2
  MaxSems = 2
  MaxPosts = 3
  MaxSignals = 2
  MaxStarts = 2
INVARIANTS
  QuitsWhenTold
