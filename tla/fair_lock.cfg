SPECIFICATION FairSpec
CONSTANTS
  Tasks = {t1, t2, t3}
  NoTask = NoTask
  MaxDepth = 2
INVARIANT
  MutualExclusionUntilBroken
PROPERTIES
  ImplementsFairMutex
  NobodyWaitsForever
CHECK_DEADLOCK TRUE
