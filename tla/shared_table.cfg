SPECIFICATION Spec
CONSTANTS
  k1 = k1
  k2 = k2
  k3 = k3
  k4 = k4
  Workers = {w1, w2}
  Keys <- MCKeys
  Owned <- MCOwned
  Hash <- MCHash
  Batches <- MCBatches
  Capacity = 8
  MaxKeys = 3
  RebuildAt = 2
  MaxTries = 2
  Generations = 4
  TTL = 1
  Empty = Empty
  Tombstone = Tombstone
  Nobody = Nobody
  Text = Text
  Gone = Gone
  Forever = Forever
  Ops = {"get", "set", "increment", "expire", "delete", "clear", "reap"}
  MaxCalls = 3
  MaxTime = 1
INVARIANTS SlotsPartitioned ProbesFind GhostsComeFromFailures NoStandstill
PROPERTIES ImplementsMap OnlyOwnWrites
SYMMETRY MCSymmetry
CHECK_DEADLOCK FALSE
