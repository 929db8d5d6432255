SPECIFICATION Spec
CONSTANTS
  Clients = {c1, c2}
  Keys = {k1, k2}
  Shards = 2
  ShardOf <- MCShardOf
  Libraries = {"aiomcache", "emcache"}
  TTLs = {1, 3}
  MaxRelative = 2
  TrackKeys = TRUE
  Forever = Forever
  Absent = Absent
  MaxCalls = 3
INVARIANTS NoCountLost Tracked ClearSweeps
CHECK_DEADLOCK FALSE
SYMMETRY MCSymmetry
