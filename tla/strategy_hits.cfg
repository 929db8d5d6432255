SPECIFICATION Spec
CONSTANTS
  r1 = r1  r2 = r2  r3 = r3  r4 = r4
  Requests <- MCRequests
  Scenarios <- MCScenarios
  Forever <- MCForever
  Second = 3
  Costs = {1, 2}
  MaxTime = 6
SYMMETRY Symmetry
INVARIANTS TypeOK WindowBound AlignedWindowBound BucketBound WaitHonest StatPredictsHit
CHECK_DEADLOCK FALSE
