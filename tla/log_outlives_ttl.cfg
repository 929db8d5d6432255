SPECIFICATION Spec
CONSTANTS
  r1 = r1  r2 = r2  r3 = r3  r4 = r4
  Requests <- MCRequests
  Scenarios <- MCLongLog
  Forever <- MCForever
  Second = 3
  Costs = {1}
  MaxTime = 7
SYMMETRY Symmetry
INVARIANT ExactRateInAnyWindow
CHECK_DEADLOCK FALSE
