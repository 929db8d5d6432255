SPECIFICATION LeaseSpec
CONSTANTS
  a = a
  b = b
  c = c
  x = x
  P = P
  Q = Q
  Tasks = {a, b, c, x}
  Processes = {P, Q}
  ProcessOf <- MCProcessOf
  Threshold = 1
  Profiles <- MCProfiles
  Unbounded = Unbounded
  MaxDepth = 2
  MaxTokens = 3
  NoTask = NoTask
INVARIANTS GatesInStep GateBoundsRace Exclusion
PROPERTY LeaseIsKept
CHECK_DEADLOCK FALSE
SYMMETRY MCSymmetry
