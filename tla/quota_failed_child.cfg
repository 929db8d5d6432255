SPECIFICATION Spec
CONSTANTS
  Requests = {r1, r2}
  Nobody = Nobody
  MaxAttempts = 2
  MaxDepth = 1
  MaxCalls = 2
  MaxFailures = 1
PROPERTY FailedChildIsFree
CHECK_DEADLOCK FALSE
