SPECIFICATION FairSpec
CONSTANTS
  Calls = {c1, c2}
  FailureThreshold = 1
  SuccessThreshold = 1
  MaxRetries = 1
PROPERTY ProbeCompletes
