SPECIFICATION FairSpec
CONSTANTS
  Calls = {c1, c2, c3}
  FailureThreshold = 2
  SuccessThreshold = 2
  MaxRetries = 2
INVARIANT SingleProbe
PROPERTIES RecoversByProbes ProbeIsDecided
