SPECIFICATION Spec
CONSTANTS
  Tasks = {t1, t2}
  Keys = {k1, k2}
  SampleSize = 2
  Amounts = {1}
  Persistent = FALSE
  TTL = 2
  Counts <- MCCounts
  Arguments <- MCArguments
  MaxTime = 3
  MaxDepth = 2
  Text = Text
  Gone = Gone
  Forever = Forever
  None = None
INVARIANTS IndexMatchesShard ReadyMeansServing
PROPERTIES ImplementsMap InnerKeepsOuter
SYMMETRY MCSymmetry
CHECK_DEADLOCK FALSE
