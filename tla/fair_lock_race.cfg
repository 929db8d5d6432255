SPECIFICATION Spec
CONSTANTS
  Tasks = {t1, t2, t3}
  NoTask = NoTask
  MaxDepth = 1
INVARIANT MutualExclusion
