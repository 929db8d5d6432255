SPECIFICATION Spec
CONSTANTS
  r1 = r1
  r2 = r2
  cheap = cheap
  dear = dear
  rule = rule
  bypass = bypass
  Requests = {r1, r2}
  Throttles = {cheap, dear}
  Cost <- MCCost
  Gate <- MCGate
  Rules = {rule, bypass}
  Bypasses = {bypass}
  Asking = {bypass}
  Matches <- MCMatches
  Own <- MCOwn
  Dynamic = {cheap}
  Configs <- MCConfigs
  MaxUpdates = 2
  MaxCloses = 1
INVARIANTS RefusalEnds RulesDecide
PROPERTY Recovers
