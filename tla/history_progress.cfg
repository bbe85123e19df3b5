SPECIFICATION HistoryFairSpec
CONSTANTS
  w1 = w1
  w2 = w2
  s1 = s1
  s2 = s2
  a = a
  b = b
  Null = Null
  Worker = {w1, w2}
  Key = {1, 2}
  Scope = {s1}
  Value = {a}
  CtxScope <- SameScope
  Mode = "enforce"
  Ops <- Locking
  OwnKeys = FALSE
  Blocks = FALSE
  Faults = FALSE
  LegacyKeys = {1, 2}
  MaxCalls = 3
  Drift = FALSE
PROPERTIES OperationsEnd
CHECK_DEADLOCK FALSE
