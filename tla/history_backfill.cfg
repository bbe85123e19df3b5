SPECIFICATION HistorySpec
CONSTANTS
  w1 = w1
  w2 = w2
  s1 = s1
  s2 = s2
  a = a
  b = b
  Null = Null
  Worker = {w1, w2}
  Key = {1, 2}
  Scope = {s1, s2}
  Value = {a}
  CtxScope <- SameScope
  Mode = "enforce"
  Ops <- Maintenance
  OwnKeys = FALSE
  Blocks = FALSE
  Faults = TRUE
  LegacyKeys = {1, 2}
  MaxCalls = 3
  Drift = FALSE
INVARIANTS VerdictSound BaselineFirst BackfillCovers
PROPERTIES KeepsPromise
