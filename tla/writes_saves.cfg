SPECIFICATION Spec
CONSTANTS
  w1 = w1
  w2 = w2
  s1 = s1
  s2 = s2
  a = a
  b = b
  Null = Null
  Worker = {w1, w2}
  Key = {1, 2}
  Scope = {s1, s2}
  Value = {a, b}
  CtxScope <- SameScope
  Mode = "enforce"
  Ops <- NoDeletes
  OwnKeys = FALSE
  Blocks = FALSE
  Faults = FALSE
  LegacyKeys = {1}
  MaxCalls = 3
INVARIANTS TypeOK HistoryVerifies
PROPERTIES KeepsPromise
