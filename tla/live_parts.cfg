SPECIFICATION LiveSpec
CONSTANTS
  t1 = t1
  t2 = t2
  m1 = m1
  m2 = m2
  m3 = m3
  Thread = {t1, t2}
  Request = {r1, r2}
  Home <- MCHome
  NoContext = NoContext
  Server = Server
  Invalid = Invalid
  NoThread = NoThread
  MaxChunks = 3
  Task = {t1, t2}
  Manager = {m1, m2, m3}
  NoManager = NoManager
  MaxBlocks = 3
  ScopeOf <- MCScopeOf
  Row = {1, 2}
  RowScope <- MCRowScope
  QuerySet = {"q1", "q2"}
  MaxReads = 4
  Model = {"line", "order", "note"}
  Relation <- MCRelation
  Resource = {1, 2}
  Payload = {"x", "y"}
  ChainScope = {"s1", "s2"}
  MaxAppends = 2
  MaxEdits = 2
INVARIANTS LiveTypeOK ServerUntouched OwnContext InnermostContext RowsInScope GuardsComplete TamperingShows
CHECK_DEADLOCK FALSE
