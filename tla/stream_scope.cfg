SPECIFICATION Spec
CONSTANTS
  t1 = t1
  t2 = t2
  Thread = {t1, t2}
  Request = {r1, r2}
  Home <- MCHome
  NoContext = NoContext
  Server = Server
  Invalid = Invalid
  NoThread = NoThread
  MaxChunks = 3
INVARIANTS ScopeHolds
