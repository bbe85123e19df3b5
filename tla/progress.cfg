SPECIFICATION ProgressSpec
CONSTANTS
  Clerk = {t1, t2}
  Parent = {1, 2}
  Tenant = {"s1", "s2"}
  NoTenant = "gone"
  NoClerk = "nobody"
  MaxWrites = 2
  Process = {t1}
  SeqRetries = 1
  MaxIds = 2
  BatchSizes = {1}
  LongHorizon = TRUE
  ChunkSize = 1
  MaxStarts = 1
  SyncThread = {t1, t2}
  PushLimit = 1
  MaxFaults = 2
  Dispatcher = {t1, t2}
  Runner = {t3}
  Intervals = {0, 1}
  MaxTime = 2
  MaxJobs = 3
  MaxDeaths = 1
  Subscription = {"u1", "u2"}
  Courier = {t1}
  MaxRetries = 2
  MaxEvents = 1
  MaxCourierDeaths = 1
INVARIANTS ProgressTypeOK RelationsInScope NothingMissed
PROPERTIES WritesEnd EntriesArrive DueIsSettled DeliverySettles
CHECK_DEADLOCK FALSE
