SPECIFICATION LegacySpec
CONSTANTS
  one = one
  two = two
  Process = {one, two}
  SeqRetries = 1
  MaxIds = 3
  BatchSizes = {1, 2}
  LongHorizon = TRUE
  ChunkSize = 1
  MaxStarts = 3
  Backends = {"sqlite", "sa_sqlite", "postgres", "sa_postgres"}
  MaxCommands = 2
  Owner = Owner
  Guest = Guest
  Data = {one, two}
  NoData = NoData
  Levels = {"read", "admin"}
  Barred = {Guest}
  MaxVersion = 3
  MaxTrace = 3
  MaxRollbacks = 1
  Scope = {"org", "team"}
  NoScope = "root"
  ParentOf <- MCParentOf
  Role = {"viewer"}
  Expiry = {"later"}
  Clerk = {one, two}
  MaxDepth = 20
  Depth = 2
  Value = {"a", "b"}
  NoValue = "unset"
  SettingWriter = {w1}
  ResolveDepth = 20
  Ref = {"r1"}
  VaultScope = {"s1"}
  Nowhere = "nowhere"
  AllowedScopes = {{"s1"}}
  Hand = {one, two}
  MaxSecretVersion = 3
  RuleId = {"r1"}
  Target = {"scope"}
  Condition <- MCCondition
  Key = {"action", "principal_kind"}
  Given = {"read", "user", "none"}
  Absent = "none"
  Editor = {one, two}
  MaxRuleVersion = 2
  Creator = {one, two}
  QuotaMax = 1
  RateMax = 1
  Window = 1
  MaxNow = 2
  MaxCreated = 4
  Obj = {one, two}
  MaxObjVersion = 2
  MaxMishaps = 1
  Uploader = {one, two}
  Content = {one, two}
  NoContent = NoContent
  MaxBlobVersion = 3
  MaxUploaderDeaths = 2
  Maker = {one, two}
  Person = {"p"}
  MaxEntries = 3
  MaxBoots = 1
  Agent = {one, two}
  MaxDeployments = 2
  MaxAgentDeaths = 1
  Stage = {"s1", "s2", "s3"}
  NoStage = "nostage"
  Mover = {one, two}
  MaxMoves = 4
  Operator = {one, two}
  ObjectType = {"doc", "secret"}
  SecretLike = {"secret"}
  MaxPolicies = 1
  MaxTraffic = 1
  SenderThread = {one, two}
  ProcessOf <- MCProcessOf
  MaxMessages = 3
  MaxRestarts = 2
  RouterCaller = {one, two, three}
  Admin = {admin}
  MaxBackends = 4
  Hook = {1, 2}
  Host = {one, two}
  MaxGrants = 1
  MaxHostDeaths = 1
  Keeper = {one, two}
  Item = {"i1", "i2"}
  MaxItemVersion = 3
  MaxPolicyCount = 2
SYMMETRY MCSymmetry
INVARIANTS LegacyTypeOK ChainIntact SchemaReached RestoresContent NothingDangling ClosedStaysClosed AnswersAgree GatesHold OnlyOnce 
PROPERTIES NothingUndone 
CHECK_DEADLOCK FALSE
