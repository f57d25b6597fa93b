SPECIFICATION SelectSpec
CONSTANTS
  StorageNodes = {1, 2}
  Connections = {c1, c2}
  Batches <- RowBatches
  MaxSelects = 2
  MaxTruncates = 1
  MaxSnFaults = 1
  Words <- WordOrder
  NumericWord <- WordNumber
  LikePairs <- LikeHolds
  Databases <- NullTables
  Queries <- NullTestQuery
  Sessions = {c1, c2}
  Statements <- DdlStatements
  MaxStatements = 4
  MaxCubeIds = 2
  SnNodes <- TabletHosts
  Replication = 2
  BucketCount = 3
  n1 = n1
  n2 = n2
  Callers = {c1, c2}
  MaxVersions = 2
  MaxTicks = 2
  CacheTtl = 1
  ShardEntries <- ShardVersions
  MaxEntries = 1
  PlanHashes = {1}
  DictValues = {"x", "y"}
  MaxNdv = 2
  PlanCubes = {"t", "u"}
  PlanStatements <- PlannedSelects
  PlanJoins <- PlannedJoins
  PlanDbs <- PlanTables
  ComputeNodes <- CnList
  ScanShards = {1, 2, 3}
  ShardHome <- HomeOf
  MaxPlanned = 2
  PlacementNodes <- PlacementList
  MaxBuckets = 4
  EventTables = {"e1", "e2"}
  BtNames = {"b1", "b2"}
  RoutedQueries <- WordQueries
  DdlSessions = {c1, c2}
  MaxRegistered = 3
  MaxWarnings = 1
  Groups = {"default", "g"}
  QueryIds = {q1, q2, q3}
  Limits = {0, 1}
  HistoryCap = 2
  MaxGroupDdl = 2
  Clients = {c1, c2}
  SessionTtl = 1
  MaxTime = 3
  SessionDbs = {"d"}
  EventUsers = {u1, u2}
  EventNames = {"A", "B"}
  Dates <- EventDays
  MaxEvents = 4
  MaxBatch = 2
  FunnelSteps <- TwoSteps
  FunnelWindow = 7
  EntryEvent = "A"
  ReturnEvent = "B"
  MaxPeriods = 2
  PathDefs <- PathQueries
  WindowLength = 2
  SessionTimeout = 1
  IntMin <- LeastInt
  RowKeys <- KeyChoices
  RowCounts <- TwoAndOne
  FilterRanges <- KeyRanges
  PartitionCounts = {0, 2}
  TopK = 2
  CubeStatements <- WrittenStatements
  NumberOf <- Numerals
INVARIANT PruningKeepsAnswer
CHECK_DEADLOCK FALSE
