SPECIFICATION MCSpec
CONSTANTS
  ColumnValues = {1, 2, 3}
  ColumnRows = 3
  GranuleSize = 2
  SetLimit = 1
  InListLimit = 1
  BitsPerKey = 10
  Hash1 <- FirstHash
  Hash2 <- SecondHash
  Text <- ValueText
  Needles <- SearchTexts
  GramLength = 2
  PartKeys = {1, 2}
  MaxParts = 2
  ScanRequests <- ShardRequests
  BlockKeys = {k1, k2, k3}
  BlockSizes = {1, 2, 5}
  TotalBytes = 20
  FilterResistCount = 2
  Cubes = {k1, k2}
  MaxSubmitted = 4
  ChannelCap = 2
  FlushRows = 2
  FlushCap = 1
  LastOffset = 3
  PoisonOffsets = {1}
  MaxStarts = 2
  MaxCommitFaults = 1
  LoadBatches <- RowBatches
  MaxViewRows = 3
  ViewDefs <- TwoViews
  LoadSchema <- IngestSchema
  PartitionCol = "g"
  LoadBuckets = 2
  ParseInt <- IntOf
  HashOf <- CellHash
  MonthDays <- MonthLengths
  MaxDays = 4
  LoadThreads = {t1, t2}
  ColdAge = 1
  ArchiveAge <- ArchiveAfter
  PartNames = {"p1", "p2"}
  CreatedOn <- PartDay
  Bytes <- PartBytes
  MinBytes = 5
  RetainDays = 1
  TsUnit = 2
  RowTimes <- SomeTimes
  WatchPaths <- TwoPaths
  MaxUsage = 3
  FullThreshold = 2
  RecoveryThreshold = 1
  MaxPolls = 4
  MaxReportFaults = 1
  StatValues = {1, 2, 3}
  MaxFlushes = 3
  ByteBits = 2
  CountBytes = 2
  Word = 8
  Texts <- ShortTexts
  Integers32 = {0, 1, 4, 5, 7}
  Integers64 <- Words64
  MaxValues = 4
  WriteRows <- BatchRows
  MaxBatchRows = 2
  JsonRows <- JsonObjects
  JsonKeys = {"a", "b"}
  MaxJsonRows = 2
  MaxSegments = 2
  ThresholdNum = 1
  ThresholdDen = 2
  RowShapes <- TabletRowShapes
  MaxTabletRows = 3
  StreamCap = 1
  MaxItems = 4
  TabletDirs <- TabletLayouts
  MaxNewSegments = 3
  Partitions <- ShownPartitions
  Buckets = 2
  ReplicaNodes <- TwoNodes
  MaxShardChanges = 2
  QnPeers <- TwoQueryNodes
  MemberKinds <- NodeKinds
  OfflineAfter = 3
  MaxTime = 7
  MaxFaults = 1
  LoadTxs = {t1, t2}
  LoadClients = {c1, c2}
  BodyRows = {0, 2}
  MaxRequests = 5
INVARIANTS
  
  LruListSound
  
  
  
  EncodingsFaithful
CHECK_DEADLOCK FALSE
