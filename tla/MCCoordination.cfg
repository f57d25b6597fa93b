SPECIFICATION MCSpec
CONSTANTS
  p1 = p1
  p2 = p2
  admin = admin
  session = session
  Monitor = monitor
  StateKey = StateKey
  DbKey = DbKey
  Created = Created
  None = None
  Empty = Empty
  Torn = Torn
  WatchPaths <- Paths
  Admins = {admin}
  Sessions = {session}
  Tasks <- GuardTasks
  Keys <- StoreKeys
  Values <- StoreValues
  MaxEvents = 3
  n1 = n1
  n2 = n2
  n3 = n3
  Nodes <- ThreeNodes
  Storage <- ThreeNodes
  Shards = {1, 2, 3}
  Clients = {c1, c2}
  Capacity = 1
  MaxCmds = 2
  MaxFaults = 1
  TxNodes = {s1, s2}
  NoTx = NoTx
  MaxParts = 3
  PipelineBuffer = 1
  PipeShards <- TwoShards
  OperatorChains <- Chains
  RowLimit = 2
  MaxScanFaults = 1
INVARIANTS
  
  QuiescentAgreement
  PlansCurrent
  
  
PROPERTIES
  GuardFollowsDisk
  CommandsReturn
  PipelineCloses
  
CHECK_DEADLOCK FALSE
