SPECIFICATION Spec
CONSTANTS
  Keys = {0, 1}
  Trigger = 1
  L1Max = 1
  Multiplier = 3
  MaxLevels = 2
  FileSize = 2
  Ttl = 1
  RewriteAt = 4
  NoJob = NoJob
  MaxFlushes = 3
  MaxNow = 1
  MaxFaults = 1
INVARIANTS
  DataExact
  RecoveryKeepsData
  DeepLevelsDisjoint
PROPERTIES
  CompactionSettles
CHECK_DEADLOCK FALSE
