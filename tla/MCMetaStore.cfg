SPECIFICATION StoreSpec
CONSTANTS
  Tasks = {t1, t2}
  Keys = {k1}
  Values = {v1}
  None = None
  Empty = Empty
  Torn = Torn
INVARIANT SnapshotWhole
CHECK_DEADLOCK FALSE
