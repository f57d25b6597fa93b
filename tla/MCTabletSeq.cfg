SPECIFICATION Spec
CONSTANTS
  r1 = r1
  r2 = r2
  r3 = r3
  r4 = r4
  Rows <- ThreeRows
  Threshold = 2
  MaxCrashes = 1
  MaxDrops = 0
  MaxFailures = 0
  MaxRollbacks = 0
CHECK_DEADLOCK FALSE
PROPERTY SeqNeverReused
