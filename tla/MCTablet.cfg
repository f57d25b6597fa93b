SPECIFICATION Spec
CONSTANTS
  r1 = r1
  r2 = r2
  r3 = r3
  r4 = r4
  Rows <- FourRows
  Threshold = 2
  MaxCrashes = 1
  MaxDrops = 1
  MaxFailures = 1
  MaxRollbacks = 1
SYMMETRY Symmetry
INVARIANTS
  
  RowsInPlace
  TruncatedGone
CHECK_DEADLOCK FALSE
