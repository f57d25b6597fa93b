CONSTANTS
  w1 = w1  w2 = w2  w3 = w3
  r1 = r1  r2 = r2  r3 = r3  r4 = r4
  Writers <- MCWriters
  Rows <- MCRows
  RowSize <- MCRowSize
  Threshold = 2
  NoCall = NoCall
SPECIFICATION Spec
INVARIANTS ExactlyOnce GenerationsOrdered TablesExact
PROPERTIES FrozenNeverWritten InsertReturns
CHECK_DEADLOCK FALSE
