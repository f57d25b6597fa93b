CONSTANTS
  Entries = {e1, e2, e3}
  Torn = Torn
  MaxSegment = 2
  MaxFaults = 2
SPECIFICATION Spec
INVARIANTS AckedReplayed ReplayExact
PROPERTIES ReplayGrows AppendReturns
CHECK_DEADLOCK FALSE
