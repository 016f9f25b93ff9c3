SPECIFICATION Spec
CONSTANTS
  PointerSize = 2
  Occurrences <- MCOccurrences
  MaxFindings = 0
  MaxRecent = 2
  MaxGcs = 2
  MaxSessions = 1
INVARIANTS PauseIsOwn
CHECK_DEADLOCK FALSE
