SPECIFICATION Spec
CONSTANTS
  PointerSize = 2
  Occurrences <- MCOccurrences
  MaxFindings = 2
  MaxRecent = 2
  MaxGcs = 3
  MaxSessions = 2
INVARIANTS TypeOK LatestListed PauseAttributedOnce PausesFit FindingsAreTold
CHECK_DEADLOCK FALSE
