SPECIFICATION Spec
CONSTANTS
  Words <- MCWords
  Events <- MCEvents
  Polls <- MCPolls
  Intervals = {1, 3}
  HistoryCapacity = 3
  Width = 9
  Height = 4
  MaxSessions = 2
  MaxToggles = 2
INVARIANT HistoryAsDescribed
CHECK_DEADLOCK FALSE
