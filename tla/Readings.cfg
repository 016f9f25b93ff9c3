SPECIFICATION Spec
CONSTANTS
  Words <- MCWords
  Events <- MCEvents
  Polls <- MCPolls
  Intervals = {1, 3}
  HistoryCapacity = 3
  Width = 9
  Height = 4
  MaxSessions = 2
  MaxToggles = 2
INVARIANTS
  TypeOK SamplesAreTheRuntimes EndIsTold HistoryIsLatest PanelsFollowProviders
  ChartReadsBack NothingClipped SpanIsTime GcColumnsArePolls StackIsItsBands
  ChartAgreesWithPanel VarUintIsExact PaletteIsNearest BarsCompare
CHECK_DEADLOCK FALSE
