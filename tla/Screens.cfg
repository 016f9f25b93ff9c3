SPECIFICATION FairSpec
CONSTANTS
  MaxSessions = 4
  SocketCapacity = 1
  MaxBacklog = 1
  MinRate = 1
  MaxRate = 3
  InitRate = 2
  ChannelCapacity = 2
  MaxKeys = 3
  Keys <- ScreenKeys
  Traffic <- ScreenTraffic
  Faults = {"signal", "start", "draw"}
INVARIANTS FramesMatchSessions
PROPERTIES SilenceHolds LeavingEnds ProfileConcludes KeepsLease
