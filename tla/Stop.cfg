SPECIFICATION FairSpec
CONSTANTS
  MaxSessions = 4
  SocketCapacity = 1
  MaxBacklog = 4
  MinRate = 1
  MaxRate = 3
  InitRate = 2
  ChannelCapacity = 3
  MaxKeys = 3
  Keys <- StopKeys
  Traffic <- StopTraffic
  Faults = {}
PROPERTIES StopAnswered
CHECK_DEADLOCK FALSE
