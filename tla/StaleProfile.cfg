SPECIFICATION FairSpec
CONSTANTS
  MaxSessions = 4
  SocketCapacity = 1
  MaxBacklog = 0
  MinRate = 1
  MaxRate = 3
  InitRate = 2
  ChannelCapacity = 8
  MaxKeys = 3
  Keys <- StaleKeys
  Traffic <- NoTraffic
  Faults = {}
PROPERTIES ProfileSessionEnds
