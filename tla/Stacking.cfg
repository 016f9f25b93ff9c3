SPECIFICATION FairSpec
CONSTANTS
  MaxSessions = 3
  SocketCapacity = 1
  MaxBacklog = 1
  MinRate = 1
  MaxRate = 3
  InitRate = 2
  ChannelCapacity = 4
  MaxKeys = 2
  Keys <- RateKeys
  Traffic <- RateTraffic
  Faults = {"stop"}
INVARIANTS NoStacking
