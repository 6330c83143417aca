SPECIFICATION FairSpec
CONSTANTS
  RawEdges = {1, 4}
  Costs = {1}
  LiveMinEdge = 1
  ShadowMinEdge = 3
  LivePersist = 1
  ShadowPersist = 1
  DepegLimits = {2}
  MaxTrades = 1
  Window = 1
  MaxNow = 2
  MaxCrashes = 0
PROPERTIES
  PaperTrades
