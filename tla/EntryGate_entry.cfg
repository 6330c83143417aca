SPECIFICATION Spec
CONSTANTS
  RawEdges = {1, 2, 4}
  Costs = {1}
  LiveMinEdge = 1
  ShadowMinEdge = 3
  LivePersist = 1
  ShadowPersist = 2
  DepegLimits = {2, 4}
  MaxTrades = 2
  Window = 1
  MaxNow = 3
  MaxCrashes = 1
INVARIANTS
  TypeOK
  RateBounded
PROPERTIES
  EdgeHeld
  GapReviewed
