SPECIFICATION FairSpec
CONSTANTS
  Probes = {rpc}
  Window = 2
  Skew = 2
  AlertThreshold = 2
  MaxIncidents = 1
INVARIANT TypeOK
INVARIANT TradesThrottledByAlerts
PROPERTY PauseLagBounded
PROPERTY EvidenceBounded
PROPERTY AlertBlockEnds
CHECK_DEADLOCK FALSE
