SPECIFICATION FairSpec
CONSTANTS
  NRoutes = 2
  Shadow <- SecondIsShadow
  Requests = {h1}
  Ops <- AllControlOps
  LiveEnabled = TRUE
  InitialKill = FALSE
  Pnls <- LossOrNothing
  MaxLoss = 1
  DdLimit = 1
  MaxPnl = 0
  MaxDay = 1
  MaxReleases = 1
  MaxCrashes = 1
INVARIANTS
  TypeOK
  StoppedCycleTakesNoTrade
  LateTradesBounded
  DailyResultBounded
PROPERTIES
  PauseEndsTrading
  ReleaseReachesFlag
