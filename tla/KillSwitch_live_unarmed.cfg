SPECIFICATION Spec
CONSTANTS
  NRoutes = 2
  Shadow <- SecondIsShadow
  Requests = {h1}
  Ops <- SwitchToLive
  LiveEnabled = TRUE
  InitialKill = FALSE
  Pnls <- LossOrGain
  MaxLoss = 1
  DdLimit = 1
  MaxPnl = 1
  MaxDay = 0
  MaxReleases = 1
  MaxCrashes = 1
INVARIANT LiveTradesOnlyWhenArmed
