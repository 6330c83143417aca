SPECIFICATION Spec
CONSTANTS
  NRoutes = 2
  Shadow <- SecondIsShadow
  Requests = {h1}
  Ops <- PauseAndResume
  LiveEnabled = TRUE
  InitialKill = FALSE
  Pnls <- LossOrGain
  MaxLoss = 1
  DdLimit = 1
  MaxPnl = 1
  MaxDay = 1
  MaxReleases = 1
  MaxCrashes = 0
PROPERTY DailyStopUsesTodaysResult
