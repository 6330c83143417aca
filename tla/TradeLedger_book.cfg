SPECIFICATION Spec
CONSTANTS
  NRoutes = 2
  Pnls <- LossOrGain
  MaxLoss = 1
  MaxGain = 1
  DdLimit = 1
  MaxAttempts = 3
  MaxDay = 1
  MaxResumes = 1
  MaxFailures = 1
  MaxCrashes = 1
INVARIANTS
  TypeOK
  ExecutionsMatchAttempts
  OutcomeAfterState
  AttemptsAccountedFor
  MemoryNearBook
  DayLossBounded
