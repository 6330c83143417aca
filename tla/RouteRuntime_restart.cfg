\* One route, one operator beside the scan loop, a crash at any point, counters
\* below their limits.
CONSTANTS
  Routes = {r1}
  Requests = {h1}
  Scanner = Scanner
  Ops <- EveryOp
  MaxFails = 2
  MaxLosses = 2
  Cooldown = 1
  HydrationWins = TRUE
  FailBound = 2
  MaxNow = 1
  MaxCrashes = 1
SPECIFICATION Spec
INVARIANTS TypeOK SavedRowMatchesMemory
PROPERTIES QuarantineHolds KeepsQuarantine
