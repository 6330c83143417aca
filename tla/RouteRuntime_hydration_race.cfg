\* The scan loop may be faster than the restored rows.
CONSTANTS
  Routes = {r1}
  Requests = {h1}
  Scanner = Scanner
  Ops <- OnlyClear
  MaxFails = 1
  MaxLosses = 1
  Cooldown = 1
  HydrationWins = FALSE
  FailBound = 1
  MaxNow = 0
  MaxCrashes = 1
SPECIFICATION Spec
PROPERTIES QuarantineHolds
