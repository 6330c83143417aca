SPECIFICATION Spec
CONSTANTS
  owner = owner
  other = other
  r1 = r1
  r2 = r2
  usdc = usdc
  usdt = usdt
  executor = executor
  Accounts <- TwoAccounts
  Routers = {r1, r2}
  Tokens = {usdc, usdt}
  Executor = executor
  RouteIds = {arb}
  Amounts <- AmountsTo1
  Offered <- TwoRoutes
  Funds <- SmallFunds
INVARIANTS
  TypeOK
  FundsCovered
PROPERTIES
  TradesAtomically
