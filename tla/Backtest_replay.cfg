SPECIFICATION Spec
CONSTANTS
  Rows <- AnyRow
  Healths <- AnyHealth
  Gains <- NoGainOrSome
  Penalties <- OneEach
  MaxRows = 3
  MaxHealths = 2
  MinFee = "fallback_only"
  MinBalance = "internal_ok"
  ZeroEdge = TRUE
INVARIANTS
  TypeOK
  TradesFollowHistory
  FillsPassTheGate
  RecordStandsForAnswer
  ResultMatchesTrades
CHECK_DEADLOCK FALSE
