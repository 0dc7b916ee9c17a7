CONSTANTS
  Gateway = "binance"
  Strategies = {m, a}
  Overrides = {"EXIT_RISK_GROSS"}
  PriceReasons = {}
  MaxPosition = 1
  Prices = {1, 3}
  TopPrice = 3
  EntrySides = {"BUY"}
  EntryBound = 0
  ExitBound = 1
  StrayBound = 1
SPECIFICATION FairPositionsSpec
CHECK_DEADLOCK FALSE
INVARIANTS
  PositionsTypeOK
  NavIdentity
  ExposureMissesOnlyTheRefused
PROPERTIES
  HeldTooLongIsClosed
