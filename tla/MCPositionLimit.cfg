CONSTANTS
  Gateway = "paper"
  Strategies = {m, a}
  Overrides = {}
  PriceReasons = {"EXIT_TP"}
  MaxPosition = 1
  Prices = {1, 2}
  TopPrice = 2
  EntrySides = {"BUY", "SELL"}
  EntryBound = 1
  ExitBound = 1
  StrayBound = 0
SPECIFICATION PositionsSpec
INVARIANTS
  PositionWithinLimit
