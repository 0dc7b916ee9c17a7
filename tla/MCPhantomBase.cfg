CONSTANTS
  Calls = {b1, b2, x1}
  Buys = {b1, b2}
  Exits = {x1}
  Gateway = "binance"
  MaxPosition = 1
  Price = 4
  Fee = 1
  FillPrices = {4}
  InitialQuote = 9
  InitialBase = 1
  MaxAttempts = 2
  FailureThreshold = 1
  HalfOpenMaxSuccesses = 1
  MaxFailures = 1
SPECIFICATION Spec
INVARIANTS
  PendingBaseWillFill
