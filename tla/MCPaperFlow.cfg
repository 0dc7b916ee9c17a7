CONSTANTS
  Calls = {b1, b2, s1, s2}
  Buys = {b1, b2}
  Exits = {}
  Gateway = "paper"
  MaxPosition = 1
  Price = 4
  Fee = 1
  FillPrices = {3, 5}
  InitialQuote = 9
  InitialBase = 1
  MaxAttempts = 2
  FailureThreshold = 2
  HalfOpenMaxSuccesses = 1
  MaxFailures = 2
SPECIFICATION FairSpec
INVARIANTS
  OrderTypeOK
  ExposureExact
  QuoteBacked
PROPERTIES
  EveryPaperOrderFills
