CONSTANTS
  Home = "binance"
  Base = "BTC"
  Quote = "USDT"
  Others <- MCOthers
  Seed = 2
  MockQuote = 1
  TargetLists <- MCTargetLists
  None = None
  MaxEvents = 4
  MaxCommands = 1
  MaxTime = 1
SPECIFICATION Spec
CHECK_DEADLOCK FALSE
INVARIANTS
  LedgerTypeOK
  LedgerReplays
  RecoveryExactUnlessLate
  PlansAreSound
PROPERTIES
  FirstSyncRepairs
