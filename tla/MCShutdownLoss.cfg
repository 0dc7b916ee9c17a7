CONSTANTS
  Drivers = {"sqlite"}
  Capacity = 2
  MaxBatch = 2
  MaxAttempts = 2
  MaxEvents = 5
SPECIFICATION Spec
CHECK_DEADLOCK FALSE
INVARIANTS
  EveryEventIsPersisted
