CONSTANTS
  Drivers = {"sqlite", "postgres"}
  Capacity = 2
  MaxBatch = 2
  MaxAttempts = 2
  MaxEvents = 5
SPECIFICATION FairSpec
CHECK_DEADLOCK FALSE
INVARIANTS
  PersistTypeOK
  EachEventInOnePlace
  QueuedStoredInOrder
  ExposureBounded
PROPERTIES
  QueuedEventSettles
  InlineAppendSettles
  ShutdownEndsWorker
