CONSTANTS
  Capacity = 2
  MaxBatch = 2
  CounterLimit = 4
  MaxEvents = 6
SPECIFICATION FairSpec
INVARIANTS
  TypeOK
  NoSlotRace
  Fifo
  NoLostWakeup
  ConsumerNeverThrows
PROPERTIES
  EveryAcceptedIsReceived
  ImplementsFifo
CHECK_DEADLOCK FALSE
