------------------------ MODULE MCSharedEventQueue ------------------------
(* Small instance of SharedEventQueue.  CounterLimit stands for 2^31 and is *)
(* small enough for both counters to wrap within MaxEvents.                 *)
EXTENDS SharedEventQueue
============================================================================
