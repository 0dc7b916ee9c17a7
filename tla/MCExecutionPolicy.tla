------------------------- MODULE MCExecutionPolicy -------------------------
(* Three overlapping calls: one can trip the breaker or probe it while two *)
(* stale ones, started before the trip, are still to answer.               *)
EXTENDS ExecutionPolicy

=============================================================================
