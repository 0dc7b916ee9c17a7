--------------------------- MODULE CircuitBreaker ---------------------------
(***************************************************************************)
(* What a circuit breaker promises its callers, with neither concurrency   *)
(* nor retries: it opens after Threshold failures in a row, stays open     *)
(* until it is probed, and closes after Probes successes in a row.         *)
(***************************************************************************)
EXTENDS Naturals

CONSTANTS Threshold, Probes

VARIABLES
  state,   \* "closed", "open" or "half-open"
  count    \* closed: failures in a row; half-open: successes in a row

Init == state = "closed" /\ count = 0

CountFailure ==
  /\ state = "closed"
  /\ IF count + 1 < Threshold
       THEN count' = count + 1 /\ UNCHANGED state
       ELSE state' = "open" /\ count' = 0

ForgetFailures == state = "closed" /\ count' = 0 /\ UNCHANGED state

Probe == state = "open" /\ state' = "half-open" /\ count' = 0

CountProbe ==
  /\ state = "half-open"
  /\ IF count + 1 < Probes
       THEN count' = count + 1 /\ UNCHANGED state
       ELSE state' = "closed" /\ count' = 0

Reopen == state = "half-open" /\ state' = "open" /\ count' = 0

Next == CountFailure \/ ForgetFailures \/ Probe \/ CountProbe \/ Reopen

Spec == Init /\ [][Next]_<<state, count>>
=============================================================================
