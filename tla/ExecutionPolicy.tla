-------------------------- MODULE ExecutionPolicy --------------------------
(***************************************************************************)
(* src/packages/pipeline/src/executionPolicy.ts: retries and the circuit   *)
(* breaker around adapter.submit.  Every call of submit shares the breaker *)
(* and suspends at two awaits, adapter.submit and sleep, so calls          *)
(* interleave; between two awaits the event loop runs a call alone.        *)
(*                                                                         *)
(* A call is a slot: when its promise has settled the slot is "idle" and   *)
(* may be used for a later call.  The clock is abstracted to one bit,      *)
(* whether clock.now() has reached nextAttemptTs.                          *)
(***************************************************************************)
EXTENDS Integers

CONSTANTS
  Calls,               \* calls of submit that may be under way together
  MaxAttempts,         \* retry.maxAttempts
  FailureThreshold,    \* circuitBreaker.failureThreshold
  HalfOpenMaxSuccesses,\* circuitBreaker.halfOpenMaxSuccesses
  MaxFailures          \* bound of the model: where consecutiveFailures saturates,
                       \* which no test of the code can tell from counting on

ASSUME PolicyAssumption ==
  /\ MaxAttempts \in Nat \ {0}
  /\ FailureThreshold \in Nat \ {0}
  /\ HalfOpenMaxSuccesses \in Nat \ {0}
  /\ MaxFailures \in Nat /\ MaxFailures >= FailureThreshold

VARIABLES
  circuit,             \* state
  consecutiveFailures,
  halfOpenSuccesses,
  cooldown,            \* 1 while clock.now() < nextAttemptTs
  phase,               \* where each call is suspended
  attempt,             \* attempts each call has started
  result               \* how each slot's last call settled

breaker == <<circuit, consecutiveFailures, halfOpenSuccesses, cooldown>>
policyVars == <<circuit, consecutiveFailures, halfOpenSuccesses, cooldown,
                phase, attempt, result>>

PolicyInit ==
  /\ circuit = "closed" /\ consecutiveFailures = 0
  /\ halfOpenSuccesses = 0 /\ cooldown = 0
  /\ phase = [c \in Calls |-> "idle"]
  /\ attempt = [c \in Calls |-> 0]
  /\ result = [c \in Calls |-> "none"]

-----------------------------------------------------------------------------
Settle(c, outcome) ==
  /\ phase' = [phase EXCEPT ![c] = "idle"]
  /\ result' = [result EXCEPT ![c] = outcome]
  /\ UNCHANGED attempt

(* await adapter.submit, for the n-th time                                 *)
StartAttempt(c, n) ==
  /\ phase' = [phase EXCEPT ![c] = "calling"]
  /\ attempt' = [attempt EXCEPT ![c] = n]
  /\ result' = [result EXCEPT ![c] = "none"]

openCircuit ==
  /\ circuit' = "open"
  /\ halfOpenSuccesses' = 0
  /\ cooldown' = 1

(* moveToHalfOpenIfReady: the circuit's state when submit tests it.        *)
StateAtSubmit ==
  IF circuit = "open" /\ cooldown = 0 THEN "half-open" ELSE circuit

(* Defect: the breaker is never consulted, so calls pass while it is open. *)
SubmitWhileOpen(c) ==
  /\ phase[c] = "idle"
  /\ StartAttempt(c, 1)
  /\ circuit' = StateAtSubmit
  /\ halfOpenSuccesses' = IF StateAtSubmit = circuit THEN halfOpenSuccesses ELSE 0
  /\ UNCHANGED <<consecutiveFailures, cooldown>>

(* Defect: the cool-down is not waited for.                                *)
SubmitIgnoresCooldown(c) ==
  /\ phase[c] = "idle"
  /\ StartAttempt(c, 1)
  /\ circuit' = IF circuit = "open" THEN "half-open" ELSE circuit
  /\ halfOpenSuccesses' = IF circuit = "open" THEN 0 ELSE halfOpenSuccesses
  /\ UNCHANGED <<consecutiveFailures, cooldown>>

Submit(c) ==
  /\ phase[c] = "idle"
  /\ circuit' = StateAtSubmit
  /\ halfOpenSuccesses' = IF StateAtSubmit = circuit THEN halfOpenSuccesses ELSE 0
  /\ \/ StateAtSubmit = "open" /\ Settle(c, "blocked")
     \/ StateAtSubmit # "open" /\ StartAttempt(c, 1)
  /\ UNCHANGED <<consecutiveFailures, cooldown>>

(* The venue answers: adapter.submit's promise settles.                    *)
AdapterReturns(c, ok) ==
  /\ phase[c] = "calling"
  /\ phase' = [phase EXCEPT ![c] = IF ok THEN "resolved" ELSE "threw"]
  /\ UNCHANGED <<breaker, attempt, result>>

(* Defect: a success does not end the run of consecutive failures.         *)
OnSuccessKeepsFailures(c) ==
  /\ phase[c] = "resolved"
  /\ \/ /\ circuit # "half-open"
        /\ UNCHANGED <<circuit, halfOpenSuccesses>>
     \/ /\ circuit = "half-open" /\ halfOpenSuccesses + 1 < HalfOpenMaxSuccesses
        /\ halfOpenSuccesses' = halfOpenSuccesses + 1 /\ UNCHANGED circuit
     \/ /\ circuit = "half-open" /\ halfOpenSuccesses + 1 >= HalfOpenMaxSuccesses
        /\ circuit' = "closed" /\ halfOpenSuccesses' = 0
  /\ Settle(c, "ok")
  /\ UNCHANGED <<consecutiveFailures, cooldown>>

(* Defect: successes are not counted while half-open.                      *)
OnSuccessUncounted(c) ==
  /\ phase[c] = "resolved"
  /\ consecutiveFailures' = 0
  /\ Settle(c, "ok")
  /\ UNCHANGED <<circuit, halfOpenSuccesses, cooldown>>

OnSuccess(c) ==
  /\ phase[c] = "resolved"
  /\ consecutiveFailures' = 0
  /\ \/ /\ circuit # "half-open"
        /\ UNCHANGED <<circuit, halfOpenSuccesses>>
     \/ /\ circuit = "half-open" /\ halfOpenSuccesses + 1 < HalfOpenMaxSuccesses
        /\ halfOpenSuccesses' = halfOpenSuccesses + 1 /\ UNCHANGED circuit
     \/ /\ circuit = "half-open" /\ halfOpenSuccesses + 1 >= HalfOpenMaxSuccesses
        /\ circuit' = "closed" /\ halfOpenSuccesses' = 0
  /\ Settle(c, "ok")
  /\ UNCHANGED cooldown

Sleep(c) ==
  /\ phase' = [phase EXCEPT ![c] = "sleeping"]
  /\ UNCHANGED <<breaker, attempt, result>>

Exhausted(c) ==
  /\ consecutiveFailures' =
       IF consecutiveFailures < MaxFailures THEN consecutiveFailures + 1 ELSE MaxFailures
  /\ IF consecutiveFailures + 1 >= FailureThreshold
       THEN openCircuit
       ELSE UNCHANGED <<circuit, halfOpenSuccesses, cooldown>>
  /\ Settle(c, "failed")

(* Defect: the comparison with maxAttempts allows one attempt more.        *)
OnErrorOffByOne(c) ==
  /\ phase[c] = "threw"
  /\ \/ circuit = "half-open" /\ openCircuit /\ Settle(c, "failed")
                              /\ UNCHANGED consecutiveFailures
     \/ circuit # "half-open" /\ attempt[c] > MaxAttempts /\ Exhausted(c)
     \/ circuit # "half-open" /\ attempt[c] <= MaxAttempts /\ Sleep(c)

OnError(c) ==
  /\ phase[c] = "threw"
  /\ \/ circuit = "half-open" /\ openCircuit /\ Settle(c, "failed")
                              /\ UNCHANGED consecutiveFailures
     \/ circuit # "half-open" /\ attempt[c] >= MaxAttempts /\ Exhausted(c)
     \/ circuit # "half-open" /\ attempt[c] < MaxAttempts /\ Sleep(c)

(* Defect: a retry is not counted as an attempt.                           *)
WakeUncounted(c) ==
  /\ phase[c] = "sleeping"
  /\ StartAttempt(c, attempt[c])
  /\ UNCHANGED breaker

(* The sleep ends and the loop starts the next attempt, whatever the       *)
(* circuit has become meanwhile.                                           *)
Wake(c) ==
  /\ phase[c] = "sleeping"
  /\ StartAttempt(c, attempt[c] + 1)
  /\ UNCHANGED breaker

(* The clock reaches nextAttemptTs.                                        *)
Cool ==
  /\ cooldown = 1
  /\ cooldown' = 0
  /\ UNCHANGED <<circuit, consecutiveFailures, halfOpenSuccesses, phase, attempt, result>>

-----------------------------------------------------------------------------
PolicySettles(c) == (\E ok \in BOOLEAN : AdapterReturns(c, ok)) \/ OnSuccess(c) \/ OnError(c) \/ Wake(c)

PolicyNext == (\E c \in Calls : Submit(c) \/ PolicySettles(c)) \/ Cool

PolicySpec == PolicyInit /\ [][PolicyNext]_policyVars

(* Every fetch answers or errors, every timer fires and every continuation *)
(* runs, and the clock advances.  Nothing makes a caller submit.           *)
FairPolicySpec ==
  /\ PolicySpec
  /\ \A c \in Calls : WF_policyVars(PolicySettles(c))
  /\ WF_policyVars(Cool)

-----------------------------------------------------------------------------
(* Types; no call ever starts more than MaxAttempts attempts, and the      *)
(* half-open successes stay below the number that closes the circuit.      *)
PolicyTypeOK ==
  /\ circuit \in {"closed", "open", "half-open"}
  /\ consecutiveFailures \in 0..MaxFailures
  /\ halfOpenSuccesses \in 0..(HalfOpenMaxSuccesses - 1)
  /\ cooldown \in {0, 1}
  /\ phase \in [Calls -> {"idle", "calling", "resolved", "threw", "sleeping"}]
  /\ attempt \in [Calls -> 0..MaxAttempts]
  /\ result \in [Calls -> {"none", "ok", "failed", "blocked"}]

(* Until clock.now() reaches nextAttemptTs the circuit is open, whatever   *)
(* the calls that were under way when it tripped come back with.           *)
CooldownHeld == cooldown = 1 => circuit = "open"

(* While the circuit stays open only calls that were already under way     *)
(* reach the venue: their set shrinks.                                     *)
Underway == {c \in Calls : phase[c] # "idle"}
OpenShedsLoad == [][circuit = "open" /\ circuit' = "open" => Underway' \subseteq Underway]_policyVars

(* However the calls interleave, and whenever a late answer is counted,    *)
(* the circuit behaves as a sequential breaker: no late answer opens a     *)
(* closed circuit early, closes an open one or undoes a trip.              *)
Breaker == INSTANCE CircuitBreaker WITH
  Threshold <- FailureThreshold,
  Probes <- HalfOpenMaxSuccesses,
  state <- circuit,
  count <- CASE circuit = "closed" -> consecutiveFailures
             [] circuit = "half-open" -> halfOpenSuccesses
             [] circuit = "open" -> 0
ImplementsBreaker == Breaker!Spec

(* The promise of every submit settles.                                    *)
EverySubmitSettles == \A c \in Calls : phase[c] # "idle" ~> phase[c] = "idle"

(* Once the venue stops failing, calls that keep arriving close the        *)
(* circuit, and it stays closed.                                           *)
RecoversOnceHealthy ==
  /\ []<><<\E c \in Calls : Submit(c)>>_policyVars
  /\ <>[][~ \E c \in Calls : AdapterReturns(c, FALSE)]_policyVars
  => <>[](circuit = "closed")
=============================================================================
