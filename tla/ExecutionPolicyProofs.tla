----------------------- MODULE ExecutionPolicyProofs -----------------------
(* Theorems about ExecutionPolicy, for any number of overlapping calls and  *)
(* any positive retry and breaker settings.                                 *)
EXTENDS ExecutionPolicy, TLAPS

(* A sleeping call has an attempt left, and a closed circuit has seen fewer *)
(* failures in a row than would have opened it.                             *)
PolicyInv ==
  /\ PolicyTypeOK
  /\ CooldownHeld
  /\ \A c \in Calls : phase[c] = "sleeping" => attempt[c] < MaxAttempts
  /\ circuit = "closed" => consecutiveFailures < FailureThreshold

USE DEF breaker, policyVars

LEMMA InitPolicyInv == PolicyInit => PolicyInv
  BY PolicyAssumption DEF PolicyInit, PolicyInv, PolicyTypeOK, CooldownHeld

(* Settling or starting an attempt touches only the call's own slot.        *)
LEMMA SettleInv ==
  ASSUME PolicyInv, NEW c \in Calls, NEW o \in {"ok", "failed", "blocked"}, Settle(c, o)
  PROVE  /\ phase' \in [Calls -> {"idle", "calling", "resolved", "threw", "sleeping"}]
         /\ attempt' \in [Calls -> 0..MaxAttempts]
         /\ result' \in [Calls -> {"none", "ok", "failed", "blocked"}]
         /\ \A d \in Calls : phase'[d] = "sleeping" => attempt'[d] < MaxAttempts
  BY DEF Settle, PolicyInv, PolicyTypeOK

LEMMA StartInv ==
  ASSUME PolicyInv, NEW c \in Calls, NEW n \in 0..MaxAttempts, StartAttempt(c, n)
  PROVE  /\ phase' \in [Calls -> {"idle", "calling", "resolved", "threw", "sleeping"}]
         /\ attempt' \in [Calls -> 0..MaxAttempts]
         /\ result' \in [Calls -> {"none", "ok", "failed", "blocked"}]
         /\ \A d \in Calls : phase'[d] = "sleeping" => attempt'[d] < MaxAttempts
  <1>1. phase' \in [Calls -> {"idle", "calling", "resolved", "threw", "sleeping"}]
    BY DEF StartAttempt, PolicyInv, PolicyTypeOK
  <1>2. attempt' \in [Calls -> 0..MaxAttempts]
    BY DEF StartAttempt, PolicyInv, PolicyTypeOK
  <1>3. result' \in [Calls -> {"none", "ok", "failed", "blocked"}]
    BY DEF StartAttempt, PolicyInv, PolicyTypeOK
  <1>4. \A d \in Calls : phase'[d] = "sleeping" => attempt'[d] < MaxAttempts
    BY DEF StartAttempt, PolicyInv, PolicyTypeOK
  <1> QED BY <1>1, <1>2, <1>3, <1>4

LEMMA NextPolicyInv == PolicyInv /\ [PolicyNext]_policyVars => PolicyInv'
<1> SUFFICES ASSUME PolicyInv, [PolicyNext]_policyVars PROVE PolicyInv'
  OBVIOUS
<1> USE PolicyAssumption
<1>1. ASSUME NEW c \in Calls, Submit(c) PROVE PolicyInv'
  <2>1. CASE StateAtSubmit = "open"
    <3>1. Settle(c, "blocked")  BY <1>1, <2>1 DEF Submit, Settle, StartAttempt
    <3> QED BY <1>1, <2>1, <3>1, SettleInv
            DEF Submit, StateAtSubmit, PolicyInv, PolicyTypeOK, CooldownHeld
  <2>2. CASE StateAtSubmit # "open"
    <3>1. StartAttempt(c, 1)  BY <1>1, <2>2 DEF Submit, Settle, StartAttempt
    <3> QED BY <1>1, <2>2, <3>1, StartInv
            DEF Submit, StateAtSubmit, PolicyInv, PolicyTypeOK, CooldownHeld
  <2> QED BY <2>1, <2>2
<1>2. ASSUME NEW c \in Calls, NEW ok \in BOOLEAN, AdapterReturns(c, ok) PROVE PolicyInv'
  BY <1>2 DEF AdapterReturns, PolicyInv, PolicyTypeOK, CooldownHeld
<1>3. ASSUME NEW c \in Calls, OnSuccess(c) PROVE PolicyInv'
  BY <1>3, SettleInv DEF OnSuccess, PolicyInv, PolicyTypeOK, CooldownHeld
<1>4. ASSUME NEW c \in Calls, OnError(c) PROVE PolicyInv'
  <2>1. CASE Sleep(c) /\ attempt[c] < MaxAttempts
    BY <2>1 DEF Sleep, PolicyInv, PolicyTypeOK, CooldownHeld
  <2>2. CASE Exhausted(c)
    <3>1. Settle(c, "failed")  BY <2>2 DEF Exhausted
    <3> QED BY <2>2, <3>1, SettleInv
            DEF Exhausted, openCircuit, PolicyInv, PolicyTypeOK, CooldownHeld
  <2>3. CASE openCircuit /\ Settle(c, "failed") /\ UNCHANGED consecutiveFailures
    BY <2>3, SettleInv DEF openCircuit, PolicyInv, PolicyTypeOK, CooldownHeld
  <2> QED BY <1>4, <2>1, <2>2, <2>3 DEF OnError
<1>5. ASSUME NEW c \in Calls, Wake(c) PROVE PolicyInv'
  <2>1. attempt[c] + 1 \in 0..MaxAttempts
    BY <1>5 DEF Wake, PolicyInv, PolicyTypeOK
  <2>2. StartAttempt(c, attempt[c] + 1)  BY <1>5 DEF Wake
  <2> QED BY <1>5, <2>1, <2>2, StartInv DEF Wake, PolicyInv, PolicyTypeOK, CooldownHeld
<1>6. CASE Cool
  BY <1>6 DEF Cool, PolicyInv, PolicyTypeOK, CooldownHeld
<1>7. CASE UNCHANGED policyVars
  BY <1>7 DEF PolicyInv, PolicyTypeOK, CooldownHeld
<1> QED BY <1>1, <1>2, <1>3, <1>4, <1>5, <1>6, <1>7 DEF PolicyNext, PolicySettles

LEMMA PolicyInvariant == PolicySpec => []PolicyInv
  BY InitPolicyInv, NextPolicyInv, PTL DEF PolicySpec

(* Attempts are bounded by maxAttempts and probes by halfOpenMaxSuccesses.  *)
THEOREM PolicyTypeCorrect == PolicySpec => []PolicyTypeOK
  BY PolicyInvariant, PTL DEF PolicyInv

(* No late answer ends a cool-down early.                                   *)
THEOREM CooldownIsHeld == PolicySpec => []CooldownHeld
  BY PolicyInvariant, PTL DEF PolicyInv

(* No call joins those under way while the circuit stays open.              *)
THEOREM OpenCircuitShedsLoad == PolicySpec => OpenShedsLoad
<1>1. ASSUME PolicyInv, [PolicyNext]_policyVars, circuit = "open", circuit' = "open"
      PROVE  Underway' \subseteq Underway
  <2>1. ASSUME NEW c \in Calls, Submit(c) PROVE Underway' \subseteq Underway
    <3>1. Settle(c, "blocked")  BY <1>1, <2>1 DEF Submit
    <3> QED BY <1>1, <3>1 DEF Settle, Underway, PolicyInv, PolicyTypeOK
  <2>2. ASSUME NEW c \in Calls, PolicySettles(c) PROVE Underway' \subseteq Underway
    <3>1. phase[c] # "idle"
      BY <2>2 DEF PolicySettles, AdapterReturns, OnSuccess, OnError, Wake
    <3>2. \A d \in Calls : d # c => phase'[d] = phase[d]
      BY <1>1, <2>2 DEF PolicySettles, AdapterReturns, OnSuccess, OnError, Wake, Settle,
         StartAttempt, Sleep, Exhausted, PolicyInv, PolicyTypeOK
    <3> QED BY <3>1, <3>2 DEF Underway
  <2>3. CASE Cool \/ UNCHANGED policyVars
    BY <2>3 DEF Cool, Underway
  <2> QED BY <1>1, <2>1, <2>2, <2>3 DEF PolicyNext
<1>2. PolicyInv /\ [PolicyNext]_policyVars
        => [circuit = "open" /\ circuit' = "open" => Underway' \subseteq Underway]_policyVars
  BY <1>1
<1> QED BY <1>2, PolicyInvariant, PTL DEF PolicySpec, OpenShedsLoad

(* Whatever the interleaving, the circuit is a sequential breaker's.        *)
THEOREM PolicyIsABreaker == PolicySpec => ImplementsBreaker
<1> USE PolicyAssumption DEF Breaker!Init, Breaker!Next, Breaker!CountFailure,
      Breaker!ForgetFailures, Breaker!Probe, Breaker!CountProbe, Breaker!Reopen
<1> DEFINE count == CASE circuit = "closed" -> consecutiveFailures
                      [] circuit = "half-open" -> halfOpenSuccesses
                      [] circuit = "open" -> 0
           Step == [Breaker!Next]_<<circuit, count>>
<1>1. PolicyInit => Breaker!Init
  BY DEF PolicyInit
<1>2. PolicyInv /\ [PolicyNext]_policyVars => Step
  <2> SUFFICES ASSUME PolicyInv, [PolicyNext]_policyVars PROVE Step
    OBVIOUS
  <2>1. ASSUME NEW c \in Calls, Submit(c) PROVE Step
    BY <2>1 DEF Submit, StateAtSubmit, PolicyInv, PolicyTypeOK
  <2>2. ASSUME NEW c \in Calls, OnSuccess(c) PROVE Step
    BY <2>2 DEF OnSuccess, PolicyInv, PolicyTypeOK
  <2>3. ASSUME NEW c \in Calls, OnError(c) PROVE Step
    BY <2>3 DEF OnError, Sleep, Exhausted, openCircuit, PolicyInv, PolicyTypeOK
  <2>4. ASSUME UNCHANGED <<circuit, consecutiveFailures, halfOpenSuccesses>> PROVE Step
    BY <2>4
  <2> QED BY <2>1, <2>2, <2>3, <2>4
          DEF PolicyNext, PolicySettles, AdapterReturns, Wake, Cool
<1> QED BY <1>1, <1>2, PolicyInvariant, PTL DEF PolicySpec, ImplementsBreaker, Breaker!Spec
=============================================================================
