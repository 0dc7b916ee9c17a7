-------------------------- MODULE OrderFlowProofs --------------------------
(* Theorems about OrderFlow, for any set of orders, any limits and either   *)
(* gateway unless the theorem says so.                                      *)
EXTENDS OrderFlow, ExecutionPolicyProofs, SumProofs

(* How the engine's view of an order, the policy's and the fills fit        *)
(* together: this is what makes the properties below inductive.             *)
LifeOf(o) ==
  /\ engine[o] \in {"none", "denied"} =>
       /\ phase[o] = "idle" /\ result[o] = "none"
       /\ pending[o] = 0 /\ pendingBaseAdds[o] = 0
       /\ o \notin pendingFees \cup intents \cup filled
  /\ engine[o] = "submitted" => phase[o] = "idle" /\ result[o] = "ok"
  /\ engine[o] = "failed" => phase[o] = "idle" /\ result[o] \in {"failed", "blocked"}
  /\ phase[o] # "idle" => result[o] = "none"
  /\ o \in filled => phase[o] = "resolved" \/ result[o] = "ok"
Lifecycle == \A o \in Orders : LifeOf(o)

OrderInv ==
  /\ PolicyInv
  /\ OrderTypeOK
  /\ Lifecycle
  /\ TrackingAgrees
  /\ FailedHoldsNothing

USE DEF Orders, policyVars, breaker, vars, orderVars, guardVars, reconcilerVars, ledgerVars

-----------------------------------------------------------------------------
(* What each of the policy's steps does to its own call and to the others.  *)
LEMMA PolicySlot ==
  ASSUME PolicyTypeOK, NEW o \in Calls,
         Submit(o) \/ PolicySettles(o)
  PROVE  \A p \in Calls : p # o => phase'[p] = phase[p] /\ result'[p] = result[p]
  BY DEF PolicyTypeOK, Submit, PolicySettles, AdapterReturns, OnSuccess, OnError, Wake,
         Settle, StartAttempt, Sleep, Exhausted

LEMMA SubmitSlot ==
  ASSUME PolicyTypeOK, NEW o \in Calls, Submit(o)
  PROVE  \/ phase'[o] = "idle" /\ result'[o] = "blocked"
         \/ phase'[o] = "calling" /\ result'[o] = "none"
  BY DEF PolicyTypeOK, Submit, Settle, StartAttempt

LEMMA ReturnSlot ==
  ASSUME PolicyTypeOK, NEW o \in Calls, NEW ok \in BOOLEAN, AdapterReturns(o, ok)
  PROVE  /\ phase[o] = "calling"
         /\ phase'[o] = IF ok THEN "resolved" ELSE "threw"
         /\ result' = result
  BY DEF PolicyTypeOK, AdapterReturns

LEMMA SettleSlot ==
  ASSUME PolicyTypeOK, NEW o \in Calls, OnSuccess(o) \/ OnError(o) \/ Wake(o)
  PROVE  \/ phase[o] = "resolved" /\ phase'[o] = "idle" /\ result'[o] = "ok"
         \/ phase[o] = "threw" /\ phase'[o] = "idle" /\ result'[o] = "failed"
         \/ phase[o] = "threw" /\ phase'[o] = "sleeping" /\ result'[o] = result[o]
         \/ phase[o] = "sleeping" /\ phase'[o] = "calling" /\ result'[o] = "none"
  BY DEF PolicyTypeOK, OnSuccess, OnError, Wake, Settle, StartAttempt, Sleep, Exhausted

-----------------------------------------------------------------------------
(* Every step of the flow is a step of the policy or leaves it alone, so    *)
(* what is proved of the policy holds of the flow.                          *)
LEMMA FlowStepsPolicy == [Next]_vars => [PolicyNext]_policyVars
  BY DEF Next, OrderSettles, GatewayStep, Deny, Approve, PaperAck, PaperFill, BinanceAccepts,
         BinanceFills, BinanceFails, PolicyStep, SubmitReturns, SubmitThrows, CheckPending,
         CancelReturns, ClockCools, PolicyNext, PolicySettles

(* The retries and the breaker inside the order flow behave as the policy   *)
(* on its own does.                                                         *)
THEOREM FlowImplementsPolicy == Spec => PolicySpec
<1>1. Init => PolicyInit  BY DEF Init
<1> QED BY <1>1, FlowStepsPolicy, PTL DEF Spec, PolicySpec

-----------------------------------------------------------------------------
(* The guard's operations keep its types and touch only the order's entry.  *)
GuardTypes ==
  /\ pending \in [Orders -> 0..Notional] /\ pendingTotal \in Nat
  /\ pendingBaseAdds \in [Orders -> 0..1] /\ pendingBaseAddsTotal \in Nat

LEMMA NotionalNat == Notional \in Nat
  BY OrderAssumption DEF Notional

LEMMA ReserveFacts ==
  ASSUME GuardTypes, NEW o \in Orders, ReserveBuy(o), pending[o] = 0, pendingBaseAdds[o] = 0
  PROVE  /\ GuardTypes'
         /\ \A p \in Orders : p # o => pending'[p] = pending[p] /\ pendingBaseAdds'[p] = pendingBaseAdds[p]
  BY NotionalNat DEF GuardTypes, ReserveBuy

LEMMA ReleaseFacts ==
  ASSUME GuardTypes, NEW o \in Orders, Release(o)
  PROVE  /\ GuardTypes'
         /\ pending'[o] = 0
         /\ \A p \in Orders : p # o => pending'[p] = pending[p]
         /\ pendingBaseAdds' = pendingBaseAdds
  BY NotionalNat DEF GuardTypes, Release, AtLeast0

LEMMA ConsumeFacts ==
  ASSUME GuardTypes, NEW o \in Orders, NEW a \in Nat, Consume(o, a)
  PROVE  /\ pending' \in [Orders -> 0..Notional] /\ pendingTotal' \in Nat
         /\ \A p \in Orders : p # o => pending'[p] = pending[p]
  <1>1. pending[o] - Smaller(pending[o], a) \in 0..Notional
    BY NotionalNat DEF GuardTypes, Smaller
  <1>2. AtLeast0(pendingTotal - Smaller(pending[o], a)) \in Nat
    BY NotionalNat DEF GuardTypes, Smaller, AtLeast0
  <1> QED BY <1>1, <1>2 DEF GuardTypes, Consume

LEMMA OnFillFacts ==
  ASSUME GuardTypes, NEW o \in Orders, NEW px \in FillPrices, OnFill(o, px),
         quote \in Int, base \in Int
  PROVE  /\ GuardTypes' /\ quote' \in Int /\ base' \in Int
         /\ pendingFees' = pendingFees \ {o}
         /\ pendingOrders' = pendingOrders \ {o}
         /\ intents' = intents \ {o}
         /\ filled' = filled \cup {o}
         /\ \A p \in Orders : p # o => pending'[p] = pending[p] /\ pendingBaseAdds'[p] = pendingBaseAdds[p]
  <1> DEFINE fee == IF o \in pendingFees THEN Fee ELSE 0
             debit == IF o \in Buys THEN px + fee ELSE fee - px
             amount == fee + (IF debit < 0 THEN -debit ELSE debit)
  <1>1. px \in Nat /\ fee \in Nat  BY OrderAssumption
  <1>2. debit \in Int /\ amount \in Nat  BY <1>1
  <1> HIDE DEF fee
  <1>3. Consume(o, amount)  BY DEF OnFill, fee
  <1> HIDE DEF amount
  <1>4. /\ pending' \in [Orders -> 0..Notional] /\ pendingTotal' \in Nat
        /\ \A p \in Orders : p # o => pending'[p] = pending[p]
    BY <1>2, <1>3, ConsumeFacts
  <1>5. /\ pendingBaseAdds' \in [Orders -> 0..1] /\ pendingBaseAddsTotal' \in Nat
        /\ \A p \in Orders : p # o => pendingBaseAdds'[p] = pendingBaseAdds[p]
    <2>1. CASE o \in Buys
      BY <2>1 DEF OnFill, ReleaseBase, AtLeast0, GuardTypes
    <2>2. CASE o \notin Buys
      BY <2>2 DEF OnFill, GuardTypes
    <2> QED BY <2>1, <2>2
  <1>6. quote' = quote - debit /\ base' = base + Signed(o)  BY DEF OnFill, fee
  <1>7. quote' \in Int  BY <1>2, <1>6
  <1>8. base' \in Int  BY <1>6 DEF Signed
  <1> QED BY <1>4, <1>5, <1>7, <1>8 DEF OnFill, GuardTypes

-----------------------------------------------------------------------------
LEMMA InitOrderInv == Init => OrderInv
<1> SUFFICES ASSUME Init PROVE OrderInv
  OBVIOUS
<1> USE OrderAssumption, NotionalNat
<1>1. PolicyInv  BY InitPolicyInv DEF Init
<1>2. OrderTypeOK  BY <1>1 DEF Init, OrderTypeOK, PolicyInv
<1>3. Lifecycle  BY DEF Init, PolicyInit, Lifecycle, LifeOf
<1>4. TrackingAgrees /\ FailedHoldsNothing  BY DEF Init, TrackingAgrees, FailedHoldsNothing
<1> QED BY <1>1, <1>2, <1>3, <1>4 DEF OrderInv

(* Types and reservations that one order's step leaves as they should be.   *)
OtherTypes ==
  /\ engine \in [Orders -> {"none", "denied", "awaiting", "submitted", "failed"}]
  /\ exposure \in Int
  /\ pendingOrders \subseteq Orders /\ pendingFees \subseteq Orders
  /\ intents \subseteq Orders /\ acked \subseteq Orders /\ alertedAck \subseteq Orders
  /\ alertedFill \subseteq Orders /\ cancelAttempted \subseteq Orders
  /\ cancelling \subseteq Orders
  /\ quote \in Int /\ base \in Int /\ filled \subseteq Orders

LEMMA TypesSplit == OrderTypeOK <=> PolicyTypeOK /\ GuardTypes /\ OtherTypes
  BY DEF OrderTypeOK, GuardTypes, OtherTypes

(* A step of one order is judged by that order alone.                       *)
HeldOf(o) ==
  engine[o] = "failed" => pending[o] = 0 /\ o \notin pendingFees \cup intents \cup filled

Kept(p) ==
  /\ engine'[p] = engine[p] /\ phase'[p] = phase[p] /\ result'[p] = result[p]
  /\ pending'[p] = pending[p] /\ pendingBaseAdds'[p] = pendingBaseAdds[p]
  /\ p \in pendingFees' => p \in pendingFees
  /\ p \in intents' => p \in intents
  /\ p \in filled' <=> p \in filled

LEMMA OneOrderStep ==
  ASSUME OrderInv, PolicyInv', GuardTypes', OtherTypes', TrackingAgrees', NEW o \in Orders,
         \A p \in Orders : p # o => Kept(p),
         LifeOf(o)', HeldOf(o)'
  PROVE  OrderInv'
<1>1. OrderTypeOK'
  BY DEF PolicyInv, GuardTypes, OtherTypes, OrderTypeOK
<1>2. \A p \in Orders : LifeOf(p)'
  <2> TAKE p \in Orders
  <2>1. CASE p = o  BY <2>1
  <2>2. CASE p # o  BY <2>2 DEF Kept, OrderInv, Lifecycle, LifeOf
  <2> QED BY <2>1, <2>2
<1>3. FailedHoldsNothing'
  <2> SUFFICES ASSUME NEW p \in Orders PROVE HeldOf(p)'
    BY DEF FailedHoldsNothing, HeldOf
  <2>1. CASE p = o  BY <2>1
  <2>2. CASE p # o  BY <2>2 DEF Kept, OrderInv, FailedHoldsNothing, HeldOf
  <2> QED BY <2>1, <2>2
<1> QED BY <1>1, <1>2, <1>3 DEF OrderInv, Lifecycle

LEMMA NextOrderInv == OrderInv /\ [Next]_vars => OrderInv'
<1> SUFFICES ASSUME OrderInv, [Next]_vars PROVE OrderInv'
  OBVIOUS
<1>1. PolicyInv'
  BY FlowStepsPolicy, NextPolicyInv DEF OrderInv
<1>2. PolicyTypeOK /\ GuardTypes /\ OtherTypes
  BY TypesSplit DEF OrderInv
<1>3. Lifecycle /\ TrackingAgrees /\ FailedHoldsNothing
  BY DEF OrderInv
<1>4. ASSUME NEW o \in Orders, Deny(o) PROVE OrderInv'
  <2>0. /\ engine[o] = "none" /\ engine' = [engine EXCEPT ![o] = "denied"]
        /\ UNCHANGED <<policyVars, exposure, guardVars, pendingOrders, pendingFees,
                       reconcilerVars, ledgerVars>>
    BY <1>4 DEF Deny
  <2>1. GuardTypes' /\ OtherTypes'  BY <1>2, <2>0 DEF GuardTypes, OtherTypes
  <2>2. \A p \in Orders : p # o => Kept(p)  BY <1>2, <2>0 DEF OtherTypes, Kept
  <2>3. engine'[o] = "denied"  BY <1>2, <2>0 DEF OtherTypes
  <2>4. LifeOf(o)' /\ HeldOf(o)'  BY <1>3, <2>0, <2>3 DEF Lifecycle, LifeOf, HeldOf
  <2>5. TrackingAgrees'  BY <1>3, <2>0 DEF TrackingAgrees
  <2> QED BY <1>1, <2>1, <2>2, <2>4, <2>5, OneOrderStep
<1>5. ASSUME NEW o \in Orders, Approve(o) PROVE OrderInv'
  <2>0. /\ engine[o] = "none" /\ engine' = [engine EXCEPT ![o] = "awaiting"]
        /\ exposure' = exposure + Signed(o)
        /\ pendingOrders' = pendingOrders \cup {o}
        /\ intents' = intents \cup {o}
        /\ pendingFees' = pendingFees \cup {o}
        /\ ReserveBuy(o) /\ Submit(o)
        /\ UNCHANGED <<acked, alertedAck, alertedFill, cancelAttempted, cancelling, quote, base, filled>>
    BY <1>5 DEF Approve
  <2>1. pending[o] = 0 /\ pendingBaseAdds[o] = 0 /\ o \notin filled
    BY <1>3, <2>0 DEF Lifecycle, LifeOf
  <2>2. /\ GuardTypes'
        /\ \A p \in Orders : p # o => pending'[p] = pending[p] /\ pendingBaseAdds'[p] = pendingBaseAdds[p]
    BY <1>2, <2>0, <2>1, ReserveFacts
  <2>3. OtherTypes'  BY <1>2, <2>0 DEF OtherTypes, Signed
  <2>4. \A p \in Orders : p # o => phase'[p] = phase[p] /\ result'[p] = result[p]
    BY <1>2, <2>0, PolicySlot
  <2>5. \A p \in Orders : p # o => Kept(p)
    BY <1>2, <2>0, <2>2, <2>4 DEF OtherTypes, Kept
  <2>6. engine'[o] = "awaiting"  BY <1>2, <2>0 DEF OtherTypes
  <2>7. LifeOf(o)' /\ HeldOf(o)'
    BY <1>2, <2>0, <2>1, <2>6, SubmitSlot DEF LifeOf, HeldOf
  <2>8. TrackingAgrees'  BY <1>3, <2>0, <2>1 DEF TrackingAgrees
  <2> QED BY <1>1, <2>2, <2>3, <2>5, <2>7, <2>8, OneOrderStep
<1>6. ASSUME NEW o \in Orders, PaperAck(o) PROVE OrderInv'
  <2>0. UNCHANGED <<policyVars, engine, exposure, guardVars, pendingOrders, pendingFees,
                    intents, ledgerVars>>
    BY <1>6 DEF PaperAck
  <2>1. GuardTypes' /\ OtherTypes'
    BY <1>2, <1>6 DEF GuardTypes, OtherTypes, PaperAck, OnAck
  <2>2. \A p \in Orders : Kept(p)  BY <2>0 DEF Kept
  <2>3. LifeOf(o)' /\ HeldOf(o)'
    BY <1>3, <2>0 DEF Lifecycle, LifeOf, FailedHoldsNothing, HeldOf
  <2>4. TrackingAgrees'  BY <1>3, <2>0 DEF TrackingAgrees
  <2> QED BY <1>1, <2>1, <2>2, <2>3, <2>4, OneOrderStep
<1>7. ASSUME NEW o \in Orders, NEW px \in FillPrices, PaperFill(o, px) \/ BinanceFills(o, px)
      PROVE  OrderInv'
  <2>0. /\ AdapterReturns(o, TRUE) /\ OnFill(o, px)
        /\ UNCHANGED <<engine, exposure, alertedFill, cancelling>>
        /\ acked' \subseteq Orders /\ alertedAck' \subseteq Orders /\ cancelAttempted' \subseteq Orders
    BY <1>2, <1>7 DEF PaperFill, BinanceFills, OnAck, OtherTypes
  <2>1. /\ GuardTypes' /\ quote' \in Int /\ base' \in Int
        /\ pendingFees' = pendingFees \ {o}
        /\ pendingOrders' = pendingOrders \ {o}
        /\ intents' = intents \ {o}
        /\ filled' = filled \cup {o}
        /\ \A p \in Orders : p # o => pending'[p] = pending[p] /\ pendingBaseAdds'[p] = pendingBaseAdds[p]
    BY <1>2, <2>0, OnFillFacts DEF OtherTypes
  <2>2. OtherTypes'  BY <1>2, <2>0, <2>1 DEF OtherTypes
  <2>3. /\ phase[o] = "calling" /\ phase'[o] = "resolved" /\ result' = result
        /\ \A p \in Orders : p # o => phase'[p] = phase[p]
    BY <1>2, <2>0, ReturnSlot, PolicySlot DEF PolicySettles
  <2>4. \A p \in Orders : p # o => Kept(p)
    BY <2>0, <2>1, <2>3 DEF Kept
  <2>5. engine[o] = "awaiting" /\ result[o] = "none"
    BY <1>2, <1>3, <2>3 DEF Lifecycle, LifeOf, OtherTypes
  <2>6. LifeOf(o)' /\ HeldOf(o)'
    BY <2>0, <2>1, <2>3, <2>5 DEF LifeOf, HeldOf
  <2>7. TrackingAgrees'  BY <1>3, <2>1 DEF TrackingAgrees
  <2> QED BY <1>1, <2>1, <2>2, <2>4, <2>6, <2>7, OneOrderStep
<1>8. ASSUME NEW o \in Orders, BinanceAccepts(o) PROVE OrderInv'
  <2>0. /\ AdapterReturns(o, TRUE)
        /\ UNCHANGED <<engine, exposure, guardVars, pendingOrders, pendingFees, intents, ledgerVars>>
    BY <1>8 DEF BinanceAccepts
  <2>1. GuardTypes' /\ OtherTypes'
    BY <1>2, <1>8 DEF GuardTypes, OtherTypes, BinanceAccepts, OnAck
  <2>2. /\ phase[o] = "calling" /\ phase'[o] = "resolved" /\ result' = result
        /\ \A p \in Orders : p # o => phase'[p] = phase[p]
    BY <1>2, <2>0, ReturnSlot, PolicySlot DEF PolicySettles
  <2>3. \A p \in Orders : p # o => Kept(p)  BY <2>0, <2>2 DEF Kept
  <2>4. LifeOf(o)' /\ HeldOf(o)'
    BY <1>3, <2>0, <2>2 DEF Lifecycle, LifeOf, FailedHoldsNothing, HeldOf
  <2>5. TrackingAgrees'  BY <1>3, <2>0 DEF TrackingAgrees
  <2> QED BY <1>1, <2>1, <2>3, <2>4, <2>5, OneOrderStep
<1>9. ASSUME NEW o \in Orders, BinanceFails(o) PROVE OrderInv'
  <2>0. /\ AdapterReturns(o, FALSE)
        /\ Release(o)
        /\ pendingFees' = pendingFees \ {o} /\ pendingOrders' = pendingOrders \ {o}
        /\ intents' = intents \ {o}
        /\ exposure' = IF o \in pendingOrders THEN exposure - Signed(o) ELSE exposure
        /\ UNCHANGED <<engine, acked, alertedAck, alertedFill, cancelAttempted, cancelling, quote, base, filled>>
    BY <1>9 DEF BinanceFails, OnReject
  <2>1. /\ GuardTypes' /\ pending'[o] = 0 /\ pendingBaseAdds' = pendingBaseAdds
        /\ \A p \in Orders : p # o => pending'[p] = pending[p]
    BY <1>2, <2>0, ReleaseFacts
  <2>2. OtherTypes'  BY <1>2, <2>0 DEF OtherTypes, Signed
  <2>3. /\ phase[o] = "calling" /\ phase'[o] = "threw" /\ result' = result
        /\ \A p \in Orders : p # o => phase'[p] = phase[p]
    BY <1>2, <2>0, ReturnSlot, PolicySlot DEF PolicySettles
  <2>4. \A p \in Orders : p # o => Kept(p)  BY <2>0, <2>1, <2>3 DEF Kept
  <2>5. LifeOf(o)' /\ HeldOf(o)'
    BY <1>3, <2>0, <2>1, <2>3 DEF Lifecycle, LifeOf, FailedHoldsNothing, HeldOf
  <2>6. TrackingAgrees'  BY <1>3, <2>0 DEF TrackingAgrees
  <2> QED BY <1>1, <2>1, <2>2, <2>4, <2>5, <2>6, OneOrderStep
<1>10. ASSUME NEW o \in Orders, PolicyStep(o) PROVE OrderInv'
  <2>0. (OnSuccess(o) \/ OnError(o) \/ Wake(o)) /\ UNCHANGED orderVars
    BY <1>10 DEF PolicyStep
  <2>1. GuardTypes' /\ OtherTypes'  BY <1>2, <2>0 DEF GuardTypes, OtherTypes
  <2>2. \A p \in Orders : p # o => phase'[p] = phase[p] /\ result'[p] = result[p]
    BY <1>2, <2>0, PolicySlot DEF PolicySettles
  <2>3. \A p \in Orders : p # o => Kept(p)  BY <2>0, <2>2 DEF Kept
  <2>4. LifeOf(o)' /\ HeldOf(o)'
    BY <1>2, <1>3, <2>0, SettleSlot DEF Lifecycle, LifeOf, FailedHoldsNothing, HeldOf
  <2>5. TrackingAgrees'  BY <1>3, <2>0 DEF TrackingAgrees
  <2> QED BY <1>1, <2>1, <2>3, <2>4, <2>5, OneOrderStep
<1>11. ASSUME NEW o \in Orders, SubmitReturns(o) PROVE OrderInv'
  <2>0. /\ engine[o] = "awaiting" /\ result[o] = "ok"
        /\ engine' = [engine EXCEPT ![o] = "submitted"]
        /\ UNCHANGED <<policyVars, exposure, guardVars, pendingOrders, pendingFees,
                       reconcilerVars, ledgerVars>>
    BY <1>11 DEF SubmitReturns
  <2>1. GuardTypes' /\ OtherTypes'  BY <1>2, <2>0 DEF GuardTypes, OtherTypes
  <2>2. \A p \in Orders : p # o => Kept(p)  BY <1>2, <2>0 DEF OtherTypes, Kept
  <2>3. engine'[o] = "submitted"  BY <1>2, <2>0 DEF OtherTypes
  <2>4. LifeOf(o)' /\ HeldOf(o)'  BY <1>3, <2>0, <2>3 DEF Lifecycle, LifeOf, HeldOf
  <2>5. TrackingAgrees'  BY <1>3, <2>0 DEF TrackingAgrees
  <2> QED BY <1>1, <2>1, <2>2, <2>4, <2>5, OneOrderStep
<1>12. ASSUME NEW o \in Orders, SubmitThrows(o) PROVE OrderInv'
  <2>0. /\ engine[o] = "awaiting" /\ result[o] \in {"failed", "blocked"}
        /\ engine' = [engine EXCEPT ![o] = "failed"]
        /\ pendingFees' = pendingFees \ {o} /\ intents' = intents \ {o}
        /\ pendingOrders' = pendingOrders \ {o}
        /\ exposure' = exposure - Signed(o)
        /\ Release(o)
        /\ UNCHANGED <<policyVars, acked, alertedAck, alertedFill, cancelAttempted, cancelling,
                       quote, base, filled>>
    BY <1>12 DEF SubmitThrows
  <2>1. /\ GuardTypes' /\ pending'[o] = 0 /\ pendingBaseAdds' = pendingBaseAdds
        /\ \A p \in Orders : p # o => pending'[p] = pending[p]
    BY <1>2, <2>0, ReleaseFacts
  <2>2. OtherTypes'  BY <1>2, <2>0 DEF OtherTypes, Signed
  <2>3. engine'[o] = "failed" /\ \A p \in Orders : p # o => Kept(p)
    BY <1>2, <2>0, <2>1 DEF OtherTypes, Kept
  <2>4. LifeOf(o)' /\ HeldOf(o)'
    BY <1>3, <2>0, <2>1, <2>3 DEF Lifecycle, LifeOf, HeldOf
  <2>5. TrackingAgrees'  BY <1>3, <2>0 DEF TrackingAgrees
  <2> QED BY <1>1, <2>1, <2>2, <2>3, <2>4, <2>5, OneOrderStep
<1>13. ASSUME NEW o \in Orders, NEW ok \in BOOLEAN, CancelReturns(o, ok) PROVE OrderInv'
  <2>0. /\ pendingFees' \subseteq pendingFees /\ cancelling' \subseteq cancelling
        /\ UNCHANGED <<policyVars, engine, exposure, guardVars, pendingOrders, intents, acked,
                       alertedAck, alertedFill, cancelAttempted, ledgerVars>>
    BY <1>13 DEF CancelReturns
  <2>1. GuardTypes' /\ OtherTypes'  BY <1>2, <2>0 DEF GuardTypes, OtherTypes
  <2>2. \A p \in Orders : Kept(p)  BY <2>0 DEF Kept
  <2>3. LifeOf(o)' /\ HeldOf(o)'
    BY <1>3, <2>0 DEF Lifecycle, LifeOf, FailedHoldsNothing, HeldOf
  <2>4. TrackingAgrees'  BY <1>3, <2>0 DEF TrackingAgrees
  <2> QED BY <1>1, <2>1, <2>2, <2>3, <2>4, OneOrderStep
<1>14. ASSUME NEW late \in SUBSET intents, CheckPending(late) PROVE OrderInv'
  <2>0. /\ pendingFees' \subseteq pendingFees
        /\ UNCHANGED <<policyVars, engine, exposure, guardVars, pendingOrders, intents, acked,
                       ledgerVars>>
    BY <1>14 DEF CheckPending
  <2>1. late \subseteq Orders  BY <1>2, <1>14 DEF OtherTypes
  <2>2. GuardTypes' /\ OtherTypes'
    BY <1>2, <1>14, <2>0, <2>1 DEF GuardTypes, OtherTypes, CheckPending
  <2>3. OrderTypeOK'  BY <1>1, <2>2 DEF PolicyInv, GuardTypes, OtherTypes, OrderTypeOK
  <2>4. Lifecycle'  BY <1>3, <2>0 DEF Lifecycle, LifeOf
  <2>5. TrackingAgrees' /\ FailedHoldsNothing'
    BY <1>3, <2>0 DEF TrackingAgrees, FailedHoldsNothing
  <2> QED BY <1>1, <2>3, <2>4, <2>5 DEF OrderInv
<1>15. ASSUME ClockCools \/ UNCHANGED vars PROVE OrderInv'
  <2>0. UNCHANGED <<orderVars, phase, result>>  BY <1>15 DEF ClockCools, Cool
  <2>1. OrderTypeOK'  BY <1>1, <1>2, <2>0 DEF PolicyInv, GuardTypes, OtherTypes, OrderTypeOK
  <2>2. Lifecycle' /\ TrackingAgrees' /\ FailedHoldsNothing'
    BY <1>3, <2>0 DEF Lifecycle, LifeOf, TrackingAgrees, FailedHoldsNothing
  <2> QED BY <1>1, <2>1, <2>2 DEF OrderInv
<1> QED BY <1>4, <1>5, <1>6, <1>7, <1>8, <1>9, <1>10, <1>11, <1>12, <1>13, <1>14, <1>15
        DEF Next, OrderSettles, GatewayStep

LEMMA OrderInvariant == Spec => []OrderInv
  BY InitOrderInv, NextOrderInv, PTL DEF Spec

(* Types; no reservation and no running total is ever negative.             *)
THEOREM OrderTypeCorrect == Spec => []OrderTypeOK
  BY OrderInvariant, PTL DEF OrderInv

(* The reconciler and the engine track the same orders, none of them filled.*)
THEOREM TrackersAgree == Spec => []TrackingAgrees
  BY OrderInvariant, PTL DEF OrderInv

(* A failed order has not filled and holds nothing that a later step could  *)
(* consume, cancel or charge.                                               *)
THEOREM FailedOrdersHoldNothing == Spec => []FailedHoldsNothing
  BY OrderInvariant, PTL DEF OrderInv

-----------------------------------------------------------------------------
(* The fold that adds up a reservation map is the sum of its entries, and   *)
(* an entry's change is the sum's change.                                   *)
LEMMA SumIsSumOver ==
  ASSUME NEW f
  PROVE  Sum(f) = SumOver(f, DOMAIN f)
  BY DEF Sum, SumOver, PartialSums, AnElement, FoldFunction, FoldFunctionOnSet, MapThenFoldSet

LEMMA EntryChange ==
  ASSUME NEW f \in [Orders -> Nat], NEW o \in Orders, NEW n \in Nat
  PROVE  /\ Sum([f EXCEPT ![o] = n]) = Sum(f) - f[o] + n
         /\ Sum(f) \in Nat /\ f[o] <= Sum(f)
  <1> DEFINE g == [f EXCEPT ![o] = n]
  <1>1. DOMAIN f = Orders /\ DOMAIN g = Orders /\ f \in [Orders -> Int] /\ g \in [Orders -> Int]
    OBVIOUS
  <1>2. g[o] = n /\ \A p \in Orders \ {o} : g[p] = f[p]  OBVIOUS
  <1>3. Sum(f) = SumOver(f, Orders) /\ Sum(g) = SumOver(g, Orders)
    BY <1>1, SumIsSumOver
  <1>4. SumOver(g, Orders) = SumOver(f, Orders) - f[o] + n
    <2> HIDE DEF g
    <2> QED BY <1>1, <1>2, OrderAssumption, SumOverUpdate
  <1>5. SumOver(f, Orders) \in Nat /\ f[o] <= SumOver(f, Orders)
    BY OrderAssumption, SumOverNat
  <1> QED BY <1>3, <1>4, <1>5

(* Each operation of the guard changes a total as it changes the map.       *)
LEMMA ReserveTotals ==
  ASSUME GuardTypes, ReservationTotals, NEW o \in Orders, ReserveBuy(o)
  PROVE  ReservationTotals'
  <1> USE DEF GuardTypes, ReservationTotals
  <1>1. CASE o \in Buys
    <2>1. /\ pending' = [pending EXCEPT ![o] = pending[o] + Notional]
          /\ pendingTotal' = pendingTotal + Notional
          /\ pendingBaseAdds' = [pendingBaseAdds EXCEPT ![o] = pendingBaseAdds[o] + 1]
          /\ pendingBaseAddsTotal' = pendingBaseAddsTotal + 1
      BY <1>1 DEF ReserveBuy
    <2>2. pending \in [Orders -> Nat] /\ pendingBaseAdds \in [Orders -> Nat]
      BY NotionalNat
    <2>3. pending[o] + Notional \in Nat /\ pendingBaseAdds[o] + 1 \in Nat
      BY <2>2, NotionalNat
    <2>4. Sum(pending') = Sum(pending) - pending[o] + (pending[o] + Notional)
      BY <2>1, <2>2, <2>3, EntryChange
    <2>5. Sum(pendingBaseAdds') =
            Sum(pendingBaseAdds) - pendingBaseAdds[o] + (pendingBaseAdds[o] + 1)
      BY <2>1, <2>2, <2>3, EntryChange
    <2> QED BY <2>1, <2>2, <2>4, <2>5, NotionalNat
  <1>2. CASE o \notin Buys
    BY <1>2 DEF ReserveBuy
  <1> QED BY <1>1, <1>2

LEMMA ReleaseTotals ==
  ASSUME GuardTypes, ReservationTotals, NEW o \in Orders, Release(o)
  PROVE  ReservationTotals'
  <1> USE DEF GuardTypes, ReservationTotals
  <1>1. /\ pending' = [pending EXCEPT ![o] = 0]
        /\ pendingTotal' = AtLeast0(pendingTotal - pending[o])
        /\ UNCHANGED <<pendingBaseAdds, pendingBaseAddsTotal>>
    BY DEF Release
  <1>2. pending \in [Orders -> Nat]  BY NotionalNat
  <1>3. Sum(pending') = Sum(pending) - pending[o] + 0 /\ pending[o] <= Sum(pending)
    BY <1>1, <1>2, EntryChange
  <1>4. pendingTotal' = pendingTotal - pending[o]
    BY <1>1, <1>2, <1>3 DEF AtLeast0
  <1> QED BY <1>1, <1>2, <1>3, <1>4

LEMMA ReleaseBaseTotals ==
  ASSUME GuardTypes, ReservationTotals, NEW o \in Orders, ReleaseBase(o)
  PROVE  pendingBaseAddsTotal' = Sum(pendingBaseAdds')
  <1> USE DEF GuardTypes, ReservationTotals
  <1>1. /\ pendingBaseAdds' = [pendingBaseAdds EXCEPT ![o] = 0]
        /\ pendingBaseAddsTotal' = AtLeast0(pendingBaseAddsTotal - pendingBaseAdds[o])
    BY DEF ReleaseBase
  <1>2. pendingBaseAdds \in [Orders -> Nat]  OBVIOUS
  <1>3. /\ Sum(pendingBaseAdds') = Sum(pendingBaseAdds) - pendingBaseAdds[o] + 0
        /\ pendingBaseAdds[o] <= Sum(pendingBaseAdds)
    BY <1>1, <1>2, EntryChange
  <1>4. pendingBaseAddsTotal' = pendingBaseAddsTotal - pendingBaseAdds[o]
    BY <1>1, <1>2, <1>3 DEF AtLeast0
  <1> QED BY <1>2, <1>3, <1>4

LEMMA ConsumeTotals ==
  ASSUME GuardTypes, ReservationTotals, NEW o \in Orders, NEW a \in Nat, Consume(o, a)
  PROVE  pendingTotal' = Sum(pending')
  <1> USE DEF GuardTypes, ReservationTotals
  <1> DEFINE cut == Smaller(pending[o], a)
  <1>1. /\ pending' = [pending EXCEPT ![o] = pending[o] - cut]
        /\ pendingTotal' = AtLeast0(pendingTotal - cut)
    BY DEF Consume
  <1>2. pending \in [Orders -> Nat]  BY NotionalNat
  <1>3. cut \in Nat /\ cut <= pending[o] /\ pending[o] - cut \in Nat
    BY <1>2 DEF Smaller
  <1> HIDE DEF cut
  <1>4. /\ Sum(pending') = Sum(pending) - pending[o] + (pending[o] - cut)
        /\ pending[o] <= Sum(pending)
    BY <1>1, <1>2, <1>3, EntryChange
  <1>5. pendingTotal' = pendingTotal - cut
    BY <1>1, <1>2, <1>3, <1>4 DEF AtLeast0
  <1> QED BY <1>2, <1>3, <1>4, <1>5

LEMMA NextTotals ==
  ASSUME OrderInv, ReservationTotals, [Next]_vars
  PROVE  ReservationTotals'
<1>1. GuardTypes  BY TypesSplit DEF OrderInv
<1>2. ASSUME NEW o \in Orders, NEW px \in FillPrices, OnFill(o, px)
      PROVE  ReservationTotals'
  <2> DEFINE fee == IF o \in pendingFees THEN Fee ELSE 0
             debit == IF o \in Buys THEN px + fee ELSE fee - px
             amount == fee + (IF debit < 0 THEN -debit ELSE debit)
  <2>1. px \in Nat /\ fee \in Nat  BY OrderAssumption
  <2>2. amount \in Nat  BY <2>1
  <2>3. Consume(o, amount)  BY <1>2 DEF OnFill
  <2> HIDE DEF amount
  <2>4. pendingTotal' = Sum(pending')
    BY <1>1, <2>2, <2>3, ConsumeTotals
  <2>5. pendingBaseAddsTotal' = Sum(pendingBaseAdds')
    <3>1. CASE o \in Buys
      BY <1>1, <1>2, <3>1, ReleaseBaseTotals DEF OnFill
    <3>2. CASE o \notin Buys
      BY <1>2, <3>2 DEF OnFill, ReservationTotals
    <3> QED BY <3>1, <3>2
  <2> QED BY <2>4, <2>5 DEF ReservationTotals
<1>3. ASSUME NEW o \in Orders, ReserveBuy(o) \/ Release(o) PROVE ReservationTotals'
  BY <1>1, <1>3, ReserveTotals, ReleaseTotals
<1>4. ASSUME UNCHANGED guardVars PROVE ReservationTotals'
  BY <1>4 DEF ReservationTotals
<1>5. CASE UNCHANGED vars  BY <1>4, <1>5
<1>6. CASE Next
  BY <1>2, <1>3, <1>4, <1>6
     DEF Next, OrderSettles, GatewayStep, Deny, Approve, PaperAck, PaperFill, BinanceAccepts,
         BinanceFills, BinanceFails, OnReject, PolicyStep, SubmitReturns, SubmitThrows,
         CheckPending, CancelReturns, ClockCools
<1> QED BY <1>5, <1>6

LEMMA InitTotals == Init => ReservationTotals
<1> SUFFICES ASSUME Init PROVE ReservationTotals
  OBVIOUS
<1>1. /\ pending = [o \in Orders |-> 0] /\ pendingTotal = 0
      /\ pendingBaseAdds = [o \in Orders |-> 0] /\ pendingBaseAddsTotal = 0
  BY DEF Init
<1> DEFINE zero == [o \in Orders |-> 0]
<1>2. zero \in [Orders -> Int] /\ DOMAIN zero = Orders /\ \A o \in Orders : zero[o] = 0
  OBVIOUS
<1> HIDE DEF zero
<1>3. Sum(zero) = 0
  BY <1>2, OrderAssumption, SumIsSumOver, SumOverZero
<1> QED BY <1>1, <1>3 DEF ReservationTotals, zero

(* The guard's running totals are the sums of its maps, with any number of  *)
(* orders open and under either gateway: no interleaving of reserve,        *)
(* consume and release, repeated or too early, makes them drift, and the    *)
(* clamp at zero never hides a difference.                                  *)
THEOREM ReservationTotalsAreSums == Spec => []ReservationTotals
<1>1. ReservationTotals /\ OrderInv /\ [Next]_vars => ReservationTotals'
  BY NextTotals
<1> QED BY <1>1, InitTotals, OrderInvariant, PTL DEF Spec

(* The breaker under the order flow implements the abstract one: whatever   *)
(* the engine, the reconciler and the venue do, every change of the circuit *)
(* is one that CircuitBreaker allows.                                       *)
THEOREM FlowIsABreaker == Spec => ImplementsBreaker
  BY FlowImplementsPolicy, PolicyIsABreaker, PTL

-----------------------------------------------------------------------------
(* With the paper adapter: it answers every order, so the exposure is exact *)
(* and reservations are backed by quote.                                    *)

(* Nothing fails, so the circuit never leaves closed and no submit throws.  *)
PaperOrders ==
  /\ circuit = "closed"
  /\ \A o \in Orders : /\ phase[o] \in {"idle", "calling", "resolved"}
                       /\ result[o] \in {"none", "ok"}
                       /\ engine[o] # "failed"

(* The buys that still await their fill hold their whole reservation, and   *)
(* the running total covers all of them.                                    *)
OpenBuys == (Committed \cap Buys) \ filled
Covered ==
  /\ QuoteBacked
  /\ pendingTotal >= Notional * Cardinality(OpenBuys)
  /\ \A o \in OpenBuys : pending[o] = Notional
  /\ \A o \in Orders : o \notin Buys => pending[o] = 0

PaperInv == OrderInv /\ PaperOrders /\ ExposureExact

(* No fill earns less than its fee, and exits sell.                         *)
FeesCovered == \A px \in FillPrices : Fee <= px
ExitsSell == Exits \cap Buys = {}

-----------------------------------------------------------------------------
(* The net of a set of orders, and of the set with one order more.          *)
LEMMA NetAdd ==
  ASSUME NEW S \in SUBSET Orders, NEW o \in Orders, o \notin S
  PROVE  Net(S \cup {o}) = Net(S) + Signed(o)
<1>1. IsFiniteSet(S)
  BY OrderAssumption, FS_Subset
<1>2. /\ IsFiniteSet(S \cap Buys) /\ Cardinality(S \cap Buys) \in Nat
      /\ IsFiniteSet(S \ Buys) /\ Cardinality(S \ Buys) \in Nat
  BY <1>1, FS_Subset, FS_CardinalityType
<1>3. CASE o \in Buys
  <2>1. (S \cup {o}) \cap Buys = (S \cap Buys) \cup {o} /\ (S \cup {o}) \ Buys = S \ Buys
    BY <1>3
  <2>2. Cardinality((S \cap Buys) \cup {o}) = Cardinality(S \cap Buys) + 1
    BY <1>2, FS_AddElement
  <2>3. /\ Cardinality((S \cup {o}) \cap Buys) = Cardinality(S \cap Buys) + 1
        /\ Cardinality((S \cup {o}) \ Buys) = Cardinality(S \ Buys)
    BY <2>1, <2>2
  <2>4. Net(S \cup {o}) = (Cardinality(S \cap Buys) + 1) - Cardinality(S \ Buys)
    BY <2>3, Zenon DEF Net
  <2> QED BY <1>2, <1>3, <2>4 DEF Net, Signed
<1>4. CASE o \notin Buys
  <2>1. (S \cup {o}) \cap Buys = S \cap Buys /\ (S \cup {o}) \ Buys = (S \ Buys) \cup {o}
    BY <1>4
  <2>2. Cardinality((S \ Buys) \cup {o}) = Cardinality(S \ Buys) + 1
    BY <1>2, FS_AddElement
  <2>3. /\ Cardinality((S \cup {o}) \cap Buys) = Cardinality(S \cap Buys)
        /\ Cardinality((S \cup {o}) \ Buys) = Cardinality(S \ Buys) + 1
    BY <2>1, <2>2
  <2>4. Net(S \cup {o}) = Cardinality(S \cap Buys) - (Cardinality(S \ Buys) + 1)
    BY <2>3, Zenon DEF Net
  <2> QED BY <1>2, <1>4, <2>4 DEF Net, Signed
<1> QED BY <1>3, <1>4

LEMMA NetEmpty == Net({}) = 0
<1>1. {} \cap Buys = {} /\ {} \ Buys = {}  OBVIOUS
<1> QED BY <1>1, FS_EmptySet DEF Net

-----------------------------------------------------------------------------
LEMMA InitPaperInv == Init => PaperInv
<1> SUFFICES ASSUME Init PROVE PaperInv
  OBVIOUS
<1>1. PaperOrders  BY DEF Init, PolicyInit, PaperOrders
<1>2. Committed = {}  BY DEF Init, Committed
<1>3. ExposureExact
  BY <1>2, NetEmpty, OrderAssumption DEF Init, ExposureExact
<1> QED BY <1>1, <1>3, InitOrderInv DEF PaperInv

(* Only an approval adds an order, and none is ever taken away.             *)
LEMMA NextPaperInv ==
  ASSUME Gateway = "paper", PaperInv, [Next]_vars
  PROVE  PaperInv'
<1>1. OrderInv'  BY NextOrderInv DEF PaperInv
<1>2. PolicyTypeOK /\ GuardTypes /\ OtherTypes
  BY TypesSplit DEF PaperInv, OrderInv
<1>3. PaperOrders /\ ExposureExact  BY DEF PaperInv
<1>4. ASSUME NEW o \in Orders, Deny(o) PROVE PaperOrders' /\ ExposureExact'
  <2>1. engine[o] = "none" /\ engine' = [engine EXCEPT ![o] = "denied"]
        /\ UNCHANGED <<policyVars, exposure>>
    BY <1>4 DEF Deny
  <2>2. Committed' = Committed  BY <1>2, <2>1 DEF Committed, OtherTypes
  <2> QED BY <1>2, <1>3, <2>1, <2>2 DEF PaperOrders, ExposureExact, Net, OtherTypes
<1>5. ASSUME NEW o \in Orders, Approve(o) PROVE PaperOrders' /\ ExposureExact'
  <2>1. /\ engine[o] = "none" /\ engine' = [engine EXCEPT ![o] = "awaiting"]
        /\ exposure' = exposure + Signed(o) /\ PositionAccepts(o) /\ Submit(o)
    BY <1>5 DEF Approve
  <2>2. Committed' = Committed \cup {o} /\ o \notin Committed /\ Committed \in SUBSET Orders
    BY <1>2, <2>1 DEF Committed, OtherTypes
  <2>3. Net(Committed') = Net(Committed) + Signed(o)
    BY <2>2, NetAdd
  <2>4. ExposureExact'
    BY <1>3, <2>1, <2>3 DEF ExposureExact, PositionAccepts, Net
  <2>5. circuit' = "closed" /\ StartAttempt(o, 1)
    BY <1>3, <2>1 DEF PaperOrders, Submit, StateAtSubmit
  <2>6. PaperOrders'
    BY <1>2, <1>3, <2>1, <2>5 DEF PaperOrders, PolicyTypeOK, OtherTypes, StartAttempt
  <2> QED BY <2>4, <2>6
<1>6. ASSUME NEW o \in Orders, NEW px \in FillPrices, PaperFill(o, px)
      PROVE  PaperOrders' /\ ExposureExact'
  <2>1. AdapterReturns(o, TRUE) /\ UNCHANGED <<engine, exposure>>
    BY <1>6 DEF PaperFill
  <2>2. PaperOrders'
    BY <1>2, <1>3, <2>1 DEF PaperOrders, PolicyTypeOK, AdapterReturns
  <2> QED BY <1>3, <2>1, <2>2 DEF ExposureExact, Net, Committed
<1>7. ASSUME NEW o \in Orders, PolicyStep(o) PROVE PaperOrders' /\ ExposureExact'
  <2>1. OnSuccess(o) /\ UNCHANGED <<engine, exposure>>
    BY <1>3, <1>7 DEF PolicyStep, PaperOrders, OnError, Wake
  <2>2. circuit' = "closed" /\ Settle(o, "ok")
    BY <1>3, <2>1 DEF PaperOrders, OnSuccess
  <2>3. PaperOrders'
    BY <1>2, <1>3, <2>1, <2>2 DEF PaperOrders, PolicyTypeOK, Settle
  <2> QED BY <1>3, <2>1, <2>3 DEF ExposureExact, Net, Committed
<1>8. ASSUME NEW o \in Orders, SubmitReturns(o) PROVE PaperOrders' /\ ExposureExact'
  <2>1. engine[o] = "awaiting" /\ engine' = [engine EXCEPT ![o] = "submitted"]
        /\ UNCHANGED <<policyVars, exposure>>
    BY <1>8 DEF SubmitReturns
  <2>2. Committed' = Committed  BY <1>2, <2>1 DEF Committed, OtherTypes
  <2> QED BY <1>2, <1>3, <2>1, <2>2 DEF PaperOrders, ExposureExact, Net, OtherTypes
<1>9. ASSUME UNCHANGED <<circuit, phase, result, engine, exposure>>
      PROVE  PaperOrders' /\ ExposureExact'
  BY <1>3, <1>9 DEF PaperOrders, ExposureExact, Net, Committed
<1>10. ASSUME NEW o \in Orders, SubmitThrows(o) PROVE FALSE
  BY <1>3, <1>10 DEF SubmitThrows, PaperOrders
<1>11. PaperOrders' /\ ExposureExact'
  BY <1>4, <1>5, <1>6, <1>7, <1>8, <1>9, <1>10
     DEF Next, OrderSettles, GatewayStep, PaperAck, BinanceAccepts, BinanceFails, BinanceFills,
         CancelReturns, CheckPending, ClockCools, Cool
<1> QED BY <1>1, <1>11 DEF PaperInv

(* With the paper adapter the exposure that the risk check compares with    *)
(* maxPosition is exactly that of the filled and the open orders.           *)
THEOREM PaperExposureIsExact ==
  ASSUME Gateway = "paper" PROVE Spec => []ExposureExact
<1>1. PaperInv /\ [Next]_vars => PaperInv'  BY NextPaperInv
<1>2. PaperInv => ExposureExact  BY DEF PaperInv
<1> QED BY <1>1, <1>2, InitPaperInv, PTL DEF Spec

-----------------------------------------------------------------------------
(* The reservation of a buy covers its fill's debit, fee taken twice or not.*)
LEMMA BuyFillArithmetic ==
  ASSUME NEW total \in Nat, NEW funds \in Int, NEW px \in Nat, NEW fee \in Nat, NEW k \in Nat,
         funds >= total, total >= Notional * (k + 1), px <= Price, fee <= Fee
  PROVE  /\ AtLeast0(total - Smaller(Notional, fee + (px + fee))) <= funds - (px + fee)
         /\ AtLeast0(total - Smaller(Notional, fee + (px + fee))) >= Notional * k
<1> DEFINE d == Smaller(Notional, fee + (px + fee))
<1>1. Notional \in Nat /\ px + fee <= Notional
  BY OrderAssumption DEF Notional
<1>2. d \in Nat /\ px + fee <= d /\ d <= Notional
  BY <1>1 DEF Smaller
<1>3. Notional * (k + 1) = Notional * k + Notional /\ Notional * k \in Nat
  BY <1>1
<1> HIDE DEF d
<1>4. total - d >= Notional * k /\ total - d \in Nat
  BY <1>1, <1>2, <1>3
<1>5. AtLeast0(total - d) = total - d
  BY <1>4 DEF AtLeast0
<1>6. total - d <= funds - (px + fee)
  BY <1>2
<1> QED BY <1>4, <1>5, <1>6 DEF d

LEMMA InitCovered == Init => Covered
<1> SUFFICES ASSUME Init PROVE Covered
  OBVIOUS
<1>1. OpenBuys = {}  BY DEF Init, OpenBuys, Committed
<1>2. Notional * Cardinality(OpenBuys) = 0  BY <1>1, FS_EmptySet, NotionalNat
<1> QED BY <1>1, <1>2, OrderAssumption DEF Init, Covered, QuoteBacked

LEMMA NextCovered ==
  ASSUME Gateway = "paper", FeesCovered, ExitsSell, PaperInv, Covered, [Next]_vars
  PROVE  Covered'
<1>1. PolicyTypeOK /\ GuardTypes /\ OtherTypes /\ Lifecycle
  BY TypesSplit DEF PaperInv, OrderInv
<1>2. /\ PaperOrders /\ QuoteBacked
      /\ pendingTotal >= Notional * Cardinality(OpenBuys)
      /\ \A o \in OpenBuys : pending[o] = Notional
      /\ \A o \in Orders : o \notin Buys => pending[o] = 0
  BY DEF PaperInv, Covered
<1>3. IsFiniteSet(OpenBuys) /\ Cardinality(OpenBuys) \in Nat
  <2>1. OpenBuys \in SUBSET Calls  BY DEF OpenBuys, Committed
  <2> QED BY <2>1, OrderAssumption, FS_Subset, FS_CardinalityType
<1>4. ASSUME UNCHANGED <<guardVars, quote, filled>>, Committed' = Committed PROVE Covered'
  BY <1>2, <1>4 DEF Covered, QuoteBacked, OpenBuys
<1>5. ASSUME NEW o \in Orders, Approve(o), o \in Buys PROVE Covered'
  <2>1. /\ engine[o] = "none" /\ engine' = [engine EXCEPT ![o] = "awaiting"]
        /\ ReserveBuy(o) /\ AccountGuardAccepts(o) /\ UNCHANGED <<quote, filled>>
    BY <1>5 DEF Approve
  <2>2. pending[o] = 0 /\ o \notin filled  BY <1>1, <2>1 DEF Lifecycle, LifeOf
  <2>3. OpenBuys' = OpenBuys \cup {o} /\ o \notin OpenBuys
    BY <1>1, <1>5, <2>1, <2>2 DEF OpenBuys, Committed, OtherTypes
  <2>4. Cardinality(OpenBuys') = Cardinality(OpenBuys) + 1
    BY <1>3, <2>3, FS_AddElement
  <2>5. /\ pendingTotal' = pendingTotal + Notional
        /\ pending' = [pending EXCEPT ![o] = @ + Notional]
    BY <1>5, <2>1 DEF ReserveBuy
  <2>6. pending'[o] = Notional /\ \A p \in Orders : p # o => pending'[p] = pending[p]
    BY <1>1, <2>2, <2>5, NotionalNat DEF GuardTypes
  <2>7. quote - pendingTotal >= Notional
    BY <1>5, <2>1 DEF AccountGuardAccepts, availableQuote, ExitsSell
  <2>8. QuoteBacked'
    BY <1>1, <2>1, <2>5, <2>7, NotionalNat DEF QuoteBacked, GuardTypes, OtherTypes
  <2>9. Notional * (Cardinality(OpenBuys) + 1) = Notional * Cardinality(OpenBuys) + Notional
    BY <1>3, NotionalNat
  <2>10. pendingTotal' >= Notional * Cardinality(OpenBuys')
    <3> DEFINE k == Cardinality(OpenBuys)
               m == Notional * k
    <3>1. m \in Nat /\ pendingTotal >= m  BY <1>2, <1>3, NotionalNat
    <3>2. Notional * Cardinality(OpenBuys') = m + Notional  BY <2>4, <2>9
    <3> HIDE DEF m
    <3> QED BY <1>1, <2>5, <3>1, <3>2, NotionalNat DEF GuardTypes
  <2>11. OpenBuys \subseteq Orders  BY DEF OpenBuys, Committed
  <2>12. \A p \in OpenBuys' : pending'[p] = Notional
    BY <1>2, <2>3, <2>6, <2>11
  <2> QED BY <1>2, <1>5, <2>6, <2>8, <2>10, <2>12 DEF Covered
<1>6. ASSUME NEW o \in Orders, Approve(o), o \notin Buys PROVE Covered'
  <2>1. /\ engine[o] = "none" /\ engine' = [engine EXCEPT ![o] = "awaiting"]
        /\ UNCHANGED <<guardVars, quote, filled>>
    BY <1>6 DEF Approve, ReserveBuy
  <2>2. OpenBuys' = OpenBuys
    BY <1>1, <1>6, <2>1 DEF OpenBuys, Committed, OtherTypes
  <2> QED BY <1>2, <2>1, <2>2 DEF Covered, QuoteBacked
<1>7. ASSUME NEW o \in Orders, NEW px \in FillPrices, PaperFill(o, px) PROVE Covered'
  <2> DEFINE fee == IF o \in pendingFees THEN Fee ELSE 0
  <2>1. /\ AdapterReturns(o, TRUE) /\ OnFill(o, px) /\ UNCHANGED engine
    BY <1>7 DEF PaperFill
  <2>2. phase[o] = "calling"  BY <2>1 DEF AdapterReturns
  <2>3. engine[o] = "awaiting" /\ o \notin filled
    BY <1>1, <1>2, <2>2 DEF Lifecycle, LifeOf, PaperOrders, OtherTypes
  <2>4. px \in Nat /\ fee \in Nat /\ fee <= Fee /\ fee <= px /\ (o \in Buys => px <= Price)
    BY <1>7, OrderAssumption DEF FeesCovered, PaperFill, PaperPrices
  <2> HIDE DEF fee
  <2>5. filled' = filled \cup {o}  BY <2>1 DEF OnFill
  <2>6. CASE o \in Buys
    <3>1. /\ Consume(o, fee + (px + fee)) /\ quote' = quote - (px + fee)
      <4>1. ~(px + fee < 0)  BY <2>4
      <4> QED BY <2>1, <2>6, <4>1 DEF OnFill, fee
    <3>2. o \in OpenBuys /\ OpenBuys' = OpenBuys \ {o}
      BY <2>1, <2>3, <2>5, <2>6 DEF OpenBuys, Committed
    <3> DEFINE k == Cardinality(OpenBuys \ {o})
    <3>3. k \in Nat /\ Cardinality(OpenBuys) = k + 1
      <4>1. IsFiniteSet(OpenBuys \ {o}) /\ k = Cardinality(OpenBuys) - 1
        BY <1>3, <3>2, FS_RemoveElement
      <4> QED BY <1>3, <4>1, FS_CardinalityType
    <3>4. Cardinality(OpenBuys') = k  BY <3>2
    <3> HIDE DEF k
    <3>5. pending[o] = Notional /\ pendingTotal \in Nat /\ quote \in Int
      BY <1>1, <1>2, <3>2 DEF GuardTypes, OtherTypes
    <3>6. pendingTotal' = AtLeast0(pendingTotal - Smaller(Notional, fee + (px + fee)))
      BY <3>1, <3>5 DEF Consume
    <3>7. quote >= pendingTotal /\ pendingTotal >= Notional * (k + 1)
      BY <1>2, <3>3 DEF QuoteBacked
    <3>8. pendingTotal' <= quote - (px + fee) /\ pendingTotal' >= Notional * k
      BY <2>4, <2>6, <3>3, <3>5, <3>6, <3>7, BuyFillArithmetic
    <3>9. pendingTotal' \in Nat  BY <3>5, <3>6, NotionalNat, <2>4 DEF AtLeast0, Smaller
    <3>10. QuoteBacked'
      BY <2>4, <3>1, <3>5, <3>8, <3>9 DEF QuoteBacked
    <3>11. \A p \in Orders : p # o => pending'[p] = pending[p]
      BY <1>1, <3>1 DEF Consume, GuardTypes
    <3>12. OpenBuys \subseteq Orders  BY DEF OpenBuys, Committed
    <3>13. \A p \in OpenBuys' : pending'[p] = Notional
      BY <1>2, <3>2, <3>11, <3>12
    <3>14. \A p \in Orders : p \notin Buys => pending'[p] = 0
      BY <1>2, <2>6, <3>11
    <3> QED BY <3>4, <3>8, <3>10, <3>13, <3>14 DEF Covered
  <2>7. CASE o \notin Buys
    <3>1. \E a \in Nat : Consume(o, a)
      <4> DEFINE debit == fee - px
                 a == fee + (IF debit < 0 THEN -debit ELSE debit)
      <4>1. a \in Nat  BY <2>4
      <4>2. Consume(o, a)  BY <2>1, <2>7 DEF OnFill, fee
      <4> HIDE DEF a
      <4> QED BY <4>1, <4>2
    <3>2. quote' = quote - (fee - px)  BY <2>1, <2>7 DEF OnFill, fee
    <3>3. pending[o] = 0 /\ pendingTotal \in Nat /\ quote \in Int
      BY <1>1, <1>2, <2>7 DEF GuardTypes, OtherTypes
    <3>4. pendingTotal' = pendingTotal /\ pending' = pending
      <4>1. PICK a \in Nat : Consume(o, a)  BY <3>1
      <4>2. Smaller(pending[o], a) = 0  BY <3>3, <4>1 DEF Smaller
      <4>3. AtLeast0(pendingTotal - 0) = pendingTotal  BY <3>3 DEF AtLeast0
      <4>4. pendingTotal' = pendingTotal  BY <4>1, <4>2, <4>3 DEF Consume
      <4>5. pending' = [pending EXCEPT ![o] = pending[o] - Smaller(pending[o], a)]
        BY <4>1 DEF Consume
      <4>6. pending[o] - Smaller(pending[o], a) = pending[o]  BY <3>3, <4>2
      <4> QED BY <1>1, <4>4, <4>5, <4>6 DEF GuardTypes
    <3>5. OpenBuys' = OpenBuys  BY <2>1, <2>5, <2>7 DEF OpenBuys, Committed
    <3>6. QuoteBacked'  BY <1>2, <2>4, <3>2, <3>3, <3>4 DEF QuoteBacked
    <3> QED BY <1>2, <3>4, <3>5, <3>6 DEF Covered
  <2> QED BY <2>6, <2>7
<1>8. ASSUME NEW o \in Orders, Deny(o) \/ SubmitReturns(o) PROVE Covered'
  <2>1. UNCHANGED <<guardVars, quote, filled>>  BY <1>8 DEF Deny, SubmitReturns
  <2>2. Committed' = Committed
    BY <1>1, <1>8 DEF Deny, SubmitReturns, Committed, OtherTypes
  <2> QED BY <1>4, <2>1, <2>2
<1>9. ASSUME UNCHANGED <<guardVars, quote, filled, engine>> PROVE Covered'
  BY <1>4, <1>9 DEF Committed
<1>10. ASSUME NEW o \in Orders, SubmitThrows(o) PROVE FALSE
  BY <1>2, <1>10 DEF SubmitThrows, PaperOrders
<1> QED
  BY <1>5, <1>6, <1>7, <1>8, <1>9, <1>10
     DEF Next, OrderSettles, GatewayStep, PaperAck, BinanceAccepts, BinanceFails, BinanceFills,
         PolicyStep, CancelReturns, CheckPending, ClockCools

(* With the paper adapter, fees below the fill prices and exits that only   *)
(* sell, the ledger always holds the quote promised to open buys.           *)
THEOREM PaperReservationsAreBacked ==
  ASSUME Gateway = "paper", FeesCovered, ExitsSell PROVE Spec => []QuoteBacked
<1>1. PaperInv /\ Covered /\ [Next]_vars => PaperInv' /\ Covered'
  BY NextPaperInv, NextCovered
<1>2. Covered => QuoteBacked  BY DEF Covered
<1> QED BY <1>1, <1>2, InitPaperInv, InitCovered, PTL DEF Spec
-----------------------------------------------------------------------------
(* The orders with a failed attempt.  A reject of the REST gateway takes    *)
(* the order out of exposure, whatever becomes of it afterwards.            *)
Refused == {o \in Orders : \/ attempt[o] > 1 \/ phase[o] \in {"threw", "sleeping"}
                           \/ result[o] = "failed"}

Drift == exposure = Net(Committed) - Net(Refused)

(* An order under way is pending until it is refused or filled, and its     *)
(* attempts are counted from its approval.                                  *)
AttemptsOf(o) ==
  /\ engine[o] \in {"none", "denied"} => attempt[o] = 0
  /\ phase[o] # "idle" => attempt[o] >= 1
  /\ engine[o] = "awaiting" => (o \in pendingOrders <=> o \notin Refused \cup filled)

DriftInv == OrderInv /\ Drift /\ \A o \in Orders : AttemptsOf(o)

(* The net of any set of orders, and of the set with one order less.       *)
LEMMA NetType ==
  ASSUME NEW S \in SUBSET Orders
  PROVE  Net(S) \in Int
<1>1. IsFiniteSet(S \cap Buys) /\ IsFiniteSet(S \ Buys)
  BY OrderAssumption, FS_Subset
<1> QED BY <1>1, FS_CardinalityType DEF Net

LEMMA NetRemove ==
  ASSUME NEW S \in SUBSET Orders, NEW o \in S
  PROVE  Net(S \ {o}) = Net(S) - Signed(o)
<1>1. o \in Orders /\ o \notin S \ {o} /\ S \ {o} \in SUBSET Orders
  OBVIOUS
<1>2. (S \ {o}) \cup {o} = S  OBVIOUS
<1>3. Net((S \ {o}) \cup {o}) = Net(S \ {o}) + Signed(o)
  BY <1>1, NetAdd
<1>4. Net(S) = Net(S \ {o}) + Signed(o)
  BY <1>2, <1>3
<1> QED BY <1>1, <1>4, NetType DEF Signed

LEMMA InitDrift == Init => DriftInv
<1> SUFFICES ASSUME Init PROVE DriftInv
  OBVIOUS
<1>1. Committed = {} /\ Refused = {}
  BY DEF Init, PolicyInit, Committed, Refused
<1>2. \A o \in Orders : AttemptsOf(o)
  BY DEF Init, PolicyInit, AttemptsOf
<1> QED BY <1>1, <1>2, NetEmpty, InitOrderInv DEF Init, Drift, DriftInv

(* What a step of one order must show: its own facts, and whether it joins  *)
(* or leaves the two sets as the exposure says.                             *)
Alike(p) ==
  /\ engine'[p] = engine[p] /\ phase'[p] = phase[p]
  /\ result'[p] = result[p] /\ attempt'[p] = attempt[p]
  /\ p \in pendingOrders' <=> p \in pendingOrders
  /\ p \in filled' <=> p \in filled

(* An order that a step leaves alone stays where it is in both sets.       *)
LEMMA AlikeAttempts ==
  ASSUME NEW p \in Orders, AttemptsOf(p), Alike(p)
  PROVE  /\ AttemptsOf(p)'
         /\ p \in Refused' <=> p \in Refused
         /\ p \in Committed' <=> p \in Committed
  BY DEF AttemptsOf, Alike, Refused, Committed

LEMMA DriftStep ==
  ASSUME DriftInv, OrderInv', NEW o \in Orders,
         \A p \in Orders : p # o => Alike(p), AttemptsOf(o)',
         \/ /\ exposure' = exposure
            /\ o \in Committed' <=> o \in Committed
            /\ o \in Refused' <=> o \in Refused
         \/ /\ exposure' = exposure + Signed(o)
            /\ o \in Committed' /\ o \notin Committed
            /\ o \in Refused' <=> o \in Refused
         \/ /\ exposure' = exposure - Signed(o)
            /\ o \notin Committed' /\ o \in Committed
            /\ o \in Refused' <=> o \in Refused
         \/ /\ exposure' = exposure - Signed(o)
            /\ o \in Committed' <=> o \in Committed
            /\ o \in Refused' /\ o \notin Refused
  PROVE  DriftInv'
<1>1. \A p \in Orders : AttemptsOf(p)'
  <2> TAKE p \in Orders
  <2>1. CASE p = o  BY <2>1
  <2>2. CASE p # o  BY <2>2, AlikeAttempts DEF DriftInv
  <2> QED BY <2>1, <2>2
<1>2. \A p \in Orders : p # o => /\ p \in Refused' <=> p \in Refused
                                 /\ p \in Committed' <=> p \in Committed
  BY AlikeAttempts DEF DriftInv
<1>3. /\ Committed \in SUBSET Orders /\ Refused \in SUBSET Orders
      /\ Committed' \in SUBSET Orders /\ Refused' \in SUBSET Orders
  BY DEF Committed, Refused
<1>4. Net(Committed) \in Int /\ Net(Refused) \in Int /\ Signed(o) \in Int
  BY <1>3, NetType DEF Signed
<1>5. o \notin Committed /\ o \in Committed' => Net(Committed') = Net(Committed) + Signed(o)
  <2> SUFFICES ASSUME o \notin Committed, o \in Committed'
               PROVE  Net(Committed') = Net(Committed) + Signed(o)
    OBVIOUS
  <2>1. Committed' = Committed \cup {o}  BY <1>2, <1>3
  <2> QED BY <1>3, <2>1, NetAdd
<1>6. o \in Committed /\ o \notin Committed' => Net(Committed') = Net(Committed) - Signed(o)
  <2> SUFFICES ASSUME o \in Committed, o \notin Committed'
               PROVE  Net(Committed') = Net(Committed) - Signed(o)
    OBVIOUS
  <2>1. Committed' = Committed \ {o}  BY <1>2, <1>3
  <2> QED BY <1>3, <2>1, NetRemove
<1>7. o \notin Refused /\ o \in Refused' => Net(Refused') = Net(Refused) + Signed(o)
  <2> SUFFICES ASSUME o \notin Refused, o \in Refused'
               PROVE  Net(Refused') = Net(Refused) + Signed(o)
    OBVIOUS
  <2>1. Refused' = Refused \cup {o}  BY <1>2, <1>3
  <2> QED BY <1>3, <2>1, NetAdd
<1>8. /\ (o \in Committed' <=> o \in Committed) => Committed' = Committed
      /\ (o \in Refused' <=> o \in Refused) => Refused' = Refused
  BY <1>2, <1>3
<1>9. exposure' = Net(Committed') - Net(Refused')
  <2> DEFINE c == Net(Committed)
             r == Net(Refused)
             s == Signed(o)
             c1 == Net(Committed')
             r1 == Net(Refused')
  <2>1. exposure = c - r  BY DEF DriftInv, Drift
  <2>2. (o \in Committed' <=> o \in Committed) => c1 = c  BY <1>8
  <2>3. (o \in Refused' <=> o \in Refused) => r1 = r  BY <1>8
  <2> HIDE DEF c, r, s, c1, r1
  <2>4. c \in Int /\ r \in Int /\ s \in Int  BY <1>4 DEF c, r, s
  <2>5. /\ o \notin Committed /\ o \in Committed' => c1 = c + s
        /\ o \in Committed /\ o \notin Committed' => c1 = c - s
        /\ o \notin Refused /\ o \in Refused' => r1 = r + s
    BY <1>5, <1>6, <1>7 DEF c, r, s, c1, r1
  <2>6. \/ exposure' = exposure /\ c1 = c /\ r1 = r
        \/ exposure' = exposure + s /\ c1 = c + s /\ r1 = r
        \/ exposure' = exposure - s /\ c1 = c - s /\ r1 = r
        \/ exposure' = exposure - s /\ c1 = c /\ r1 = r + s
    BY <2>2, <2>3, <2>5 DEF s
  <2>7. exposure' = c1 - r1  BY <2>1, <2>4, <2>6
  <2> QED BY <2>7 DEF c1, r1
<1> QED BY <1>1, <1>9 DEF DriftInv, Drift

LEMMA NextDrift == DriftInv /\ [Next]_vars => DriftInv'
<1> SUFFICES ASSUME DriftInv, [Next]_vars PROVE DriftInv'
  OBVIOUS
<1>1. OrderInv /\ OrderInv'  BY NextOrderInv DEF DriftInv
<1>2. PolicyTypeOK /\ GuardTypes /\ OtherTypes /\ Lifecycle
  BY <1>1, TypesSplit DEF OrderInv
<1>3. \A p \in Orders : AttemptsOf(p)  BY DEF DriftInv
<1>4. ASSUME NEW o \in Orders, Deny(o) PROVE DriftInv'
  <2>1. /\ engine[o] = "none" /\ engine' = [engine EXCEPT ![o] = "denied"]
        /\ UNCHANGED <<policyVars, exposure, pendingOrders, filled>>
    BY <1>4 DEF Deny
  <2>2. engine'[o] = "denied" /\ \A p \in Orders : p # o => Alike(p)
    BY <1>2, <2>1 DEF Alike, OtherTypes
  <2>3. AttemptsOf(o)'  BY <1>2, <1>3, <2>1, <2>2 DEF AttemptsOf, Lifecycle, LifeOf
  <2>4. /\ o \in Committed' <=> o \in Committed
        /\ o \in Refused' <=> o \in Refused
    BY <2>1, <2>2 DEF Committed, Refused
  <2> QED BY <1>1, <2>1, <2>2, <2>3, <2>4, DriftStep
<1>5. ASSUME NEW o \in Orders, Approve(o) PROVE DriftInv'
  <2>1. /\ engine[o] = "none" /\ engine' = [engine EXCEPT ![o] = "awaiting"]
        /\ exposure' = exposure + Signed(o)
        /\ pendingOrders' = pendingOrders \cup {o}
        /\ Submit(o) /\ UNCHANGED filled
    BY <1>5 DEF Approve
  <2>2. /\ engine'[o] = "awaiting"
        /\ \A p \in Orders : p # o => engine'[p] = engine[p]
    BY <1>2, <2>1 DEF OtherTypes
  <2>3. \A p \in Orders : p # o => Alike(p)
    BY <1>2, <2>1, <2>2 DEF PolicyTypeOK, Submit, Settle, StartAttempt, Alike
  <2>4. /\ attempt[o] = 0 /\ phase[o] = "idle" /\ result[o] = "none"
        /\ o \notin filled /\ o \notin Refused
    BY <1>2, <1>3, <2>1 DEF AttemptsOf, Lifecycle, LifeOf, Refused
  <2>5. \/ phase'[o] = "idle" /\ attempt'[o] = 0 /\ result'[o] = "blocked"
        \/ phase'[o] = "calling" /\ attempt'[o] = 1 /\ result'[o] = "none"
    BY <1>2, <2>1, <2>4 DEF PolicyTypeOK, Submit, Settle, StartAttempt
  <2>6. o \notin Refused'  BY <2>5 DEF Refused
  <2>7. AttemptsOf(o)'  BY <2>1, <2>2, <2>4, <2>5, <2>6 DEF AttemptsOf
  <2>8. o \in Committed' /\ o \notin Committed  BY <2>1, <2>2 DEF Committed
  <2> QED BY <1>1, <2>1, <2>3, <2>4, <2>6, <2>7, <2>8, DriftStep
<1>6. ASSUME NEW o \in Orders, NEW px \in FillPrices, PaperFill(o, px) \/ BinanceFills(o, px)
      PROVE  DriftInv'
  <2>1. /\ AdapterReturns(o, TRUE) /\ UNCHANGED <<engine, exposure>>
        /\ pendingOrders' = pendingOrders \ {o} /\ filled' = filled \cup {o}
    BY <1>6 DEF PaperFill, BinanceFills, OnFill
  <2>2. /\ phase[o] = "calling" /\ phase'[o] = "resolved" /\ UNCHANGED <<attempt, result>>
        /\ \A p \in Orders : p # o => Alike(p)
    BY <1>2, <2>1 DEF PolicyTypeOK, AdapterReturns, Alike
  <2>3. /\ o \in Committed' <=> o \in Committed
        /\ o \in Refused' <=> o \in Refused
    BY <2>1, <2>2 DEF Committed, Refused
  <2>4. AttemptsOf(o)'  BY <1>3, <2>1, <2>2 DEF AttemptsOf
  <2> QED BY <1>1, <2>1, <2>2, <2>3, <2>4, DriftStep
<1>7. ASSUME NEW o \in Orders, BinanceAccepts(o) PROVE DriftInv'
  <2>1. AdapterReturns(o, TRUE) /\ UNCHANGED <<engine, exposure, pendingOrders, filled>>
    BY <1>7 DEF BinanceAccepts
  <2>2. /\ phase[o] = "calling" /\ phase'[o] = "resolved" /\ UNCHANGED <<attempt, result>>
        /\ \A p \in Orders : p # o => Alike(p)
    BY <1>2, <2>1 DEF PolicyTypeOK, AdapterReturns, Alike
  <2>3. /\ o \in Committed' <=> o \in Committed
        /\ o \in Refused' <=> o \in Refused
    BY <2>1, <2>2 DEF Committed, Refused
  <2>4. AttemptsOf(o)'  BY <1>3, <2>1, <2>2, <2>3 DEF AttemptsOf
  <2> QED BY <1>1, <2>1, <2>2, <2>3, <2>4, DriftStep
<1>8. ASSUME NEW o \in Orders, BinanceFails(o) PROVE DriftInv'
  <2>1. /\ AdapterReturns(o, FALSE) /\ UNCHANGED <<engine, filled>>
        /\ pendingOrders' = pendingOrders \ {o}
        /\ exposure' = IF o \in pendingOrders THEN exposure - Signed(o) ELSE exposure
    BY <1>8 DEF BinanceFails, OnReject
  <2>2. /\ phase[o] = "calling" /\ phase'[o] = "threw" /\ UNCHANGED <<attempt, result>>
        /\ \A p \in Orders : p # o => Alike(p)
    BY <1>2, <2>1 DEF PolicyTypeOK, AdapterReturns, Alike
  <2>3. engine[o] = "awaiting" /\ o \notin filled
    BY <1>2, <2>2 DEF Lifecycle, LifeOf, OtherTypes
  <2>4. o \in Refused'  BY <2>2 DEF Refused
  <2>5. o \in pendingOrders <=> o \notin Refused
    BY <1>3, <2>3 DEF AttemptsOf
  <2>6. AttemptsOf(o)'  BY <1>3, <2>1, <2>2, <2>3, <2>4 DEF AttemptsOf
  <2>7. o \in Committed' <=> o \in Committed  BY <2>1 DEF Committed
  <2> QED BY <1>1, <2>1, <2>2, <2>4, <2>5, <2>6, <2>7, DriftStep
<1>9. ASSUME NEW o \in Orders, PolicyStep(o) PROVE DriftInv'
  <2>1. /\ OnSuccess(o) \/ OnError(o) \/ Wake(o)
        /\ UNCHANGED <<engine, exposure, pendingOrders, filled>>
    BY <1>9 DEF PolicyStep
  <2>2. \A p \in Orders : p # o => Alike(p)
    BY <1>2, <2>1 DEF PolicyTypeOK, OnSuccess, OnError, Wake, Settle, StartAttempt, Sleep,
                      Exhausted, Alike
  <2>3. attempt'[o] = IF phase[o] = "sleeping" THEN attempt[o] + 1 ELSE attempt[o]
    BY <1>2, <2>1 DEF PolicyTypeOK, OnSuccess, OnError, Wake, Settle, StartAttempt, Sleep,
                      Exhausted
  <2>4. attempt[o] >= 1 /\ attempt[o] \in Nat
    BY <1>2, <1>3, <2>1, PolicyAssumption
       DEF AttemptsOf, OnSuccess, OnError, Wake, PolicyTypeOK
  <2>5. result[o] = "none" /\ engine[o] = "awaiting"
    BY <1>2, <2>1 DEF Lifecycle, LifeOf, OnSuccess, OnError, Wake, OtherTypes
  <2>6. o \in Refused' <=> o \in Refused
    BY <1>2, <2>1, <2>3, <2>4, <2>5, SettleSlot DEF Refused
  <2>7. AttemptsOf(o)'
    BY <1>2, <1>3, <2>1, <2>3, <2>4, <2>5, <2>6 DEF AttemptsOf
  <2>8. o \in Committed' <=> o \in Committed  BY <2>1 DEF Committed
  <2> QED BY <1>1, <2>1, <2>2, <2>6, <2>7, <2>8, DriftStep
<1>10. ASSUME NEW o \in Orders, SubmitReturns(o) PROVE DriftInv'
  <2>1. /\ engine[o] = "awaiting" /\ engine' = [engine EXCEPT ![o] = "submitted"]
        /\ UNCHANGED <<policyVars, exposure, pendingOrders, filled>>
    BY <1>10 DEF SubmitReturns
  <2>2. engine'[o] = "submitted" /\ \A p \in Orders : p # o => Alike(p)
    BY <1>2, <2>1 DEF Alike, OtherTypes
  <2>3. AttemptsOf(o)'  BY <1>3, <2>1, <2>2 DEF AttemptsOf
  <2>4. /\ o \in Committed' <=> o \in Committed
        /\ o \in Refused' <=> o \in Refused
    BY <2>1, <2>2 DEF Committed, Refused
  <2> QED BY <1>1, <2>1, <2>2, <2>3, <2>4, DriftStep
<1>11. ASSUME NEW o \in Orders, SubmitThrows(o) PROVE DriftInv'
  <2>1. /\ engine[o] = "awaiting" /\ engine' = [engine EXCEPT ![o] = "failed"]
        /\ exposure' = exposure - Signed(o)
        /\ pendingOrders' = pendingOrders \ {o} /\ UNCHANGED <<policyVars, filled>>
    BY <1>11 DEF SubmitThrows
  <2>2. engine'[o] = "failed" /\ \A p \in Orders : p # o => Alike(p)
    BY <1>2, <2>1 DEF Alike, OtherTypes
  <2>3. AttemptsOf(o)'  BY <1>3, <2>1, <2>2 DEF AttemptsOf
  <2>4. /\ o \notin Committed' /\ o \in Committed
        /\ o \in Refused' <=> o \in Refused
    BY <2>1, <2>2 DEF Committed, Refused
  <2> QED BY <1>1, <2>1, <2>2, <2>3, <2>4, DriftStep
<1>12. ASSUME UNCHANGED <<phase, attempt, result, engine, exposure, pendingOrders, filled>>
       PROVE  DriftInv'
  <2>1. Committed' = Committed /\ Refused' = Refused  BY <1>12 DEF Committed, Refused
  <2>2. \A p \in Orders : AttemptsOf(p)'  BY <1>3, <1>12, <2>1 DEF AttemptsOf
  <2> QED BY <1>1, <1>12, <2>1, <2>2 DEF DriftInv, Drift, Net
<1> QED BY <1>4, <1>5, <1>6, <1>7, <1>8, <1>9, <1>10, <1>11, <1>12
        DEF Next, OrderSettles, GatewayStep, PaperAck, CancelReturns, CheckPending,
            ClockCools, Cool

(* With either gateway: the exposure that the risk check compares with      *)
(* maxPosition is that of the filled and the open orders (preTrade.ts)      *)
(* short of every order with a failed attempt.  An order whose retry then   *)
(* fills is never counted again, and one that fails for good is taken out   *)
(* of a sum that no longer holds it.                                        *)
THEOREM ExposureMissesTheRefused == Spec => [](exposure = Net(Committed) - Net(Refused))
<1>1. DriftInv => exposure = Net(Committed) - Net(Refused)  BY DEF DriftInv, Drift
<1> QED BY <1>1, InitDrift, NextDrift, PTL DEF Spec
=============================================================================
