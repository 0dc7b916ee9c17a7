-------------------------- MODULE PositionsProofs --------------------------
(***************************************************************************)
(* What holds of the position and its bookkeeping for every set of         *)
(* strategies, reasons, prices and limits: the types, the identity of cash *)
(* and profit, and what risk's exposure is: the position and the orders in *)
(* flight and at rest, less those that an attempt failed for.  The         *)
(* arithmetic of one fill is settled first; only Fill touches the          *)
(* portfolio.                                                              *)
(***************************************************************************)
EXTENDS Positions, SumProofs

(* What Realized multiplies: a quantity, its sign and a price difference.  *)
LEMMA SignTimesAbs ==
  ASSUME NEW n \in Int, NEW c \in Int
  PROVE  /\ Abs(n) * c * Sign(n) = n * c
         /\ Abs(n) \in Nat /\ Sign(n) \in {-1, 0, 1}
         /\ Sign(n) = 0 <=> n = 0
  <1>1. CASE n > 0  BY <1>1 DEF Abs, Sign
  <1>2. CASE n = 0  BY <1>2 DEF Abs, Sign
  <1>3. CASE n < 0
    <2>1. Sign(n) = -1 /\ Abs(n) = -n  BY <1>3 DEF Abs, Sign
    <2>2. (-n) * c * (-1) = n * c  OBVIOUS
    <2> QED  BY <2>1, <2>2, <1>3
  <1> QED  BY <1>1, <1>2, <1>3

(* The value of the position after a fill is its value before, plus what   *)
(* the fill paid and what it realised.                                     *)
LEMMA FillKeepsValue ==
  ASSUME qty \in Int, avg \in Nat, NEW lots \in Int, NEW px \in Nat, NEW a \in Nat,
         Average(lots, px, a)
  PROVE  /\ Realized(lots, px) \in Int
         /\ a * (qty + lots) = avg * qty + px * lots + Realized(lots, px)
  <1>1. CASE Increases(lots)
    <2>1. Realized(lots, px) = 0 /\ a * (qty + lots) = avg * qty + px * lots
      BY <1>1 DEF Realized, Average
    <2>2. avg * qty \in Int /\ px * lots \in Int  OBVIOUS
    <2> QED  BY <2>1, <2>2
  <1>2. CASE ~Increases(lots)
    <2> DEFINE gain == px - avg
    <2>0. gain \in Int  OBVIOUS
    <2>1. qty # 0 /\ Sign(qty) # Sign(lots)  BY <1>2 DEF Increases
    <2>2. Realized(lots, px) = Smaller(Abs(lots), Abs(qty)) * gain * Sign(qty)
      BY <1>2 DEF Realized
    <2>3. a = IF qty + lots = 0 THEN 0
              ELSE IF Sign(qty + lots) # Sign(qty) THEN px ELSE avg
      BY <1>2 DEF Average
    <2>4. CASE Sign(qty + lots) = Sign(qty)
      <3>1. Smaller(Abs(lots), Abs(qty)) * Sign(qty) = -lots
        BY <2>1, <2>4 DEF Smaller, Abs, Sign
      <3>2. Smaller(Abs(lots), Abs(qty)) \in Int /\ Sign(qty) \in Int
        BY DEF Smaller, Abs, Sign
      <3>3. Realized(lots, px) = (-lots) * gain
        <4> DEFINE closed == Smaller(Abs(lots), Abs(qty))
                   side == Sign(qty)
        <4>1. closed \in Int /\ side \in Int /\ closed * side = -lots  BY <3>1, <3>2
        <4>2. Realized(lots, px) = closed * gain * side  BY <2>2
        <4> HIDE DEF closed, side, gain
        <4>3. closed * gain * side = (closed * side) * gain  BY <4>1, <2>0
        <4> QED  BY <4>1, <4>2, <4>3
      <3>4. a = avg  BY <2>3, <2>4, <2>1 DEF Sign
      <3>5. avg * (qty + lots) = avg * qty + px * lots + (-lots) * (px - avg)  OBVIOUS
      <3> QED  BY <3>3, <3>4, <3>5
    <2>5. CASE Sign(qty + lots) # Sign(qty)
      <3>1. Smaller(Abs(lots), Abs(qty)) = Abs(qty)
        BY <2>1, <2>5 DEF Smaller, Abs, Sign
      <3>2. Realized(lots, px) = qty * gain
        <4> HIDE DEF gain
        <4> QED  BY <3>1, <2>2, <2>0, SignTimesAbs
      <3>3. a * (qty + lots) = px * (qty + lots)
        BY <2>3, <2>5
      <3>4. px * (qty + lots) = avg * qty + px * lots + qty * (px - avg)  OBVIOUS
      <3> QED  BY <3>2, <3>3, <3>4
    <2> QED  BY <2>4, <2>5
  <1> QED  BY <1>1, <1>2

(* An average is positive exactly while there is a position.               *)
LEMMA AverageOfPosition ==
  ASSUME qty \in Int, avg \in Nat, qty # 0 <=> avg # 0,
         NEW lots \in Int \ {0}, NEW px \in Prices, NEW a \in Nat,
         Average(lots, px, a)
  PROVE  qty + lots # 0 <=> a # 0
  <1> px \in Nat \ {0}  BY PositionsAssumption
  <1>1. CASE Increases(lots)
    <2>1. qty + lots # 0 /\ (qty = 0 \/ (qty > 0 /\ lots > 0) \/ (qty < 0 /\ lots < 0))
      BY <1>1 DEF Increases, Sign
    <2>2. a * (qty + lots) = avg * qty + px * lots  BY <1>1 DEF Average
    <2>3. CASE lots > 0
      <3>1. px * lots > 0 /\ avg * qty >= 0  BY <2>1, <2>3
      <3>2. a = 0 => a * (qty + lots) = 0  OBVIOUS
      <3> QED  BY <2>1, <2>2, <3>1, <3>2
    <2>4. CASE lots < 0
      <3> DEFINE u == -lots
                 v == -qty
      <3>1. u > 0 /\ v >= 0 /\ u \in Int /\ v \in Int  BY <2>1, <2>4
      <3>2. px * u > 0 /\ avg * v >= 0  BY <3>1
      <3>3. px * lots = -(px * u) /\ avg * qty = -(avg * v)  OBVIOUS
      <3>4. a = 0 => a * (qty + lots) = 0  OBVIOUS
      <3> QED  BY <2>1, <2>2, <3>2, <3>3, <3>4
    <2> QED  BY <2>3, <2>4
  <1>2. CASE ~Increases(lots)
    BY <1>2 DEF Increases, Average, Sign
  <1> QED  BY <1>1, <1>2

-----------------------------------------------------------------------------
(* What a round of evaluations leaves: well-typed books, and none changed  *)
(* when no engine is called.                                               *)
LEMMA EvaluateTypes ==
  ASSUME NEW called \in SUBSET Strategies, NEW position \in Int,
         NEW pending \in [Strategies -> Reasons \cup {None}], NEW old,
         NEW open \in [Slots -> Int], NEW gone \in SUBSET Strategies,
         exposure \in Int, position # 0 \/ called = {},
         Evaluate(called, position, pending, old, open, gone)
  PROVE  /\ pendingExit' \in [Strategies -> Reasons \cup {None}]
         /\ orders' \in [Slots -> Int]
         /\ \A p \in Slots : open[p] # 0 => orders'[p] # 0
         /\ exposure' \in Int
         /\ lost' \subseteq Strategies
         /\ called = {} => pendingExit' = pending /\ lost' = gone
  <1>1. PICK decision \in [called -> Reasons \cup {None}] :
          LET exiting == {s \in called : decision[s] # None}
          IN  \E passed \in SUBSET exiting :
                /\ pendingExit' = [s \in Strategies |->
                                     IF s \in exiting THEN decision[s] ELSE pending[s]]
                /\ orders' = [p \in Slots |->
                                IF p[1] \in passed /\ p[2] = decision[p[1]]
                                  THEN -position ELSE open[p]]
                /\ exposure' = exposure - Cardinality(passed) * position
                /\ lost' = gone \cup {s \in exiting \ passed : decision[s] \notin PriceReasons}
    BY DEF Evaluate
  <1> DEFINE exiting == {s \in called : decision[s] # None}
  <1>2. PICK passed \in SUBSET exiting :
          /\ pendingExit' = [s \in Strategies |->
                               IF s \in exiting THEN decision[s] ELSE pending[s]]
          /\ orders' = [p \in Slots |->
                          IF p[1] \in passed /\ p[2] = decision[p[1]]
                            THEN -position ELSE open[p]]
          /\ exposure' = exposure - Cardinality(passed) * position
          /\ lost' = gone \cup {s \in exiting \ passed : decision[s] \notin PriceReasons}
    BY <1>1
  <1>3. passed \subseteq Strategies  OBVIOUS
  <1>4. Cardinality(passed) \in Nat
    BY <1>3, PositionsAssumption, FS_Subset, FS_CardinalityType
  <1>5. exposure' \in Int  BY <1>2, <1>4
  <1>6. pendingExit' \in [Strategies -> Reasons \cup {None}]  BY <1>2
  <1>7. orders' \in [Slots -> Int]  BY <1>2
  <1>8. lost' \subseteq Strategies  BY <1>2
  <1>9. ASSUME called = {} PROVE pendingExit' = pending /\ lost' = gone
    <2>1. exiting = {}  BY <1>9
    <2>2. pendingExit' = [s \in Strategies |-> pending[s]]  BY <1>2, <2>1
    <2>3. lost' = gone  BY <1>2, <2>1
    <2> QED  BY <2>2, <2>3
  <1>10. ASSUME NEW p \in Slots, open[p] # 0 PROVE orders'[p] # 0
    <2>1. orders'[p] = IF p[1] \in passed /\ p[2] = decision[p[1]] THEN -position ELSE open[p]
      BY <1>2
    <2>2. p[1] \in passed => position # 0  OBVIOUS
    <2> QED  BY <1>10, <2>1, <2>2
  <1> QED  BY <1>5, <1>6, <1>7, <1>8, <1>9, <1>10

-----------------------------------------------------------------------------
PositionsInv == PositionsTypeOK /\ NavIdentity

LEMMA ClearedBooks ==
  ASSUME NEW books \in [Slots -> Int], NEW order \in Slots
  PROVE  [books EXCEPT ![order] = 0] \in [Slots -> Int]
  OBVIOUS

(* A fill keeps the types and the identity.                                *)
LEMMA FillStep ==
  ASSUME PositionsInv, NEW s \in Strategies, NEW kind \in Kinds, NEW px \in Prices,
         Fill(s, kind, px)
  PROVE  PositionsInv'
  <1> DEFINE lots == orders[<<s, kind>>]
             open == [orders EXCEPT ![<<s, kind>>] = 0]
             fresh == Sign(qty + lots) # Sign(qty)
             pending == IF fresh THEN [t \in Strategies |-> None] ELSE pendingExit
             old == IF fresh THEN {} ELSE aged
             gone == IF fresh THEN {} ELSE lost \cup LostBy(s, kind)
             called == IF qty + lots = 0 THEN {} ELSE Strategies
  <1> USE DEF PositionsInv
  <1>1. /\ lots # 0 /\ applyFill(lots, px) /\ aged' = old
        /\ refused' = refused \ {<<s, kind>>} /\ UNCHANGED <<resting, returned>>
        /\ Evaluate(called, qty + lots, pending, old, open, gone)
    BY DEF Fill, strayVars
  <1>2. /\ qty \in Int /\ avg \in Nat /\ settled \in Int /\ exposure \in Int
        /\ qty # 0 <=> avg # 0
        /\ orders \in [Slots -> Int]
        /\ refused \subseteq {p \in Slots : orders[p] # 0}
        /\ pendingExit \in [Strategies -> Reasons \cup {None}]
        /\ aged \subseteq Strategies /\ lost \subseteq Strategies
        /\ resting \in Int /\ returned \in Int
    BY DEF PositionsTypeOK
  <1>3. lots \in Int \ {0} /\ px \in Nat
    <2>1. <<s, kind>> \in Slots  BY DEF Slots
    <2> QED  BY <1>1, <1>2, <2>1, PositionsAssumption
  <1>4. PICK a \in 0..TopPrice : Average(lots, px, a) /\ avg' = a
    BY <1>1 DEF applyFill
  <1>5. qty' = qty + lots /\ settled' = settled - px * lots - Realized(lots, px)
    BY <1>1 DEF applyFill
  <1>6. a \in Nat  BY PositionsAssumption
  <1> HIDE DEF lots
  <1>7. /\ Realized(lots, px) \in Int
        /\ a * (qty + lots) = avg * qty + px * lots + Realized(lots, px)
    BY <1>2, <1>3, <1>4, <1>6, FillKeepsValue
  <1>8. NavIdentity'
    <2>1. settled + avg * qty = 0  BY DEF NavIdentity
    <2>2. settled' + avg' * qty' = settled - px * lots - Realized(lots, px) + a * (qty + lots)
      BY <1>4, <1>5
    <2>3. px * lots \in Int /\ avg * qty \in Int  BY <1>2, <1>3
    <2> QED  BY <1>2, <1>7, <2>1, <2>2, <2>3 DEF NavIdentity
  <1>9. qty' # 0 <=> avg' # 0  BY <1>2, <1>3, <1>4, <1>5, AverageOfPosition
  <1>10. qty' \in Int /\ avg' \in Nat /\ settled' \in Int
    BY <1>2, <1>3, <1>4, <1>5, <1>6, <1>7
  <1>11. /\ pending \in [Strategies -> Reasons \cup {None}]
         /\ open \in [Slots -> Int]
         /\ (qty + lots # 0 \/ called = {})
         /\ gone \subseteq Strategies /\ called \subseteq Strategies /\ qty + lots \in Int
    <2>1. open \in [Slots -> Int]  BY <1>2, ClearedBooks DEF Slots
    <2>2. pending \in [Strategies -> Reasons \cup {None}]  BY <1>2
    <2>3. qty + lots # 0 \/ called = {}  OBVIOUS
    <2>4. gone \subseteq Strategies  BY <1>2 DEF LostBy
    <2>5. called \subseteq Strategies /\ qty + lots \in Int  BY <1>2, <1>3
    <2> HIDE DEF open, pending, called, gone
    <2> QED  BY <2>1, <2>2, <2>3, <2>4, <2>5
  <1>12. /\ pendingExit' \in [Strategies -> Reasons \cup {None}]
         /\ orders' \in [Slots -> Int]
         /\ \A p \in Slots : open[p] # 0 => orders'[p] # 0
         /\ exposure' \in Int /\ lost' \subseteq Strategies
         /\ called = {} => pendingExit' = pending /\ lost' = gone
    <2> HIDE DEF pending, open, gone, called, old
    <2> QED  BY <1>1, <1>2, <1>11, EvaluateTypes
  <1>13. ASSUME qty' = 0
         PROVE  aged' = {} /\ lost' = {} /\ \A t \in Strategies : pendingExit'[t] = None
    <2>1. qty + lots = 0  BY <1>5, <1>13
    <2>2. fresh  BY <1>2, <1>3, <2>1 DEF Sign
    <2> QED  BY <1>1, <1>12, <2>1, <2>2
  <1>14. aged' \subseteq Strategies /\ resting' \in Int /\ returned' \in Int
    BY <1>1, <1>2
  <1>15. refused' \subseteq {p \in Slots : orders'[p] # 0}
    <2>1. \A p \in refused' : p \in Slots /\ orders[p] # 0 /\ p # <<s, kind>>
      BY <1>1, <1>2
    <2>2. \A p \in refused' : open[p] # 0  BY <1>2, <2>1
    <2> QED  BY <1>12, <2>1, <2>2
  <1> QED  BY <1>8, <1>9, <1>10, <1>12, <1>13, <1>14, <1>15 DEF PositionsTypeOK

(* Every step keeps the types and the identity.                            *)
LEMMA InvStep ==
  ASSUME PositionsInv, [PositionsNext]_positionVars
  PROVE  PositionsInv'
  <1> USE DEF PositionsInv
  <1>0. CASE UNCHANGED positionVars
    BY <1>0 DEF positionVars, portfolioVars, engineVars, strayVars, PositionsTypeOK, NavIdentity
  <1>1. ASSUME NEW s \in Strategies, NEW lots \in {-1, 1}, Enter(s, lots)
        PROVE  PositionsInv'
    <2>1. UNCHANGED <<qty, avg, settled, refused, pendingExit, aged, lost, resting, returned>>
      BY <1>1 DEF Enter, portfolioVars, engineVars, strayVars
    <2>2. orders' = [orders EXCEPT ![<<s, Entry>>] = lots] /\ exposure' = exposure + lots
      BY <1>1 DEF Enter
    <2>3. /\ orders' \in [Slots -> Int]
          /\ \A p \in Slots : orders[p] # 0 => orders'[p] # 0
      BY <2>2 DEF PositionsTypeOK, Kinds, Slots
    <2>4. exposure' \in Int
      BY <2>2 DEF PositionsTypeOK
    <2> QED  BY <2>1, <2>3, <2>4 DEF PositionsTypeOK, NavIdentity
  <1>2. ASSUME NEW s \in Strategies, Watches(s)
        PROVE  PositionsInv'
    <2>1. /\ qty # 0
          /\ Evaluate({s}, qty, pendingExit, aged, orders, lost)
          /\ UNCHANGED <<portfolioVars, aged, refused, strayVars>>
      BY <1>2 DEF Watches
    <2>2. /\ pendingExit' \in [Strategies -> Reasons \cup {None}]
          /\ orders' \in [Slots -> Int]
          /\ \A p \in Slots : orders[p] # 0 => orders'[p] # 0
          /\ exposure' \in Int /\ lost' \subseteq Strategies
      BY <2>1, EvaluateTypes DEF PositionsTypeOK
    <2> QED  BY <2>1, <2>2 DEF portfolioVars, strayVars, PositionsTypeOK, NavIdentity
  <1>3. ASSUME NEW s \in Strategies, HoldLimit(s)
        PROVE  PositionsInv'
    BY <1>3 DEF HoldLimit, portfolioVars, strayVars, PositionsTypeOK, NavIdentity
  <1>4. ASSUME NEW s \in Strategies, NEW kind \in Kinds, AttemptFails(s, kind)
        PROVE  PositionsInv'
    <2> DEFINE order == <<s, kind>>
               first == IF order \in refused THEN 0 ELSE orders[order]
    <2>1. /\ UNCHANGED <<qty, avg, settled, orders, pendingExit, aged, lost, resting>>
          /\ orders[order] # 0 /\ refused' = refused \cup {order}
          /\ exposure' = exposure - first /\ returned' = returned + first
      BY <1>4 DEF AttemptFails, portfolioVars, engineVars
    <2>2. order \in Slots  BY DEF Slots
    <2>3. first \in Int  BY <2>2 DEF PositionsTypeOK
    <2> QED  BY <2>1, <2>2, <2>3 DEF PositionsTypeOK, NavIdentity
  <1>5. ASSUME NEW s \in Strategies, NEW kind \in Kinds, SubmitFails(s, kind) \/ Rests(s, kind)
        PROVE  PositionsInv'
    <2> DEFINE order == <<s, kind>>
    <2>1. /\ UNCHANGED <<qty, avg, settled, pendingExit, aged, returned>>
          /\ orders' = [orders EXCEPT ![order] = 0] /\ refused' = refused \ {order}
          /\ lost' = lost \cup LostBy(s, kind)
          /\ \/ exposure' = exposure - orders[order] /\ resting' = resting
             \/ exposure' = exposure /\ resting' = resting + orders[order]
      BY <1>5 DEF SubmitFails, Rests, Ends, portfolioVars, strayVars
    <2>2. order \in Slots  BY DEF Slots
    <2>3. orders' \in [Slots -> Int] /\ refused' \subseteq {p \in Slots : orders'[p] # 0}
      BY <2>1, <2>2 DEF PositionsTypeOK
    <2>4. exposure' \in Int /\ resting' \in Int
      BY <2>1, <2>2 DEF PositionsTypeOK
    <2>5. kind # None
      BY PositionsAssumption DEF Kinds, Reasons, None, Time, Entry
    <2>6. lost' \subseteq Strategies /\ (qty = 0 => lost' = {})
      BY <2>1, <2>5 DEF LostBy, PositionsTypeOK
    <2> QED  BY <2>1, <2>3, <2>4, <2>6 DEF PositionsTypeOK, NavIdentity
  <1>6. ASSUME NEW s \in Strategies, NEW kind \in Kinds, NEW px \in Prices, Fill(s, kind, px)
        PROVE  PositionsInv'
    BY <1>6, FillStep
  <1>7. CASE PositionsNext
    <2>1. PICK s \in Strategies :
            \/ \E lots \in {-1, 1} : Enter(s, lots)
            \/ Watches(s) \/ HoldLimit(s)
            \/ \E kind \in Kinds : AttemptFails(s, kind) \/ Settles(s, kind)
      BY <1>7 DEF PositionsNext
    <2> QED  BY <2>1, <1>1, <1>2, <1>3, <1>4, <1>5, <1>6 DEF Settles
  <1> QED  BY <1>0, <1>7

(* The inductive invariant.                                                *)
THEOREM PositionsInvariant == PositionsSpec => []PositionsInv
  <1>1. PositionsInit => PositionsInv
    BY DEF PositionsInit, PositionsInv, PositionsTypeOK, NavIdentity, Sign
  <1>2. PositionsInv /\ [PositionsNext]_positionVars => PositionsInv'
    BY InvStep
  <1> QED  BY <1>1, <1>2, PTL DEF PositionsSpec

(* Types; a flat position has no average, no exit time, no pending exit.   *)
THEOREM PositionsTypeCorrect == PositionsSpec => []PositionsTypeOK
  BY PositionsInvariant, PTL DEF PositionsInv

(* Cash less realised profit is always what the open position cost.        *)
THEOREM NavAndPnlAgree == PositionsSpec => []NavIdentity
  BY PositionsInvariant, PTL DEF PositionsInv

-----------------------------------------------------------------------------
(* The exposure and the lots in flight.                                    *)
InFlight == SumOver(orders, Slots)

LEMMA ExposureAsSum ==
  ASSUME PositionsTypeOK
  PROVE  ExposureMissesOnlyTheRefused <=> exposure = qty + InFlight + resting - returned
  <1>1. DOMAIN orders = Slots  BY DEF PositionsTypeOK
  <1>2. ExposureMissesOnlyTheRefused <=>
          exposure = qty + SumOver(orders, DOMAIN orders) + resting - returned
    BY DEF ExposureMissesOnlyTheRefused, SumOver, PartialSums, AnElement, FoldFunction,
           FoldFunctionOnSet, MapThenFoldSet
  <1> QED  BY <1>1, <1>2 DEF InFlight

LEMMA SlotsFinite == IsFiniteSet(Slots)
  <1>1. IsFiniteSet(Overrides \cup PriceReasons)  BY PositionsAssumption, FS_Union
  <1>2. IsFiniteSet(Reasons)  BY <1>1, FS_AddElement DEF Reasons
  <1>3. IsFiniteSet(Kinds)  BY <1>2, FS_AddElement DEF Kinds
  <1> QED  BY <1>3, PositionsAssumption, FS_Product DEF Slots

(* One slot changes.                                                       *)
LEMMA SlotChange ==
  ASSUME NEW f \in [Slots -> Int], NEW g \in [Slots -> Int], NEW x \in Slots,
         \A y \in Slots \ {x} : g[y] = f[y]
  PROVE  SumOver(g, Slots) = SumOver(f, Slots) - f[x] + g[x]
  BY SlotsFinite, SumOverUpdate

(* A round of evaluations puts as many exits in flight, each for the whole *)
(* position and each in a slot that was free, as it takes from the         *)
(* exposure.                                                               *)
LEMMA EvaluateExposure ==
  ASSUME NEW called \in SUBSET Strategies, NEW position \in Int,
         NEW pending \in [Strategies -> Reasons \cup {None}], NEW old,
         NEW open \in [Slots -> Int], NEW gone \in SUBSET Strategies,
         exposure \in Int,
         Evaluate(called, position, pending, old, open, gone)
  PROVE  exposure' = exposure + SumOver(orders', Slots) - SumOver(open, Slots)
  <1>1. PICK decision \in [called -> Reasons \cup {None}] :
          /\ \A s \in called : decision[s] \in Exits(s, pending[s], old, open)
          /\ \E passed \in SUBSET {s \in called : decision[s] # None} :
                /\ orders' = [p \in Slots |->
                                IF p[1] \in passed /\ p[2] = decision[p[1]]
                                  THEN -position ELSE open[p]]
                /\ exposure' = exposure - Cardinality(passed) * position
    BY DEF Evaluate, Slots
  <1>2. PICK passed \in SUBSET {s \in called : decision[s] # None} :
          /\ orders' = [p \in Slots |->
                          IF p[1] \in passed /\ p[2] = decision[p[1]]
                            THEN -position ELSE open[p]]
          /\ exposure' = exposure - Cardinality(passed) * position
    BY <1>1
  <1>3. ASSUME NEW s \in passed
        PROVE  decision[s] \in Reasons /\ open[<<s, decision[s]>>] = 0
    <2>1. decision[s] \in Exits(s, pending[s], old, open) /\ decision[s] # None
      BY <1>1
    <2>2. MayExit(open, s, decision[s])  BY <2>1 DEF Exits
    <2> QED  BY <2>1, <2>2 DEF MayExit
  <1> DEFINE taken == {<<s, decision[s]>> : s \in passed}
             count == Cardinality(passed)
  <1>4. taken \subseteq Slots  BY <1>3 DEF Kinds, Slots
  <1>5. IsFiniteSet(passed) /\ count \in Nat
    BY PositionsAssumption, FS_Subset, FS_CardinalityType
  <1>6. Cardinality(taken) = count
    <2> DEFINE slot == [s \in passed |-> <<s, decision[s]>>]
    <2>1. slot \in Bijection(passed, taken)
      BY DEF Bijection, Injection, Surjection, IsInjective
    <2>2. ExistsBijection(passed, taken)  BY <2>1 DEF ExistsBijection
    <2> QED  BY <1>5, <2>2, FS_Bijection
  <1>7. orders' \in [Slots -> Int] /\ open \in [Slots -> Int]  BY <1>2
  <1>8. \A x \in taken : open[x] = 0 /\ orders'[x] = -position
    BY <1>2, <1>3, <1>4
  <1>9. \A x \in Slots \ taken : orders'[x] = open[x]
    BY <1>2 DEF Slots
  <1>10. SumOver(orders', Slots) = SumOver(open, Slots) + count * (-position)
    <2> DEFINE lots == -position
    <2>1. IsFiniteSet(Slots) /\ lots \in Int  BY SlotsFinite
    <2>2. \A x \in taken : open[x] = 0 /\ orders'[x] = lots  BY <1>8
    <2> HIDE DEF taken, count, lots
    <2>3. SumOver(orders', Slots) = SumOver(open, Slots) + count * lots
      BY <1>4, <1>6, <1>7, <2>2, <1>9, <2>1, SumOverSetMany
    <2> USE DEF lots
    <2> QED  BY <2>3
  <1>11. SumOver(open, Slots) \in Int
    BY SlotsFinite, SumOverTakes
  <1>12. count * (-position) = -(count * position) /\ count * position \in Int
    BY <1>5
  <1>13. exposure' = exposure - count * position  BY <1>2
  <1>14. SumOver(orders', Slots) \in Int  BY <1>7, SlotsFinite, SumOverTakes
  <1> HIDE DEF count
  <1> QED  BY <1>10, <1>11, <1>12, <1>13, <1>14

Exact == exposure = qty + InFlight + resting - returned

LEMMA ExposureStep ==
  ASSUME PositionsInv, PositionsInv', Exact, [PositionsNext]_positionVars
  PROVE  Exact'
  <1>1. /\ qty \in Int /\ exposure \in Int /\ orders \in [Slots -> Int]
        /\ pendingExit \in [Strategies -> Reasons \cup {None}]
        /\ aged \subseteq Strategies /\ lost \subseteq Strategies
        /\ resting \in Int /\ returned \in Int
        /\ qty' \in Int /\ orders' \in [Slots -> Int]
        /\ \A s \in Strategies, kind \in Kinds : orders[<<s, kind>>] \in Int
    BY DEF PositionsInv, PositionsTypeOK, Slots
  <1>2. /\ SumOver(orders, Slots) \in Int /\ SumOver(orders', Slots) \in Int
        /\ InFlight = SumOver(orders, Slots) /\ InFlight' = SumOver(orders', Slots)
        /\ exposure = qty + SumOver(orders, Slots) + resting - returned
        /\ Exact' <=> exposure' = qty' + SumOver(orders', Slots) + resting' - returned'
    BY <1>1, SlotsFinite, SumOverTakes DEF InFlight, Exact
  <1>3. CASE UNCHANGED <<qty, exposure, orders, resting, returned>>
    BY <1>3 DEF InFlight, Exact
  <1>4. ASSUME NEW x \in Slots, \A y \in Slots \ {x} : orders'[y] = orders[y], UNCHANGED qty,
               exposure' - resting' = exposure - resting + orders'[x] - orders[x],
               UNCHANGED returned, exposure' \in Int, resting' \in Int
        PROVE  Exact'
    <2>1. SumOver(orders', Slots) = SumOver(orders, Slots) - orders[x] + orders'[x]
      BY <1>1, <1>4, SlotChange
    <2>2. orders[x] \in Int /\ orders'[x] \in Int  BY <1>1
    <2> QED  BY <1>1, <1>2, <1>4, <2>1, <2>2
  <1>5. ASSUME NEW s \in Strategies, Watches(s) PROVE Exact'
    <2>1. /\ Evaluate({s}, qty, pendingExit, aged, orders, lost)
          /\ UNCHANGED <<qty, resting, returned>>
      BY <1>5 DEF Watches, portfolioVars, strayVars
    <2>2. {s} \in SUBSET Strategies  OBVIOUS
    <2>3. exposure' = exposure + SumOver(orders', Slots) - SumOver(orders, Slots)
      BY <1>1, <2>1, <2>2, EvaluateExposure
    <2> QED  BY <1>1, <1>2, <2>1, <2>3
  <1>6. ASSUME NEW s \in Strategies, NEW kind \in Kinds, NEW px \in Prices, Fill(s, kind, px)
        PROVE  Exact'
    <2> DEFINE lots == orders[<<s, kind>>]
               open == [orders EXCEPT ![<<s, kind>>] = 0]
               fresh == Sign(qty + lots) # Sign(qty)
               pending == IF fresh THEN [t \in Strategies |-> None] ELSE pendingExit
               old == IF fresh THEN {} ELSE aged
               gone == IF fresh THEN {} ELSE lost \cup LostBy(s, kind)
               called == IF qty + lots = 0 THEN {} ELSE Strategies
    <2>1. /\ qty' = qty + lots /\ UNCHANGED <<resting, returned>>
          /\ Evaluate(called, qty + lots, pending, old, open, gone)
      BY <1>6 DEF Fill, applyFill, strayVars
    <2>2. lots \in Int  BY <1>1
    <2>3. /\ pending \in [Strategies -> Reasons \cup {None}]
          /\ open \in [Slots -> Int]
          /\ gone \subseteq Strategies /\ called \subseteq Strategies /\ qty + lots \in Int
      BY <1>1, <2>2 DEF LostBy, Slots
    <2>4. SumOver(open, Slots) = SumOver(orders, Slots) - lots
      <3> DEFINE x == <<s, kind>>
      <3>1. /\ x \in Slots /\ open[x] = 0 /\ lots = orders[x]
            /\ \A y \in Slots \ {x} : open[y] = orders[y]
        BY <1>1 DEF Slots
      <3> HIDE DEF x, open, lots
      <3>2. SumOver(open, Slots) = SumOver(orders, Slots) - lots + 0
        BY <1>1, <2>3, <3>1, SlotChange
      <3> QED  BY <1>1, <1>2, <2>2, <3>2
    <2>5. exposure' = exposure + SumOver(orders', Slots) - SumOver(open, Slots)
      <3> HIDE DEF pending, open, gone, called, old, lots
      <3> QED  BY <1>1, <2>1, <2>3, EvaluateExposure
    <2> HIDE DEF open, lots
    <2> QED  BY <1>1, <1>2, <2>1, <2>2, <2>4, <2>5
  <1>7. ASSUME NEW s \in Strategies, NEW lots \in {-1, 1}, Enter(s, lots)
        PROVE  Exact'
    <2>1. /\ UNCHANGED <<qty, resting, returned>> /\ orders[<<s, Entry>>] = 0
          /\ orders' = [orders EXCEPT ![<<s, Entry>>] = lots] /\ exposure' = exposure + lots
      BY <1>7 DEF Enter, portfolioVars, strayVars
    <2> DEFINE x == <<s, Entry>>
    <2>2. x \in Slots  BY DEF Kinds, Slots
    <2>3. orders'[x] = lots /\ \A y \in Slots \ {x} : orders'[y] = orders[y]
      BY <1>1, <2>1, <2>2
    <2>4. exposure' \in Int /\ exposure' - resting' = exposure - resting + orders'[x] - orders[x]
      BY <1>1, <2>1, <2>3
    <2> QED  BY <1>1, <1>4, <2>1, <2>2, <2>3, <2>4
  <1>8. ASSUME NEW s \in Strategies, NEW kind \in Kinds, AttemptFails(s, kind)
        PROVE  Exact'
    <2> DEFINE x == <<s, kind>>
               first == IF x \in refused THEN 0 ELSE orders[x]
    <2>1. /\ UNCHANGED <<qty, orders, resting>>
          /\ exposure' = exposure - first /\ returned' = returned + first
      BY <1>8 DEF AttemptFails, portfolioVars
    <2>2. first \in Int  BY <1>1
    <2> HIDE DEF first
    <2> QED  BY <1>1, <1>2, <2>1, <2>2
  <1>9. ASSUME NEW s \in Strategies, NEW kind \in Kinds, SubmitFails(s, kind) \/ Rests(s, kind)
        PROVE  Exact'
    <2> DEFINE x == <<s, kind>>
    <2>1. /\ UNCHANGED <<qty, returned>> /\ orders' = [orders EXCEPT ![x] = 0]
          /\ \/ exposure' = exposure - orders[x] /\ resting' = resting
             \/ exposure' = exposure /\ resting' = resting + orders[x]
      BY <1>9 DEF SubmitFails, Rests, Ends, portfolioVars, strayVars
    <2>2. x \in Slots /\ orders[x] \in Int  BY <1>1 DEF Slots
    <2>3. orders'[x] = 0 /\ \A y \in Slots \ {x} : orders'[y] = orders[y]
      BY <1>1, <2>1, <2>2
    <2>4. /\ exposure' \in Int /\ resting' \in Int
          /\ exposure' - resting' = exposure - resting + orders'[x] - orders[x]
      BY <1>1, <2>1, <2>2, <2>3
    <2> QED  BY <1>4, <2>1, <2>2, <2>3, <2>4
  <1>10. ASSUME NEW s \in Strategies, HoldLimit(s) PROVE Exact'
    BY <1>3, <1>10 DEF HoldLimit, portfolioVars, strayVars
  <1>11. CASE UNCHANGED positionVars
    BY <1>3, <1>11 DEF positionVars, portfolioVars, strayVars
  <1> QED
    BY <1>5, <1>6, <1>7, <1>8, <1>9, <1>10, <1>11 DEF PositionsNext, Settles

(* The exposure that the pre-trade check compares with the limit misses    *)
(* every order that an attempt failed for, once, and nothing else: for any *)
(* number of strategies, of attempts and of exits asked for, refused,      *)
(* failed, filled or left at rest, at any prices.                          *)
THEOREM ExposureIsExact == PositionsSpec => []ExposureMissesOnlyTheRefused
  <1>1. PositionsInit => Exact
    <2> SUFFICES ASSUME PositionsInit PROVE Exact
      OBVIOUS
    <2>1. /\ qty = 0 /\ exposure = 0 /\ orders \in [Slots -> Int]
          /\ \A p \in Slots : orders[p] = 0
          /\ resting = 0 /\ returned = 0
      BY DEF PositionsInit
    <2>2. InFlight = 0  BY <2>1, SlotsFinite, SumOverZero DEF InFlight
    <2> QED  BY <2>1, <2>2 DEF Exact
  <1>2. PositionsInv /\ PositionsInv' /\ Exact /\ [PositionsNext]_positionVars => Exact'
    BY ExposureStep
  <1>3. PositionsInv /\ Exact => ExposureMissesOnlyTheRefused
    BY ExposureAsSum DEF PositionsInv, Exact
  <1> QED  BY <1>1, <1>2, <1>3, PositionsInvariant, PTL DEF PositionsSpec

(* With the paper engine, where no attempt fails, the exposure is the      *)
(* position and the orders in flight.                                      *)
THEOREM PaperExposureIsExact ==
  ASSUME Gateway = "paper"
  PROVE  PositionsSpec => [](exposure = qty + InFlight)
  <1> DEFINE Calm == resting = 0 /\ returned = 0
  <1>1. PositionsInit => Calm
    BY DEF PositionsInit
  <1>2. Calm /\ [PositionsNext]_positionVars => Calm'
    BY DEF PositionsNext, Settles, AttemptFails, SubmitFails, Rests, Fill, Enter, Watches,
           HoldLimit, positionVars, strayVars
  <1>3. PositionsInv /\ Calm /\ ExposureMissesOnlyTheRefused => exposure = qty + InFlight
    <2> SUFFICES ASSUME PositionsInv, Calm, ExposureMissesOnlyTheRefused
                 PROVE  exposure = qty + InFlight
      OBVIOUS
    <2>1. /\ qty \in Int /\ orders \in [Slots -> Int]
          /\ exposure = qty + InFlight + resting - returned
      BY ExposureAsSum DEF PositionsInv, PositionsTypeOK
    <2>2. InFlight \in Int  BY <2>1, SlotsFinite, SumOverTakes DEF InFlight
    <2> QED  BY <2>1, <2>2
  <1> QED
    BY <1>1, <1>2, <1>3, PositionsInvariant, ExposureIsExact, PTL DEF PositionsSpec
=============================================================================
