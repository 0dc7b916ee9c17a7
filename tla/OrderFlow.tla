----------------------------- MODULE OrderFlow -----------------------------
(***************************************************************************)
(* An order's way from the pre-trade check to its fill, as startEngine.ts  *)
(* wires it: the risk engine's exposure, the quote and base reservations,  *)
(* the execution manager, the retry policy and the gateway under it, the   *)
(* intent reconciler and the ledger that the fills move.                   *)
(*                                                                         *)
(* All of it runs on one event loop.  Observers run inside the call that   *)
(* emits, so a gateway's ack, fill or reject and every handler it reaches  *)
(* are one step; the awaits of submit, of the policy and of the gateway    *)
(* are where steps of different orders interleave.                         *)
(*                                                                         *)
(* One symbol in cash mode; every order is a limit order for one lot at    *)
(* Price.  Orders are the calls of the policy's submit.                    *)
(***************************************************************************)
EXTENDS ExecutionPolicy, FiniteSets, Functions

CONSTANTS
  Buys,          \* the orders that buy; the others sell
  Exits,         \* the orders with meta.exit, which skip the account guard
  Gateway,       \* "paper" or "binance", as createExecutionManager selects
  MaxPosition,   \* RISK_MAX_POSITION, in lots
  Price, Fee,    \* limit price of a lot and its expected fee
  FillPrices,    \* the prices a lot may fill at
  InitialQuote, InitialBase

Orders == Calls

ASSUME OrderAssumption ==
  /\ IsFiniteSet(Calls)
  /\ Buys \subseteq Calls /\ Exits \subseteq Calls
  /\ Gateway \in {"paper", "binance"}
  /\ MaxPosition \in Nat /\ Price \in Nat \ {0} /\ Fee \in Nat
  /\ FillPrices \subseteq Nat \ {0}
  /\ InitialQuote \in Nat /\ InitialBase \in Nat

VARIABLES
  engine,               \* the approved$ handler: none, denied, awaiting, submitted, failed
  exposure,             \* preTrade: exposures[symbol]
  pending, pendingTotal,                 \* QuoteReserveGuard, quote per order
  pendingBaseAdds, pendingBaseAddsTotal, \* QuoteReserveGuard, base of open buys
  pendingOrders,        \* startEngine
  pendingFees,          \* executionManager
  intents,              \* intentReconciler: the orders it tracks
  acked, alertedAck, alertedFill, cancelAttempted, \* its flags
  cancelling,           \* DELETE requests in flight
  quote, base,          \* the ledger's available balances
  filled                \* history: the orders that filled

guardVars == <<pending, pendingTotal, pendingBaseAdds, pendingBaseAddsTotal>>
reconcilerVars == <<intents, acked, alertedAck, alertedFill, cancelAttempted, cancelling>>
ledgerVars == <<quote, base, filled>>
orderVars == <<engine, exposure, guardVars, pendingOrders, pendingFees, reconcilerVars, ledgerVars>>
vars == <<policyVars, orderVars>>

Init ==
  /\ PolicyInit
  /\ engine = [o \in Orders |-> "none"]
  /\ exposure = 0
  /\ pending = [o \in Orders |-> 0] /\ pendingTotal = 0
  /\ pendingBaseAdds = [o \in Orders |-> 0] /\ pendingBaseAddsTotal = 0
  /\ pendingOrders = {} /\ pendingFees = {}
  /\ intents = {} /\ acked = {} /\ alertedAck = {} /\ alertedFill = {}
  /\ cancelAttempted = {} /\ cancelling = {}
  /\ quote = InitialQuote /\ base = InitialBase
  /\ filled = {}

-----------------------------------------------------------------------------
(* Pre-trade risk and the quote reserve guard                              *)

Signed(o) == IF o \in Buys THEN 1 ELSE -1
Notional == Price + Fee                    \* notionalWithFees
AtLeast0(n) == IF n < 0 THEN 0 ELSE n
Smaller(m, n) == IF m < n THEN m ELSE n

availableQuote == quote - pendingTotal
availableBase == base + pendingBaseAddsTotal

(* Defect: the quote already promised to open orders is not deducted.      *)
AccountGuardAcceptsUnreserved(o) ==
  o \notin Exits => IF o \in Buys THEN quote >= Notional ELSE availableBase >= 1

AccountGuardAccepts(o) ==
  o \notin Exits => IF o \in Buys THEN availableQuote >= Notional ELSE availableBase >= 1

(* Defect: open orders do not count towards the position.                  *)
PositionAcceptsFilledOnly(o) ==
  Cardinality(filled \cap Buys) - Cardinality(filled \ Buys) + Signed(o) \in
     -MaxPosition..MaxPosition

PositionAccepts(o) == exposure + Signed(o) \in -MaxPosition..MaxPosition

ReserveBuy(o) ==
  IF o \in Buys
    THEN /\ pending' = [pending EXCEPT ![o] = @ + Notional]
         /\ pendingTotal' = pendingTotal + Notional
         /\ pendingBaseAdds' = [pendingBaseAdds EXCEPT ![o] = @ + 1]
         /\ pendingBaseAddsTotal' = pendingBaseAddsTotal + 1
    ELSE UNCHANGED guardVars

(* Defect: the map entry is deleted but the running total is not adjusted. *)
ReleaseEntryOnly(o) ==
  /\ pending' = [pending EXCEPT ![o] = 0]
  /\ UNCHANGED <<pendingTotal, pendingBaseAdds, pendingBaseAddsTotal>>

Release(o) ==
  /\ pending' = [pending EXCEPT ![o] = 0]
  /\ pendingTotal' = AtLeast0(pendingTotal - pending[o])
  /\ UNCHANGED <<pendingBaseAdds, pendingBaseAddsTotal>>

(* Defect: a fill that costs more than was reserved is not capped.         *)
ConsumeUncapped(o, amount) ==
  /\ pending' = [pending EXCEPT ![o] = @ - amount]
  /\ pendingTotal' = AtLeast0(pendingTotal - amount)

(* consume, for the fee and then for the ledger's debit or credit          *)
Consume(o, amount) ==
  /\ pending' = [pending EXCEPT ![o] = @ - Smaller(@, amount)]
  /\ pendingTotal' = AtLeast0(pendingTotal - Smaller(pending[o], amount))

ReleaseBase(o) ==
  /\ pendingBaseAdds' = [pendingBaseAdds EXCEPT ![o] = 0]
  /\ pendingBaseAddsTotal' = AtLeast0(pendingBaseAddsTotal - pendingBaseAdds[o])

-----------------------------------------------------------------------------
(* An intent: the risk check and, when it is approved, the synchronous     *)
(* part of the handler, up to the await of execution.submit.               *)

(* The exit engine asks to close only a position that fills have built.    *)
Net(S) == Cardinality(S \cap Buys) - Cardinality(S \ Buys)
Intended(o) == o \in Exits => Signed(o) * Net(filled) < 0

(* The checks of notional, price band and throttle look at the order and   *)
(* the clock only: they may refuse any order.                              *)
Deny(o) ==
  /\ engine[o] = "none" /\ Intended(o)
  /\ engine' = [engine EXCEPT ![o] = "denied"]
  /\ UNCHANGED <<policyVars, exposure, guardVars, pendingOrders, pendingFees,
                 reconcilerVars, ledgerVars>>

(* Defect: the order reaches the venue without the reconciler's tracking.  *)
ApproveUntracked(o) ==
  /\ engine[o] = "none" /\ Intended(o)
  /\ PositionAccepts(o) /\ AccountGuardAccepts(o)
  /\ engine' = [engine EXCEPT ![o] = "awaiting"]
  /\ exposure' = exposure + Signed(o)
  /\ pendingOrders' = pendingOrders \cup {o}
  /\ ReserveBuy(o)
  /\ pendingFees' = pendingFees \cup {o}
  /\ Submit(o)
  /\ UNCHANGED <<reconcilerVars, ledgerVars>>

Approve(o) ==
  /\ engine[o] = "none" /\ Intended(o)
  /\ PositionAccepts(o) /\ AccountGuardAccepts(o)
  /\ engine' = [engine EXCEPT ![o] = "awaiting"]
  /\ exposure' = exposure + Signed(o)
  /\ pendingOrders' = pendingOrders \cup {o}
  /\ ReserveBuy(o)
  /\ intents' = intents \cup {o}
  /\ pendingFees' = pendingFees \cup {o}
  /\ Submit(o)
  /\ UNCHANGED <<acked, alertedAck, alertedFill, cancelAttempted, cancelling, ledgerVars>>

-----------------------------------------------------------------------------
(* What the gateways' events do.                                           *)

OnAck(o) ==
  /\ acked' = acked \cup {o}
  /\ alertedAck' = alertedAck \ {o}
  /\ cancelAttempted' = cancelAttempted \ {o}

(* A fill: the manager adds the fee it kept for the order, the engine      *)
(* consumes that fee and frees the base, the accounting moves the ledger   *)
(* and the ledger's quote entry consumes the reservation once more.        *)
OnFill(o, px) ==
  LET fee == IF o \in pendingFees THEN Fee ELSE 0
      debit == IF o \in Buys THEN px + fee ELSE fee - px
  IN  /\ pendingFees' = pendingFees \ {o}
      /\ pendingOrders' = pendingOrders \ {o}
      /\ intents' = intents \ {o}
      /\ Consume(o, fee + (IF debit < 0 THEN -debit ELSE debit))
      /\ IF o \in Buys THEN ReleaseBase(o)
                       ELSE UNCHANGED <<pendingBaseAdds, pendingBaseAddsTotal>>
      /\ base' = base + Signed(o)
      /\ quote' = quote - debit
      /\ filled' = filled \cup {o}

(* A reject: the exposure is reverted only while the order is pending.     *)
OnReject(o) ==
  /\ pendingFees' = pendingFees \ {o}
  /\ exposure' = IF o \in pendingOrders THEN exposure - Signed(o) ELSE exposure
  /\ pendingOrders' = pendingOrders \ {o}
  /\ intents' = intents \ {o}
  /\ Release(o)

-----------------------------------------------------------------------------
(* PaperExecutionAdapter: an ack after one delay, the fill after another.  *)

PaperAck(o) ==
  /\ Gateway = "paper" /\ phase[o] = "calling" /\ o \notin acked
  /\ OnAck(o)
  /\ UNCHANGED <<policyVars, engine, exposure, guardVars, pendingOrders, pendingFees,
                 intents, alertedFill, cancelling, ledgerVars>>

(* A limit order fills at its limit or better.                             *)
PaperPrices(o) == {px \in FillPrices : IF o \in Buys THEN px <= Price ELSE px >= Price}

(* Defect: an order the reconciler has cancelled never fills.              *)
PaperFillUnlessCancelled(o, px) ==
  /\ Gateway = "paper" /\ o \in acked \ cancelAttempted /\ px \in PaperPrices(o)
  /\ AdapterReturns(o, TRUE)
  /\ OnFill(o, px)
  /\ UNCHANGED <<engine, exposure, acked, alertedAck, alertedFill, cancelAttempted, cancelling>>

PaperFill(o, px) ==
  /\ Gateway = "paper" /\ o \in acked /\ px \in PaperPrices(o)
  /\ AdapterReturns(o, TRUE)
  /\ OnFill(o, px)
  /\ UNCHANGED <<engine, exposure, acked, alertedAck, alertedFill, cancelAttempted, cancelling>>

(* BinanceRestGateway: a response acks, and fills if the status is FILLED; *)
(* an order that rests at the venue is never heard of again.  A failed     *)
(* attempt emits a reject and then throws into the policy.                 *)

BinanceAccepts(o) ==
  /\ Gateway = "binance"
  /\ AdapterReturns(o, TRUE)
  /\ OnAck(o)
  /\ UNCHANGED <<engine, exposure, guardVars, pendingOrders, pendingFees,
                 intents, alertedFill, cancelling, ledgerVars>>

BinanceFills(o, px) ==
  /\ Gateway = "binance"
  /\ AdapterReturns(o, TRUE)
  /\ OnAck(o)
  /\ OnFill(o, px)
  /\ UNCHANGED <<engine, exposure, alertedFill, cancelling>>

BinanceFails(o) ==
  /\ Gateway = "binance"
  /\ AdapterReturns(o, FALSE)
  /\ OnReject(o)
  /\ UNCHANGED <<engine, acked, alertedAck, alertedFill, cancelAttempted, cancelling, ledgerVars>>

-----------------------------------------------------------------------------
(* The policy's own steps, and the continuations of execution.submit.      *)

PolicyStep(o) ==
  /\ OnSuccess(o) \/ OnError(o) \/ Wake(o)
  /\ UNCHANGED orderVars

ClockCools == Cool /\ UNCHANGED orderVars

SubmitReturns(o) ==
  /\ engine[o] = "awaiting" /\ result[o] = "ok"
  /\ engine' = [engine EXCEPT ![o] = "submitted"]
  /\ UNCHANGED <<policyVars, exposure, guardVars, pendingOrders, pendingFees,
                 reconcilerVars, ledgerVars>>

(* Defect: only the gateway's reject releases the reservation.             *)
SubmitThrowsKeepsReservation(o) ==
  /\ engine[o] = "awaiting" /\ result[o] \in {"failed", "blocked"}
  /\ engine' = [engine EXCEPT ![o] = "failed"]
  /\ pendingFees' = pendingFees \ {o}
  /\ intents' = intents \ {o}
  /\ pendingOrders' = pendingOrders \ {o}
  /\ exposure' = exposure - Signed(o)
  /\ UNCHANGED <<policyVars, guardVars, acked, alertedAck, alertedFill, cancelAttempted,
                 cancelling, ledgerVars>>

(* The manager's and the engine's catch: the exposure is reverted whether  *)
(* or not a reject has reverted it already.                                *)
SubmitThrows(o) ==
  /\ engine[o] = "awaiting" /\ result[o] \in {"failed", "blocked"}
  /\ engine' = [engine EXCEPT ![o] = "failed"]
  /\ pendingFees' = pendingFees \ {o}
  /\ intents' = intents \ {o}
  /\ pendingOrders' = pendingOrders \ {o}
  /\ exposure' = exposure - Signed(o)
  /\ Release(o)
  /\ UNCHANGED <<policyVars, acked, alertedAck, alertedFill, cancelAttempted,
                 cancelling, ledgerVars>>

-----------------------------------------------------------------------------
(* intentReconciler.checkPending finds some tracked orders late, for their *)
(* ack or for their fill, and cancels each for the first time.  The paper  *)
(* adapter emits order.cancel inside the call; the REST gateway throws for *)
(* an order it has no symbol of and sends a DELETE for the others.         *)
Late(o) == IF o \in acked THEN o \notin alertedFill ELSE o \notin alertedAck

CheckPending(late) ==
  LET cancelled == late \ cancelAttempted
  IN  /\ \A o \in late : Late(o)
      /\ alertedAck' = alertedAck \cup (late \ acked)
      /\ alertedFill' = alertedFill \cup (late \cap acked)
      /\ cancelAttempted' = cancelAttempted \cup cancelled
      /\ \/ /\ Gateway = "paper"
            /\ pendingFees' = pendingFees \ cancelled
            /\ UNCHANGED cancelling
         \/ /\ Gateway = "binance"
            /\ cancelling' = cancelling \cup (cancelled \cap acked)
            /\ UNCHANGED pendingFees
      /\ UNCHANGED <<policyVars, engine, exposure, guardVars, pendingOrders, intents, acked,
                     ledgerVars>>

(* The DELETE is answered: order.cancel reaches the manager only.          *)
CancelReturns(o, ok) ==
  /\ o \in cancelling
  /\ cancelling' = cancelling \ {o}
  /\ pendingFees' = IF ok THEN pendingFees \ {o} ELSE pendingFees
  /\ UNCHANGED <<policyVars, engine, exposure, guardVars, pendingOrders, intents, acked,
                 alertedAck, alertedFill, cancelAttempted, ledgerVars>>

-----------------------------------------------------------------------------
GatewayStep(o) ==
  \/ PaperAck(o) \/ BinanceAccepts(o) \/ BinanceFails(o)
  \/ \E px \in FillPrices : PaperFill(o, px) \/ BinanceFills(o, px)

OrderSettles(o) == GatewayStep(o) \/ PolicyStep(o) \/ SubmitReturns(o) \/ SubmitThrows(o)

Next ==
  \/ \E o \in Orders : \/ Deny(o) \/ Approve(o) \/ OrderSettles(o)
                       \/ \E ok \in BOOLEAN : CancelReturns(o, ok)
  \/ \E late \in SUBSET intents : CheckPending(late)
  \/ ClockCools

Spec == Init /\ [][Next]_vars

(* Delays end, fetches answer or error and continuations run.              *)
FairSpec == Spec /\ \A o \in Orders : WF_vars(OrderSettles(o))

-----------------------------------------------------------------------------
(* Types; no reservation and no running total is ever negative.            *)
OrderTypeOK ==
  /\ PolicyTypeOK
  /\ engine \in [Orders -> {"none", "denied", "awaiting", "submitted", "failed"}]
  /\ exposure \in Int
  /\ pending \in [Orders -> 0..Notional] /\ pendingTotal \in Nat
  /\ pendingBaseAdds \in [Orders -> 0..1] /\ pendingBaseAddsTotal \in Nat
  /\ pendingOrders \subseteq Orders /\ pendingFees \subseteq Orders
  /\ intents \subseteq Orders /\ acked \subseteq Orders /\ alertedAck \subseteq Orders
  /\ alertedFill \subseteq Orders /\ cancelAttempted \subseteq Orders
  /\ cancelling \subseteq Orders
  /\ quote \in Int /\ base \in Int /\ filled \subseteq Orders

Sum(f) == FoldFunction(LAMBDA m, n : m + n, 0, f)

(* QuoteReserveGuard's running totals are the sums of its maps, through    *)
(* any interleaving of reserve, consume and release, early or repeated.    *)
ReservationTotals ==
  /\ pendingTotal = Sum(pending)
  /\ pendingBaseAddsTotal = Sum(pendingBaseAdds)

(* The orders whose submit has not failed.                                 *)
Committed == {o \in Orders : engine[o] \in {"awaiting", "submitted"}}

(* The exposure that check compares with maxPosition is what the filled    *)
(* and the open orders add up to, and it never exceeds the limit.          *)
ExposureExact ==
  /\ exposure = Net(Committed)
  /\ exposure \in -MaxPosition..MaxPosition

(* Once no submit is under way the exposure is that of the orders that     *)
(* reached the venue: a rejected order is reverted, and reverted once.     *)
RejectsDoNotDrift ==
  (\A o \in Orders : engine[o] # "awaiting") => exposure = Net(Committed)

(* Every quote promised to an open buy is in the ledger: no fill at its    *)
(* limit or better can overdraw the account.                               *)
QuoteBacked == quote >= pendingTotal

(* The base that getAvailable adds for open buys comes from orders that    *)
(* can still fill.                                                         *)
PendingBaseWillFill ==
  \A o \in Orders : pendingBaseAdds[o] > 0 => o \in Committed \ filled

(* The engine's pendingOrders and the reconciler's pending intents, which  *)
(* four handlers maintain separately, hold the same orders, and none that  *)
(* has filled: a stale-order cancel never hits a filled order.             *)
TrackingAgrees ==
  /\ intents = pendingOrders
  /\ intents \cap filled = {}

(* An order whose submit has failed holds no quote, awaits no fee, is not  *)
(* tracked for cancelling, and has not filled at an earlier attempt.       *)
FailedHoldsNothing ==
  \A o \in Orders : engine[o] = "failed" =>
    /\ pending[o] = 0
    /\ o \notin pendingFees \cup intents \cup filled

(* With the paper adapter every approved order fills, late cancels or not. *)
EveryPaperOrderFills == \A o \in Orders : engine[o] = "awaiting" ~> o \in filled
=============================================================================
