----------------------------- MODULE Positions -----------------------------
(***************************************************************************)
(* One symbol's position and the exit engines that watch it, as            *)
(* startEngine.ts wires them: fills fold into the portfolio, each snapshot *)
(* reaches the exit engine of every strategy that trades the symbol, and   *)
(* the exits go back through the same pre-trade risk check as the entries. *)
(*                                                                         *)
(* A fill, the snapshot it makes and the evaluations that follow run in    *)
(* one synchronous cascade, which is one step here; a submit ends later.   *)
(*                                                                         *)
(* Quantities are whole lots.  What price, volatility, drawdown or a       *)
(* signal decide is a choice of the engine among the reasons it may give;  *)
(* what time decides is kept, since it outranks the other reasons.         *)
(***************************************************************************)
EXTENDS Integers, FiniteSets, Functions

CONSTANTS
  Gateway,        \* "paper" or "binance", as createExecutionManager selects
  Strategies,     \* the strategies with an enabled exit engine
  Overrides,      \* reasons of evaluateRisk, which come before the time exit
  PriceReasons,   \* reasons that come after it: fair value, TP, SL, trailing
  MaxPosition,    \* RISK_MAX_POSITION, in lots
  Prices,         \* what a lot may fill at
  TopPrice,       \* bound: no price is above it
  EntrySides,     \* BUY, SELL: the sides a strategy may enter on, by one lot
  EntryBound,     \* bound: strategies enter only while |qty| is at most this
  ExitBound,      \* bound: exits of one engine in flight at a time
  StrayBound      \* bound: lots at rest and lots given back, together

Time == "EXIT_TIME"
None == "none"
Entry == "entry"
Reasons == Overrides \cup PriceReasons \cup {Time}

ASSUME PositionsAssumption ==
  /\ Gateway \in {"paper", "binance"}
  /\ IsFiniteSet(Strategies) /\ IsFiniteSet(Overrides) /\ IsFiniteSet(PriceReasons)
  /\ Overrides \cap PriceReasons = {}
  /\ {Time, None, Entry} \cap (Overrides \cup PriceReasons) = {}
  /\ MaxPosition \in Nat \ {0} /\ EntryBound \in Nat /\ ExitBound \in Nat
  /\ StrayBound \in Nat
  /\ EntrySides \subseteq {"BUY", "SELL"}
  /\ TopPrice \in Nat /\ Prices \subseteq 1..TopPrice

VARIABLES
  qty, avg,      \* PortfolioState.positions[symbol]: qty and avgPx
  settled,       \* cash less realizedGross, both net of fees and adjustments
  exposure,      \* preTrade: exposures[symbol] of the main engine
  orders,        \* lots in flight, signed, by strategy and Entry or exit reason
  refused,       \* the orders in flight that are no longer in pendingOrders
  pendingExit,   \* per exit engine: the reason it last exited for
  aged,          \* the engines for which the position has been held maxHoldMs
  lost,          \* history: the engines whose pending exit ended without closing
  resting,       \* history: lots the venue accepted and said no more of
  returned       \* history: lots of the orders that rejects$ was told of

portfolioVars == <<qty, avg, settled>>
engineVars == <<pendingExit, aged, lost>>
strayVars == <<resting, returned>>
positionVars == <<portfolioVars, exposure, orders, refused, engineVars, strayVars>>

Kinds == Reasons \cup {Entry}
Slots == Strategies \X Kinds

PositionsInit ==
  /\ qty = 0 /\ avg = 0 /\ settled = 0
  /\ exposure = 0
  /\ orders = [p \in Slots |-> 0] /\ refused = {}
  /\ pendingExit = [s \in Strategies |-> None]
  /\ aged = {} /\ lost = {}
  /\ resting = 0 /\ returned = 0

-----------------------------------------------------------------------------
(* applyFill                                                               *)

Sign(n) == IF n > 0 THEN 1 ELSE IF n < 0 THEN -1 ELSE 0
Abs(n) == n * Sign(n)
Smaller(m, n) == IF m < n THEN m ELSE n

Increases(lots) == qty = 0 \/ Sign(qty) = Sign(lots)

(* Defect: a fill that takes the position through zero keeps its old       *)
(* average.                                                                *)
AverageKeptOnFlip(lots, px, a) ==
  IF Increases(lots) THEN a * (qty + lots) = avg * qty + px * lots
  ELSE a = IF qty + lots = 0 THEN 0 ELSE avg

(* Defect: a position that is closed keeps its average.                    *)
AverageKeptOnClose(lots, px, a) ==
  IF Increases(lots) THEN a * (qty + lots) = avg * qty + px * lots
  ELSE a = IF Sign(qty + lots) = -Sign(qty) THEN px ELSE avg

(* avgPx after a fill.  Prices are taken so that averages stay whole.      *)
Average(lots, px, a) ==
  IF Increases(lots) THEN a * (qty + lots) = avg * qty + px * lots
  ELSE a = IF qty + lots = 0 THEN 0
           ELSE IF Sign(qty + lots) # Sign(qty) THEN px
           ELSE avg

Realized(lots, px) ==
  IF Increases(lots) THEN 0
  ELSE Smaller(Abs(lots), Abs(qty)) * (px - avg) * Sign(qty)

applyFill(lots, px) ==
  /\ \E a \in 0..TopPrice : Average(lots, px, a) /\ avg' = a
  /\ qty' = qty + lots
  /\ settled' = settled - px * lots - Realized(lots, px)

-----------------------------------------------------------------------------
(* The exit engines and the risk check of their exits                      *)

(* Bound: at most ExitBound exits of an engine are in flight, each for a   *)
(* reason of its own.                                                      *)
MayExit(open, s, reason) ==
  /\ open[<<s, reason>>] = 0
  /\ Cardinality({r \in Reasons : open[<<s, r>>] # 0}) < ExitBound

(* What evaluate may decide: the first rule that applies, in its order.    *)
Decisions(s, old) ==
  Overrides \cup IF s \in old THEN {Time} ELSE PriceReasons \cup {None}

(* What it may then send: nothing, if the reason is the pending one, or if *)
(* the bound hides it.                                                     *)
Exits(s, pending, old, open) ==
  LET sent == {r \in Decisions(s, old) \ {None, pending} : MayExit(open, s, r)}
  IN  IF sent = Decisions(s, old) THEN sent ELSE sent \cup {None}

Limits == -MaxPosition..MaxPosition

(* Of n orders for the same lots, checked one after another, how many risk *)
(* lets through: up to the first that would pass a limit.                  *)
LetsThrough(n, lots, passed) ==
  /\ passed <= n
  /\ \A i \in 1..passed : exposure + i * lots \in Limits
  /\ passed < n => exposure + (passed + 1) * lots \notin Limits

(* The engines in `called' evaluate in turn a position of so many lots and *)
(* emitExit asks for all of it, unless the reason is the pending one; the  *)
(* reason is recorded whether or not risk lets the exit through.           *)
(* `pending', `old', `open' and `gone' are pendingExit, aged, orders and   *)
(* lost as the cascade has left them.                                      *)
Evaluate(called, position, pending, old, open, gone) ==
  LET may == [s \in called |-> Exits(s, pending[s], old, open)] IN
  \E decision \in {d \in [called -> Reasons \cup {None}] : \A s \in called : d[s] \in may[s]} :
    LET exiting == {s \in called : decision[s] # None}
    IN  \E passed \in SUBSET exiting :
          /\ LetsThrough(Cardinality(exiting), -position, Cardinality(passed))
          /\ pendingExit' = [s \in Strategies |->
                               IF s \in exiting THEN decision[s] ELSE pending[s]]
          /\ orders' = [p \in Slots |->
                          IF p[1] \in passed /\ p[2] = decision[p[1]]
                            THEN -position ELSE open[p]]
          /\ exposure' = exposure - Cardinality(passed) * position
          /\ lost' = gone \cup {s \in exiting \ passed : decision[s] \notin PriceReasons}

(* A price, a signal, analytics or the poll timer calls one engine.        *)
Watches(s) ==
  /\ qty # 0
  /\ UNCHANGED <<portfolioVars, aged, refused, strayVars>>
  /\ Evaluate({s}, qty, pendingExit, aged, orders, lost)

(* The clock reaches entryTime + maxHoldMs of an engine.                   *)
HoldLimit(s) ==
  /\ qty # 0 /\ s \notin aged
  /\ aged' = aged \cup {s}
  /\ UNCHANGED <<portfolioVars, exposure, orders, refused, pendingExit, lost, strayVars>>

-----------------------------------------------------------------------------
(* Entries, and what becomes of the orders in flight                       *)

(* A strategy's intent passes its own budget and the main risk check; an   *)
(* intent that either refuses leaves this state as it is.                  *)
Enter(s, lots) ==
  /\ orders[<<s, Entry>>] = 0 /\ Abs(qty) <= EntryBound
  /\ exposure + lots \in Limits
  /\ orders' = [orders EXCEPT ![<<s, Entry>>] = lots]
  /\ exposure' = exposure + lots
  /\ UNCHANGED <<portfolioVars, engineVars, refused, strayVars>>

(* The pending exit of s has ended.  A price reason does not keep the time *)
(* exit from following it; the others keep evaluate at themselves.         *)
LostBy(s, kind) == IF pendingExit[s] = kind /\ kind \notin PriceReasons THEN {s} ELSE {}

(* Defect: a position that has closed leaves pendingExit behind.           *)
FillKeepsPending(s, kind, px) ==
  LET lots == orders[<<s, kind>>]
      open == [orders EXCEPT ![<<s, kind>>] = 0]
      fresh == Sign(qty + lots) # Sign(qty)
      old == IF fresh THEN {} ELSE aged
  IN  /\ lots # 0
      /\ applyFill(lots, px)
      /\ refused' = refused \ {<<s, kind>>}
      /\ aged' = old
      /\ UNCHANGED strayVars
      /\ Evaluate(IF qty + lots = 0 THEN {} ELSE Strategies, qty + lots, pendingExit, old, open,
                  IF fresh THEN {} ELSE lost \cup LostBy(s, kind))

(* A fill moves the portfolio.  In every engine deriveCurrentPosition then *)
(* starts afresh when the position has opened, closed or turned, and       *)
(* evaluates the one that is left.                                         *)
Fill(s, kind, px) ==
  LET lots == orders[<<s, kind>>]
      open == [orders EXCEPT ![<<s, kind>>] = 0]
      fresh == Sign(qty + lots) # Sign(qty)
      pending == IF fresh THEN [t \in Strategies |-> None] ELSE pendingExit
      old == IF fresh THEN {} ELSE aged
  IN  /\ lots # 0
      /\ applyFill(lots, px)
      /\ refused' = refused \ {<<s, kind>>}
      /\ aged' = old
      /\ UNCHANGED strayVars
      /\ Evaluate(IF qty + lots = 0 THEN {} ELSE Strategies, qty + lots, pending, old, open,
                  IF fresh THEN {} ELSE lost \cup LostBy(s, kind))

(* Defect: the rejects$ handler does not look the order up first.          *)
AttemptFailsUnchecked(s, kind) ==
  LET order == <<s, kind>>
      first == IF order \in refused THEN 0 ELSE orders[order]
  IN  /\ Gateway = "binance" /\ orders[order] # 0
      /\ Abs(resting) + Abs(returned + first) <= StrayBound
      /\ refused' = refused \cup {order}
      /\ exposure' = exposure - orders[order]
      /\ returned' = returned + first
      /\ UNCHANGED <<portfolioVars, orders, engineVars, resting>>

(* An attempt of submit fails.  The gateway emits order.reject and throws; *)
(* rejects$ takes an order that is still in pendingOrders out of it and    *)
(* has risk revert it, and the policy may try again.                       *)
AttemptFails(s, kind) ==
  LET order == <<s, kind>>
      first == IF order \in refused THEN 0 ELSE orders[order]
  IN  /\ Gateway = "binance" /\ orders[order] # 0
      /\ Abs(resting) + Abs(returned + first) <= StrayBound
      /\ refused' = refused \cup {order}
      /\ exposure' = exposure - first
      /\ returned' = returned + first
      /\ UNCHANGED <<portfolioVars, orders, engineVars, resting>>

(* The order has left the venue's hands or never got there.  No exit       *)
(* engine hears of it.                                                     *)
Ends(s, kind) ==
  /\ orders[<<s, kind>>] # 0
  /\ orders' = [orders EXCEPT ![<<s, kind>>] = 0]
  /\ refused' = refused \ {<<s, kind>>}
  /\ lost' = lost \cup LostBy(s, kind)
  /\ UNCHANGED <<portfolioVars, pendingExit, aged>>

(* The catch of execution.submit, for a last attempt that failed or a      *)
(* circuit that is open: risk reverts the order, whether or not rejects$   *)
(* has had it reverted before.                                             *)
SubmitFails(s, kind) ==
  /\ Gateway = "binance" /\ Ends(s, kind)
  /\ exposure' = exposure - orders[<<s, kind>>]
  /\ UNCHANGED strayVars

(* The venue accepts the order without filling it at once, or its answer   *)
(* cannot be read: submit returns, and no event will ever tell of a fill.  *)
Rests(s, kind) ==
  /\ Gateway = "binance" /\ Ends(s, kind)
  /\ Abs(resting + orders[<<s, kind>>]) + Abs(returned) <= StrayBound
  /\ resting' = resting + orders[<<s, kind>>]
  /\ UNCHANGED <<exposure, returned>>

Settles(s, kind) ==
  SubmitFails(s, kind) \/ Rests(s, kind) \/ \E px \in Prices : Fill(s, kind, px)

PositionsNext ==
  \E s \in Strategies :
    \/ \E side \in EntrySides : Enter(s, IF side = "BUY" THEN 1 ELSE -1)
    \/ Watches(s) \/ HoldLimit(s)
    \/ \E kind \in Kinds : AttemptFails(s, kind) \/ Settles(s, kind)

PositionsSpec == PositionsInit /\ [][PositionsNext]_positionVars

(* The poll timer finds the hold limit passed.                             *)
TimeExit(s) ==
  s \in aged /\ pendingExit[s] # Time /\ Watches(s) /\ pendingExit'[s] = Time

(* The submit of an exit ends: in a fill, a failure or an order that rests,*)
(* and none of the three is promised.  The timer polls an aged position.   *)
(* Nothing makes a strategy enter, a price move or an override apply.      *)
FairPositionsSpec ==
  /\ PositionsSpec
  /\ \A s \in Strategies :
       /\ WF_positionVars(TimeExit(s))
       /\ \A kind \in Reasons : WF_positionVars(Settles(s, kind))

-----------------------------------------------------------------------------
(* Types; only a flat position has no average price.                       *)
PositionsTypeOK ==
  /\ qty \in Int /\ avg \in Nat /\ settled \in Int /\ exposure \in Int
  /\ qty # 0 <=> avg # 0
  /\ orders \in [Slots -> Int]
  /\ refused \subseteq {p \in Slots : orders[p] # 0}
  /\ pendingExit \in [Strategies -> Reasons \cup {None}]
  /\ aged \subseteq Strategies /\ lost \subseteq Strategies
  /\ resting \in Int /\ returned \in Int
  /\ qty = 0 => aged = {} /\ lost = {} /\ \A s \in Strategies : pendingExit[s] = None

(* Cash and realised profit, which applyFill updates apart, differ by what *)
(* the open position cost: nav and pnl never drift from one another,       *)
(* through partial closes, closes and turns.                               *)
NavIdentity == settled + avg * qty = 0

(* The exposure that risk checks orders against is the position, the orders*)
(* in flight and those at rest, entries and exits, less every order that   *)
(* an attempt failed for: once, however many failed, and for good, whether *)
(* a later attempt filled it or the catch of submit reverted it as well.   *)
(* So the paper engine, where no attempt fails, counts the position and    *)
(* the orders in flight.                                                   *)
ExposureMissesOnlyTheRefused ==
  exposure = qty + FoldFunction(LAMBDA m, n : m + n, 0, orders) + resting - returned

(* A position held for maxHoldMs is closed or turned, unless the exit it   *)
(* asked for was refused, failed, rests, or was too small when it filled.  *)
HeldTooLongIsClosed ==
  \A s \in Strategies : s \in aged ~> s \notin aged \/ s \in lost

(* "Maximum absolute position size (in base units) allowed by risk."       *)
PositionWithinLimit == Abs(qty) <= MaxPosition
=============================================================================
