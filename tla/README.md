# rx-trader: specifications and proofs

TLA+ models of rx-trader's order path, execution policy, positions and exits,
event queue, event persistence, account ledger and market-data feeds, their TLC
runs, and theorems about them checked by TLAPS. Paths
below are relative to `src/packages/` unless they start with `src/`.

## 1. The system

rx-trader is one Node/Bun process. Market ticks, signals, orders, fills and
balance changes travel through RxJS streams on a single event loop: an observer
runs inside the call that emits, so a gateway event and everything subscribed
to it is one uninterrupted step. Interleaving happens at `await` (adapter
calls, sleeps, fetches, provider calls) and at timers. One thread more, the
persistence worker, shares two `SharedArrayBuffer`s with the trading thread and
writes to the event store.

| Part | State it keeps | Operations | What makes it correct |
|---|---|---|---|
| shared event queue `event-store/src/sharedEventQueue.ts` | four Int32 control words, slot buffer | `enqueue`, `dequeueBatch`, `shutdown` | FIFO, exact occupancy, no slot read while written, no lost wake-up, the consumer survives |
| persistence `persistenceManager.ts`, `persistenceWorker.ts` | queue, worker thread, force-terminate timer | `enqueue` (queue or inline write), worker loop, `shutdown` | no event dropped silently or stored twice, stored in order, bounded loss, shutdown ends |
| event stores `sqliteEventStore.ts`, `postgresEventStore.ts` | the events table, `stream$` | `append` (transaction, retry), `read` | atomic batches, retries that end |
| execution policy `pipeline/src/executionPolicy.ts` | circuit state, failure and success counts, `nextAttemptTs` | `submit` with retries | a sequential breaker in spite of overlapping calls; calls settle; recovery |
| execution adapters `execution/src/index.ts` | `orderSymbols` | `submit`, `cancel`, ack/fill/reject/cancel events | one outcome per order |
| execution manager `pipeline/src/executionManager.ts` | `pendingFees` | `submit`, event fan-out | fee attached once, cleared on failure |
| pre-trade risk `risk/src/preTrade.ts` | `exposures`, throttle log | `check`, `revert` | exposure equals the committed orders, within `maxPosition` |
| quote reserve guard `risk/src/quoteReserveGuard.ts` | `pending`, `pendingBaseAdds` and their totals | `reserve`, `consume`, `release`, `reserveBase`, `releaseBase` | totals are sums; reservations are backed and end |
| order engine `control-plane/src/startEngine.ts` | `pendingOrders` | handlers of `approved$`, `fills$`, `rejects$`, the fill ledger | every failure path undoes what approval did, once |
| intent reconciler `pipeline/src/intentReconciler.ts` | `pending` intents and flags | `track`, ack/fill/reject, `checkPending` | agrees with the engine; cancels only open orders |
| accounting, account state `portfolio/src/accounting.ts`, `accountState.ts` | balances | apply fill, sync and transfer deltas | ledger follows fills |
| snapshot, projections `snapshotManager.ts`, `projections.ts` | snapshot file | save, replay | snapshot + replay = full replay |
| balance sync `portfolio/src/balances/` | `totalsCache`, `running` | `syncOnce` | the ledger follows the venue and stays replayable |
| rebalancer `portfolio/src/rebalancer/` | the last plan | `planRebalance`; requests nobody executes | plans neither overdraw nor serve the wrong deficit |
| account commands `src/scripts/cli.ts` | none: a process of its own | `account seed`, `account transfer` append to the store | a running engine and a later replay agree |
| portfolio `portfolio/src/portfolio/index.ts` | position, average price, cash, realised profit | fold of fills, marks, adjustments | nav and pnl tell the same story |
| exit engine `pipeline/src/exitEngine.ts` | position, `entryTime`, trailing extremes, `pendingExit` | evaluate, emit exit | a position that should close is closed |
| feeds `feeds/src/websocketFeed.ts`, `pipeline/src/feedManager.ts`, `feedHealth.ts` | socket, timer, attempts, reported status | connect, disconnect, reconnect | at most one live socket, the truth about it, recovery |
| others | | | see "Not modelled" |

How they interact on the order path:

    strategies --intent--> preTrade.check --approved$--> startEngine handler
        |  reads QuoteReserveGuard and account state        | pendingOrders, reserve, track
        |                                                   v
        |                              executionManager.submit -> policy.submit -> adapter.submit
        |                                                                              |
        '<-- reconcile$ (revert) <-- rejects$ / catch of submit <--- ack, fill, reject, cancel
                                       fills$ -> accounting -> eventBus -> persistence.enqueue
                                              -> store.stream$ -> account state, fill ledger -> consume

The hard behaviours are: overlapping submits that share the breaker; a REST
attempt that both emits a reject and throws into a policy that retries it; five
handlers that maintain the same reservation; two threads on one ring; two
writers on one table; shutdown of a worker that never reads its messages; exits
of several engines in flight with entries; balance syncs, fills, CLI commands and
snapshot scripts on one ledger, with crashes between; sockets whose last events
come after their successors were opened.
`PROJECT.json` lists each hazard at its line.

## 2. Modules

| Module | Models |
|---|---|
| `BoundedFifo` | abstract: a bounded FIFO queue |
| `SharedEventQueue` | `sharedEventQueue.ts`, one action per Atomics operation or slot access |
| `CircuitBreaker` | abstract: a sequential circuit breaker |
| `ExecutionPolicy` | `executionPolicy.ts`, one action per stretch of `submit` between awaits |
| `OrderFlow` | EXTENDS `ExecutionPolicy`: risk, reservations, manager, adapters, reconciler, ledger, as `startEngine.ts` and `runtimeBuilder.ts` wire them |
| `Persistence` | INSTANCEs `BoundedFifo`: manager, worker, the stores' `append`, shutdown |
| `Positions` | one symbol: portfolio fold, exit engines, risk exposure, entries and exits in flight |
| `AccountLedger` | EXTENDS `RebalancePlan`: account state, demo seeding, fill accounting, balance sync, account commands, snapshot scripts, rebalancer |
| `RebalancePlan` | `plan.ts`, operators only |
| `WebSocketFeed` | `websocketFeed.ts` under its feed manager and health tracker |
| `MC*` | the small instances TLC checks |
| `SumProofs` | lemmas on sums over finite sets and on induction over numbers, used by three of the modules below |
| `SharedEventQueueProofs`, `ExecutionPolicyProofs`, `OrderFlowProofs`, `PersistenceProofs`, `WebSocketFeedProofs`, `PositionsProofs`, `AccountLedgerProofs` | the theorems about the module each is named after; `AccountLedgerProofs` those about `RebalancePlan` too |

`SharedEventQueue` is shown to implement `BoundedFifo`, and `Persistence` uses
the queue through `BoundedFifo`'s actions only; `ExecutionPolicy` is shown to
implement `CircuitBreaker`, and `OrderFlow` takes the policy's actions as they
are and adds the rest of the handlers to them. `AccountLedger` runs the planner on
every state of its ledger. So the detailed modules are composed with what has
been shown of their parts. `Positions` looks at the risk check of `OrderFlow`
from the other side: `OrderFlow` follows single orders through every handler with
few exits, `Positions` keeps of an order only its lots and what becomes of them,
and follows the position they make.

An operator whose comment begins with "Defect:" is not part of a specification.
It is a plausible bug in the definition that follows it, and `PROJECT.json`
(`mutants`) says which property fails when it takes that definition's place.

**SharedEventQueue.** `head`, `tail`, `size`, `shutdownFlag` are the control
words; `pcP`/`pcC` say which operation a thread executes next, `tailRead`,
`headRead`, `batchLen` are its locals. Filling and copying a slot are plain
memory accesses, hence steps that must not overlap. `alive` is the worker's thread:
`Shutdown` is the handler that signals the queue and exits the process, `Terminate`
ends the loop at any step, and neither drains. `Int32` and `Rem` are the
array element's wrap-around and JavaScript's signed remainder. `accepted` and
`received` are history. An event is the number of its `enqueue` call.

**ExecutionPolicy.** `circuit`, `consecutiveFailures`, `halfOpenSuccesses` are
the closure's variables; `cooldown` is 1 while `clock.now() < nextAttemptTs`;
`phase` says at which await a call is suspended. `consecutiveFailures`
saturates at `MaxFailures`, at or above the threshold, where no test of the
code can tell the difference. The settling of the adapter's promise
(`AdapterReturns`) and the continuation (`OnSuccess`, `OnError`) are separate,
because other continuations may run between them.

**OrderFlow.** `Approve` is the risk check together with the synchronous part of
the `approved$` handler, through `submit` to the first await. `OnAck`, `OnFill`,
`OnReject` are what all subscribers of a gateway event do, in one step; the
adapter actions (`PaperAck`, `PaperFill`, `BinanceAccepts`, `BinanceFills`,
`BinanceFails`) emit them. `SubmitReturns` and `SubmitThrows` are the two
continuations of `await execution.submit`. `CheckPending` is the reconciler's
poll, `CancelReturns` the answer to its DELETE. `acked` doubles as the REST
gateway's `orderSymbols`: both are set by the same call.

**Persistence.** `driver` is one of the `Drivers` and selects the store. `Enqueue` has the code's three
outcomes: oversize (throws), full (inline append), queued and shown to the live
readers. `inline[e]` is the attempt of the trading thread's own append;
`MainIsFree` says the first attempt of a synchronous SQLite append blocks that
thread. `worker`, `batch`, `attempt` are the worker's loop. `ShutdownMessage`
is only enabled where the worker's event loop can run. `streamed` is
what live readers were shown, `lost` what will never be stored. `reported` are the events
an error was seen of: the throw of an oversize `enqueue`, the log of a failed batch, the
rejection of an inline append. A batch rolled back with its thread
(`EndsRolledBack`) is lost and not reported; what a PostgreSQL COMMIT stored before its
answer was an error (`BatchFails`) is reported and not lost.

**Positions.** `qty`, `avg` are the symbol's `PortfolioState`; `settled` is cash
less realised profit, the one sum of both that the properties need, so that money
does not make the state infinite. `orders` holds the lots in flight of each
strategy, by kind: its entry, or the reason of its exit. A fill, the snapshot it
makes and the evaluations that follow are one cascade and one step (`Fill`);
`Watches` is any other caller of `evaluate`. With the REST gateway an attempt may fail
before the submit ends (`AttemptFails`: the reject handler takes the order out of
`pendingOrders` and reverts it, once, and `refused` remembers that), the submit
may fail for good (`SubmitFails`: the catch reverts it, again if need be), or the venue
accepts without filling, or answers unreadably, and no fill is ever heard of (`Rests`).
The paper engine only fills. `Evaluate` is `evaluate`, `emitExit`
and the risk check of the exits; in which order the engines are called is left
open. The overrides come first, then the time exit, then the price reasons, whose
conditions are left to choice. `lost`, `resting` and `returned` are
history: the engines whose pending exit was refused by risk, failed, rests or filled
without closing; the lots at rest; and the lots that the reject handler gave back.

**AccountLedger.** `ledger` is `balancesState`, `stored` the event store in commit
order, `queue` what the engine has emitted and the worker not committed. An event
is its account, `delta`, `newTotal` (of sync events only) and `ts`. `Mismatch` is
the throw of `balancesProjection`: live it ends the process (`engine = "dying"`,
since rxjs reports an observer's error from a timer), at start it rejects
`buildRuntime` (`"failed"`). `sync` is the provider's answer between its `await`
and its use. `Apply` is the fold both the live account state and a replay make of
events; `Read` is `ORDER BY ts` with commit order among equals: the k-th row read is
the one with k - 1 rows before it. `live` and `mutates` are the two settings that matter; without a live venue the mock
provider answers `MockQuote`, whatever the demo seed was. `cliRows` is history, the
rows that CLI commands wrote. The snapshot
`file` is its `ts` and the rows it stands for. `evaluate` plans on the store's
replay, as `RebalanceService` does: `Turns` are the turns of its two nested loops over
the sorted deficits and surpluses, `Course` what they have come to after each.

**WebSocketFeed.** `socket`, `isConnecting`, `reconnectTimer`, `reconnectAttempts`,
`shouldReconnect` are the object's fields, `status` the tracker's. `readyState`
is that of every socket object, whether or not `this.socket` still refers to it:
`OnClose(s)` runs `scheduleReconnect` for whichever socket emits it. `network`
says whether the venue can be reached.

## 3. Runs

| Run | Instance | Distinct states | Result |
|---|---|---|---|
| `shared_event_queue` | Capacity 2, batches of 2, counters wrap at 4, 6 calls, fair | 30,474 | passes |
| `execution_policy` | 3 calls, 2 attempts, threshold 2, 2 half-open successes, fair | 24,851 | passes |
| `paper_flow` | 2 buys, 2 sells, position limit 1, fill prices 3 and 5 at limit 4, fair | 56,255 | passes |
| `binance_flow` | 2 buys, 1 exit, 2 attempts, threshold 1 | 25,431 | passes |
| `persistence` | Capacity 2, batches of 2, 2 attempts, 5 events, both drivers, fair | 58,625 | passes |
| `account_ledger` | 1 demo or live venue, seed 2, mock answer 1, 4 events, 1 command or snapshot, 2 times, 2 lists of 3 targets | 1,109,707 | passes |
| `feed` | 3 sockets, no limit or a limit of 2 attempts, fair | 462 | passes |
| `positions` | REST gateway, 2 strategies that buy, one override and the time exit, limit 1, fill prices 1 and 3, 1 exit per engine, 1 stray lot, fair | 162,539 | passes |
| `reject_drift` | as `binance_flow` | | violation, finding |
| `phantom_base` | as `binance_flow` | | violation, finding |
| `shutdown_loss` | as `persistence`, SQLite only | | violation, finding |
| `position_limit` | paper engine, 2 strategies on both sides, a price reason, limit 1 | | violation, finding |

*Why the bounds are enough.* Both 32-bit counters reach their limit: 6 calls exceed
the capacity and the (scaled-down) counter limit, so the run contains full and empty rings,
both counters past the wrap, oversize events and batches cut by `maxItems`.
Three calls let one trip the circuit, one probe it and a third come back from
before the trip; two attempts give one retry. Four paper orders on both sides
are one more than the quote and the position limit admit at a time, so refusals,
netting and re-admission all occur; fill prices on both sides of the limit
price give buys that use less than their reservation and sells that earn more;
`binance_flow` fills at the limit price itself, where a reservation is used up.
Five events are one more than the queue and a batch hold together, so an inline append happens while the
worker's append is under way; two attempts give one BUSY retry on either side.
`MaxEvents` = 4 holds a demo deposit or a first sync, a fill's two events and one
more, so a crash can lose any part of them and a sync can follow a fill;
`MaxCommands` = 1 is one CLI command or one snapshot per behaviour (`CliStart`,
`SnapshotReads`), never both: what a CLI command does to a snapshot's recovery is not
looked at. `MaxTime` = 1 gives events before, at and after a
snapshot's time; the demo seed and the mock provider's answer differ, as they may in the
code; the target lists have two deficits on one surplus, a broken
`min` against a higher priority, and two surpluses for one deficit. Three sockets are the one in use and two still
closing, which is what it takes for a late close to close a socket whose own late
close then closes the next. Two strategies are enough for two exits of one
position, for turning it over, and for an entry against an exit in flight;
with `EntryBound` 0 they enter only while there is no position, so a position grows by
entries that were in flight together; `ExitBound` is the number of exits of one engine
in flight, `EntrySides` is what strategies may enter on (shorts arise from double
exits), `StrayBound` bounds what rests and what was given back after failed attempts,
which would otherwise let the exposure and with it the position drift without end, and
`TopPrice` bounds the averages. One stray lot is enough for an order that
is given back and then fills, fails or fails again, and for an exit that rests.

*Deadlock* is checked in the policy, paper, binance and feed runs: an idle call may
always submit, the reconciler's poll may always find nothing late, the
feed's network may always turn. In `persistence` it is not (`CHECK_DEADLOCK FALSE`):
the worker exits, callers may stop, and the system really is at rest; the same holds of
the queue once its consumer's thread has ended. Nor is it
in `account_ledger`: an engine that cannot replay its store stays down, and the
events and commands of the model run out. In `positions` the system may rest because
the orders do: a lot that the venue accepted and says no more of keeps its exposure, and
at the limit risk refuses every further entry.

*Fairness.* The worker's thread, while it lives, is scheduled and calls `dequeueBatch`
again and again (`WF(ConsumerNext)`, whose steps need `alive`; nothing is assumed of it
after a shutdown, nor that there is one). A policy's call moves on: fetches
answer or error (undici's time-outs), timers fire, continuations run. The clock
advances (`WF(Cool)`). In `OrderFlow` the same per order; nothing makes risk
approve, the poll find an order late or a DELETE answer. In `Persistence` the
worker and the inline appends move and the terminate timer fires; neither
callers nor the delivery of the shutdown message are assumed. A feed's reconnect
timer fires, and a socket that is opening opens or fails and one that is closing
closes (`FeedFairness`; the ws library forces a close after 30 s); in a good network the close
handshake, a round trip, is over before a timer of at least two seconds fires
(`Punctual`). Without that a late close could cut off every new connection. In
`Positions` the submit of an exit ends somehow, in a fill, a failure or an order that
rests, with none of the three promised, and the poll timer finds an aged position
(`FairPositionsSpec`); nothing makes a price move, an override apply, a strategy enter or an
entry's submit end.
`RecoversOnceHealthy` states its own assumptions, that calls keep arriving and
that from some time on the venue does not fail.

### What the passing runs show

* Queue: `NoSlotRace`, `Fifo`, `NoLostWakeup`, `ConsumerNeverThrows`,
  and refinement of `BoundedFifo`. Every accepted event is received, unless the worker's
  thread ends (`EveryAcceptedIsReceived`): a queue that has signalled its shutdown is not
  drained. After the wrap, at the first slot number that is negative, the
  producer throws for ever (the tail is not advanced); the consumer never does.
* Policy: the breaker is sequential (`ImplementsBreaker`) although late answers
  from before a trip are counted after it; an open circuit sheds load but does
  not stop retry loops already under way, which is why `OpenShedsLoad` is a
  property of the set of calls and not of attempts.
* Paper flow: `ExposureExact`, `QuoteBacked`, and every approved order fills,
  cancelled as stale or not (the paper adapter's cancel does not stop its fill).
* Binance flow: what survives retries, rejects and breaker:
  `ReservationTotals`, `TrackingAgrees` and the clean-up of failed orders. `FailedHoldsNothing`
  includes that no order whose submit failed had filled at an earlier attempt.
* Persistence: an event is in one place at any time, and without an error none is given
  up but the batch the worker had in hand when its thread ended (`EachEventInOnePlace`);
  `QueuedStoredInOrder`, `ExposureBounded`
  (a crash loses at most a queue and a batch that readers have seen), inline
  appends end, queued events settle, shutdown ends the worker.
* Account ledger: with `balanceSyncMutatesLedger` on, the first sync after a
  crash repairs every balance it was told of (`FirstSyncRepairs`), but the cached
  total then goes stale with the first fill and a second sync emits an event
  whose `newTotal` does not add up: the process dies, and every later start fails
  on that event. Nothing in the repository's documents promises otherwise, so it
  is a hazard and not a finding. `LedgerReplays` says, for either setting, that this is
  the only way: a running account state throws only on a repair of an account that was
  repaired before and has moved since, whatever crashes lost; and a store that
  cannot be replayed holds such a repair, or one of an account that a CLI
  command wrote to behind the engine's back. Recovery from a snapshot is exact unless an event
  was committed after the snapshot's read and is not younger than it
  (`RecoveryExactUnlessLate`); `queue` makes that likely, since events keep the
  time of their emission. `PlansAreSound` states what a rebalance plan is worth
  without saying how it is found.
* Feed: whatever the order of late events, the live socket is `this.socket`
  (`OneLiveSocket`); the status an operator sees is that of it, and a feed that
  is down has a reconnect due or has given up (`StatusTruthful`). Late closes do
  close good connections, but once the network stays good the feed ends up
  connected for good, unless its attempts ran out (`StaysConnected`).
* Positions: cash and realised profit, which `applyFill` moves by different rules,
  agree through every extension, reduction, close and turn (`NavIdentity`); risk's
  exposure is the position and the orders in flight and at rest, less every order that
  an attempt failed for, once and for good, though a retry may have filled it
  (`ExposureMissesOnlyTheRefused`);
  a position held for `maxHoldMs` is closed or turned, unless the exit an engine
  asked for was refused, failed, rests at the venue or was too small
  (`HeldTooLongIsClosed`): in
  those cases `pendingExit` suppresses the next one with the same reason.

### Findings

* `reject_drift`: a REST attempt that fails for good emits a reject, which
  reverts the exposure, and throws, which reverts it again
  (`startEngine.ts:325` and `:494`). After it the engine believes the position
  smaller than it is. `risk/src/reproduce_drift.ts` names the drift that one
  revert per reject was meant to exclude.
* `phantom_base`: `release` frees the quote of a failed buy, nothing frees its
  base (`releaseBase` is called on BUY fills only), so later sells are accepted
  against base that "will fill" according to the guard's comment.
* `shutdown_loss`: README "Every event is persisted". The SQLite worker's loop
  never yields to its event loop, so the shutdown message is not read and the timer
  ends the thread with `terminate()`, with an event still queued that the live readers
  have seen and no error logged for it.
* `position_limit`: the configuration's reference says `RISK_MAX_POSITION` is the
  "Maximum absolute position size (in base units) allowed by risk". The check
  bounds the exposure, which takes an order in flight for filled: with exits of
  both engines in flight an entry is accepted that fills before them. It is the paper
  engine's trace. The strategies' own budgets are not in the model: the second entry is
  the other strategy's, or of one whose budget is above the base limit.

## 4. Proofs

All theorems hold for every value of the constants under the modules' named
assumptions (`QueueAssumption`, `PolicyAssumption`, `OrderAssumption`,
`PersistenceAssumption`, `FeedAssumption`, `PositionsAssumption`,
`LedgerAssumption`, `TargetsAssumption`). Every invariant and every action property
that the passing runs check is stated by one of them, and so are the two
refinements; where a theorem has a condition (`PaperReservationsAreBacked`,
`OnlyStaleRepairsThrow`), its paragraph names it.

* **SharedEventQueueProofs.** `TypeInv` adds to `TypeOK` what each local holds at
  each step; it suffices for `TypeCorrect` and, with `asleep => size = 0 or
  notify`, for `WakeupsAreNotLost`. None of the theorems bounds the number of calls:
  they hold across the wrap of the counters. `RingInv` says that `tail` and `head` are the
  `Wrapped` counts of `accepted` and `received` up to the
  operation in progress, that `size` is their difference, and that the slots
  from `head` on hold the undelivered events. What carries it past the wrap is `Reach`:
  the producer throws at the first position whose remainder is negative
  (`ThrowsAfterWrap`), so no position beyond it is ever claimed, except that a capacity
  that divides the width lets one event through, whose slot is 0 on either side of the
  wrap, and that a capacity of 1 has no other slot. The consumer follows the
  producer's positions, so it never meets a negative slot. It gives `FifoOrder`,
  `OccupancyExact`, `SlotsAreExclusive` (two positions less than `Capacity`
  apart have different remainders), `ConsumerSurvives` and the refinement
  `RingIsFifo`, where `AddSize` is `Put` and `SubSize` is `Get`.
* **ExecutionPolicyProofs.** `PolicyInv` adds to the types and `CooldownHeld`
  that a call that sleeps before a retry has an attempt left, and that a closed
  circuit has counted fewer failures than the threshold. It yields
  the types, `CooldownIsHeld`, `OpenCircuitShedsLoad` and `PolicyIsABreaker`.
* **SumProofs.** What the community modules' fold over a function returns when it
  adds up: the fold picks its elements one by one, so even its recursive equation is
  proved, by taking a smallest set that would refute it (`SmallestSubset`). From it
  follow that a sum may be taken from any element on and how a change of one value,
  or of many from zero to the same value, changes it. `EveryNumber` is induction
  with a set of numbers in the place of a predicate, which is the form the prover
  can use.
* **OrderFlowProofs.** Every step of the flow is a step of the policy or leaves
  it alone (`FlowImplementsPolicy`), so the flow's breaker is the abstract one too
  (`FlowIsABreaker`). `OrderInv` adds `Lifecycle`, which ties an
  order's `engine` state to its `phase`, `result`, reservations and history:
  without it nothing says that a fill comes at most once, or that a failed
  submit was not filled. It yields `OrderTypeCorrect`, `TrackersAgree` and
  `FailedOrdersHoldNothing`, for either gateway. `ReservationTotalsAreSums`: the
  guard's two running totals are the sums of their maps after any interleaving,
  and the clamping at zero never hides a difference. With `Gateway = "paper"` nothing fails, so the circuit
  stays closed and no submit throws (`PaperOrders`); exposure is then exact
  (`PaperExposureIsExact`). `Covered` says the running total covers a whole
  reservation for each open buy; with fees below the fill prices and exits that
  sell it gives `PaperReservationsAreBacked`. For the REST gateway exposure is not
  exact (the finding `reject_drift`), and `ExposureMissesTheRefused` says by how much:
  it is the exposure of the filled and the open orders, less that of every order with
  a failed attempt, which `Refused` reads off the attempts. So an order whose retry
  fills is not counted again, one that fails for good is taken out once too often, and
  without failed attempts nothing drifts. `DriftInv` adds that an order under way is
  among the engine's pending orders until it is refused or filled: a second reject
  finds it gone and reverts nothing.
* **PersistenceProofs.** `PlacesInv` says the queue, the batch, the inline
  appends, the store and the lost events partition `1..emitted`, that the queue
  and the batch are increasing and the table has no repetition, and that what
  the worker has taken was emitted, holds the batch and precedes the queue.
  `OrderInv` adds that everything taken is in the batch, stored or lost, and
  that the stored part of it precedes the batch; with that,
  `QueuedStoredInOrder` (queued events are stored in the order of their calls)
  is preserved by every commit. `BoundInv` adds that queue and batch keep within
  their sizes and that nothing is streamed before it is emitted: an event that
  readers have seen and that is neither stored nor given up is then in one of the
  two, and `CrashCostIsBounded` counts them. `ReportInv` adds that nothing is given up
  without an error while the worker lives, and that its end gives up the batch in hand,
  which is no larger than `MaxBatch`; with `PlacesInv` that is `EventsAreInOnePlace`.
* **WebSocketFeedProofs.** `FeedInv` is `FeedTypeOK`, `StatusTruthful`, `SocketInv`
  (the live socket is the current one, `isConnecting` is its state, and a timer is
  set only when there is none) and `StageInv` (before `connect` and after `stop`
  there is neither). An event of a replaced socket keeps it because
  `scheduleReconnect` lets the current socket go before anything else. It yields
  `FeedTypeCorrect`, `FeedHasOneLiveSocket` and `FeedStatusIsTruthful`, for any
  number of sockets and any limits.
* **PositionsProofs.** Only a fill moves the portfolio, and `FillKeepsValue` says
  of the four cases of `applyFill` that the position's value changes by what the
  fill paid and realised. `PositionsInv`, the types and `NavIdentity`, is then
  inductive for any strategies, reasons, prices and limits; it yields
  `PositionsTypeCorrect` and `NavAndPnlAgree`. `ExposureIsExact`: risk's exposure is
  the position, the sum of the orders in flight, over finitely many strategies
  and reasons, and what rests, less what the reject handler gave back; a fill moves lots
  from one to the other, an evaluation adds the
  lots of each exit that the risk check lets through to both sides at once, and the catch of a
  submit takes the order off both, so that the drift is exactly the reject
  handler's reverts. `PaperExposureIsExact` is the paper engine's case, where nothing
  fails or rests. `OrderFlow`'s `ExposureMissesTheRefused` says the same of single orders
  through every handler. The whole-lot prices of `Average`
  are the model's: where an average is not whole the step does not exist, and the
  identity is about the steps that do.

* **AccountLedgerProofs.** First the operators. `Apply` is a fold over a sequence:
  its outcome after k events is one step from that after k - 1 (`ApplyIsAfter`), so
  replaying a sequence is replaying its end from where its beginning came to
  (`ReplayJoins`). Elements of an ordered finite set are numbered by how many come
  before them (`OrderNumbers`); hence `Read` returns each young row once, and a store
  whose first m rows are no younger than t and the others younger is read as the
  first and then the others (`ReadSplits`). `LedgerInv` is the types, with rows no younger
  than `now`; `Starts`, what a crash leaves empty; and `Snapshot`, that the file stands
  for rows no younger than itself. It yields `LedgerTypeCorrect`;
  `RecoveryIsExact`, by `ReadSplits` and `ReplayJoins`; and `FirstSyncIsRight`,
  because nothing is cached before a first sync, so its deltas are from the ledger
  itself. The repair of the quote must not undo that of the base, which is where
  `Base # Quote` is used. `OnlyStaleRepairsThrow` is `LedgerReplays` as long as no CLI
  command has written, for either setting. `Books` is what it takes: the rows, stored and then
  queued, are in the order of their times, so that they are read as they were emitted; a
  running engine's account state is what a replay of all of them would give
  (`Matches`), which makes a repair's `newTotal` add up where its delta was taken from the
  state itself; where it was taken from the cache, the account has been
  repaired and is where the cache says, unless it has moved since (`CacheKnown`); so
  a prefix of the rows that does not replay holds a stale repair (`Explained`). For
  the planner, `PlanInv` says of the state after k turns
  that what has moved and what is left add up to every gap (`AddsUp`), that each of
  the k turns has used up one of its two sides (`Taken`), and that a deficit that is
  still open has seen no lower rank served from a surplus it could draw on
  (`InRank`): by the order of the turns, its own turn at that surplus came first.
  `PlansAreAlwaysSound` is then for any number of targets, under
  `TargetsAssumption`: an account is given one target, and no amount is negative.
  The code does not check this of `REBALANCER_TARGETS`; a list that names an account
  twice can have the same surplus planned away twice.

Only model-checked, since TLAPS proves no liveness: `EveryAcceptedIsReceived`,
`EverySubmitSettles`, `RecoversOnceHealthy`, `EveryPaperOrderFills`,
`QueuedEventSettles`, `InlineAppendSettles`, `ShutdownEndsWorker`, `StaysConnected`
and `HeldTooLongIsClosed`. Of `LedgerReplays`, what concerns behaviours in which a
CLI command has written is model-checked only: its rows reach the store without the
running engine's knowledge, and its account state is then no replay of the store.

## 5. Abstractions, and what is not modelled

*Order path.* One symbol, one lot per order, limit orders, cash mode. The
notional, price band and throttle checks depend on the order and the clock only:
`Deny` may refuse any order. A fill reaches the ledger in the same step, as it does
while the persistence queue has room; when it is full the ledger learns of the
fill at the inline append, which `OrderFlow` leaves out. Market orders' slippage,
which may exceed a reservation, is outside `QuoteBacked`. `withRetry` inside one
REST attempt is I/O with a single outcome. The venue's own order book is not in
the repository: a retry that duplicates an order there is listed as a hazard. The
Hyperliquid gateway and the mocks are never selected by `createExecutionManager`.
The memory driver is left out: its worker thread has a store of its own.

*Ledger.* Prices are 1 and there are no fees: a fill moves d of base against d of
quote. Amounts are whole. A live venue's balances move only by the engine's own
fills. Time passes only once a snapshot script has started, hence in behaviours
without a CLI command, since only snapshot recovery reads it. The positions and PnL projections fold their events as the
balances projection does; the margin projection has no events.

*Positions.* Fees and cash adjustments, which add the same amount to both sides of
`NavIdentity`, are left out, and so are marks. Fills are whole orders. An order that
rests at the venue never fills in the model: the engine would not hear of it if it did.
Of the retry policy and the breaker only the outcomes are kept: any number of attempts
may fail, then the submit ends.

*Not modelled, and why.* The per-strategy risk engines of the scheduler: their
exposure drifts from the main one's, and nothing in the repository says what it
should be (a hazard). The intent builder and the strategies: arithmetic on
real-valued prices with two small maps. The market exposure guard: one number
that only grows, in margin mode. The rebalance executor: it waits for transfer
requests that `startEngine.ts:103` does not persist, so it never runs. Telemetry,
metrics, audit lines, HTTP and SSE views, configuration parsing, schemas, reference
data, the backtest (single-threaded replay on a virtual clock), the dashboard and
the commands of the CLI that start, configure or print keep no protocol state; they
make up most of the repository.

## 6. Plan

1. Done: all modules of section 2, with proofs of every safety property their
   passing runs check.
2. Proofs left: bounds on the drift of exposure and reservations for the REST
   gateway (one revert too many for each attempt that fails for good), and their
   exactness when none does; the invariants on which the
   liveness arguments rest.
3. Modelling left: the throttle window and the per-strategy risk engines, once it
   is decided what a strategy's budget counts; the intent builder's cooldown and
   dedupe maps; the executor, should transfer requests be persisted.
