---------------------------- MODULE AccountLedger ----------------------------
(***************************************************************************)
(* The account ledger: balance events, the account state that replays them *)
(* (portfolio/src/accountState.ts, balancesProjection), and those who emit *)
(* them or read them back: fill accounting, the balance sync, demo         *)
(* seeding, the rx account commands of the CLI (a process of its own), the *)
(* snapshot scripts and the rebalancer.                                    *)
(*                                                                         *)
(* An event emitted by the engine is applied to its account state at once  *)
(* and waits in the persistence queue, in order, until the worker commits  *)
(* it; a crash loses what is queued (Persistence models the way between).  *)
(* Prices are 1 and there are no fees: a fill moves d of base against d of *)
(* quote.                                                                  *)
(***************************************************************************)
EXTENDS RebalancePlan

CONSTANTS
  Home,       \* the trading venue
  Base, Quote,\* the assets of the traded symbol
  Others,     \* accounts at other venues, known from CLI commands only
  Seed,       \* accounting.seedDemoBalance
  MockQuote,  \* the mock provider's initialQuote, which is not that of Seed
  TargetLists,\* values of rebalancer.targets
  None,
  MaxEvents,  \* bound of the model: events
  MaxCommands,\* bound of the model: CLI commands
  MaxTime     \* bound of the model: milliseconds

HomeBase == <<Home, Base>>
HomeQuote == <<Home, Quote>>
HomeAccounts == {HomeBase, HomeQuote}
Accounts == HomeAccounts \cup Others

ASSUME LedgerAssumption ==
  /\ Seed \in Nat /\ MockQuote \in Nat /\ MaxEvents \in Nat /\ MaxCommands \in Nat /\ MaxTime \in Nat
  /\ Base # Quote /\ HomeAccounts \cap Others = {} /\ None \notin Int

(* What the configuration's author is trusted with, since nothing checks   *)
(* it: an account is given one target, and no amount is negative.          *)
ASSUME TargetsAssumption ==
  \A targets \in TargetLists : Proper(targets)

VARIABLES
  live,     \* orders and balances are those of a real venue
  mutates,  \* accounting.balanceSyncMutatesLedger
  engine,   \* "down", "starting", "up", "dying" or "failed"
  queue,    \* events emitted and not stored
  stored,   \* rows of the event store in commit order
  ledger,   \* total of each account in balancesState
  totalsCache,
  sync,     \* the provider's answer a sync is about to reconcile, or None
  venue,    \* the real balances at the trading venue
  unbooked, \* base bought (or sold) by a fill the engine has yet to see
  cli,      \* events a CLI command is about to append
  commands, \* CLI commands so far
  cliRows,  \* history: the rows CLI commands have appended
  reading,  \* rows a snapshot script has read, None when none runs
  file,     \* the snapshot: its ts and how many rows it stands for
  now

engineVars == <<engine, queue, ledger, totalsCache, sync>>
venueVars == <<venue, unbooked>>
cliVars == <<cli, commands, cliRows>>
scriptVars == <<reading, file>>
vars == <<live, mutates, engineVars, stored, venueVars, cliVars, scriptVars, now>>

Zero == [a \in Accounts |-> 0]

Adjusted(a, d, t) == [account |-> a, delta |-> d, newTotal |-> None, ts |-> t]

-----------------------------------------------------------------------------
(* balancesProjection.reduce: an event that claims a total must add up.    *)
Mismatch(totals, e) ==
  e.newTotal # None /\ e.newTotal # totals[e.account] + e.delta

Reduce(totals, e) == [totals EXCEPT ![e.account] = @ + e.delta]

(* Events applied in turn to the totals.  Replay stops at the first that   *)
(* throws; the live account state skips what throws and goes on.           *)
ApplyOne(stops, r, e) ==
  IF (stops /\ ~r.ok) \/ Mismatch(r.totals, e) THEN [ok |-> FALSE, totals |-> r.totals]
  ELSE [ok |-> r.ok, totals |-> Reduce(r.totals, e)]

Apply(stops, totals, events) ==
  FoldLeft(LAMBDA r, e : ApplyOne(stops, r, e), [ok |-> TRUE, totals |-> totals], events)

ReplayFrom(totals, events) == Apply(TRUE, totals, events)

(* store.read(after): ORDER BY ts, rows of one ts in the order of commit.  *)
(* The k-th row that is read is the one with k - 1 young rows before it.   *)
Before(rows, i, j) == rows[i].ts < rows[j].ts \/ (rows[i].ts = rows[j].ts /\ i < j)

Young(rows, after) == {i \in DOMAIN rows : rows[i].ts > after}

Place(rows, young, i) == Cardinality({j \in young : Before(rows, j, i)}) + 1

Read(rows, after) ==
  LET young == Young(rows, after)
  IN [k \in 1..Cardinality(young) |->
        rows[CHOOSE i \in young : Place(rows, young, i) = k]]

Replay(rows) == ReplayFrom(Zero, Read(rows, -1))

(* An event that throws changes nothing, and since rxjs reports an         *)
(* observer's error from a timer, the process dies there.                  *)
Applied(events) == Apply(FALSE, ledger, events)

(* eventBus.emit of the events of one callback: queued for the worker and  *)
(* pushed on stream$.                                                      *)
Emit(events, next) ==
  /\ Len(queue) + Len(stored) + Len(events) <= MaxEvents
  /\ queue' = queue \o events
  /\ ledger' = Applied(events).totals
  /\ engine' = IF Applied(events).ok THEN next ELSE "dying"

-----------------------------------------------------------------------------
Init ==
  /\ live \in BOOLEAN /\ mutates \in BOOLEAN
  /\ engine = "down"
  /\ queue = << >> /\ stored = << >>
  /\ ledger = Zero
  /\ totalsCache = [a \in HomeAccounts |-> None]
  /\ sync = None
  /\ venue = [a \in HomeAccounts |-> IF a = HomeQuote THEN Seed ELSE 0]
  /\ unbooked = 0
  /\ cli = << >> /\ commands = 0 /\ cliRows = {}
  /\ reading = None /\ file = None
  /\ now = 0

(* createAccountState and seedDemoBalanceIfNeeded.  A replay that throws   *)
(* rejects buildRuntime, and does so again whenever the engine is started. *)
Boot ==
  LET replay == Replay(stored)
      deposit == Adjusted(HomeQuote, Seed, now)
  IN
  /\ engine = "down"
  /\ \/ /\ ~replay.ok
        /\ engine' = "failed"
        /\ UNCHANGED <<ledger, stored>>
     \/ /\ replay.ok /\ (live \/ Seed = 0 \/ replay.totals[HomeQuote] > 0)
        /\ engine' = "starting"
        /\ ledger' = replay.totals
        /\ UNCHANGED stored
     \/ /\ replay.ok /\ ~live /\ Seed > 0 /\ replay.totals[HomeQuote] <= 0
        /\ Len(stored) < MaxEvents
        /\ engine' = "starting"
        /\ ledger' = Reduce(replay.totals, deposit)
        /\ stored' = Append(stored, deposit)
  /\ UNCHANGED <<live, mutates, queue, totalsCache, sync, venueVars, cliVars,
                 scriptVars, now>>

(* Defect: a committed event stays in the queue.                           *)
PersistTwice ==
  /\ queue # << >>
  /\ stored' = Append(stored, Head(queue))
  /\ UNCHANGED <<live, mutates, engine, queue, ledger, totalsCache, sync, venueVars,
                 cliVars, scriptVars, now>>

(* The worker commits the oldest event.                                    *)
Persist ==
  /\ queue # << >>
  /\ stored' = Append(stored, Head(queue))
  /\ queue' = Tail(queue)
  /\ UNCHANGED <<live, mutates, engine, ledger, totalsCache, sync, venueVars,
                 cliVars, scriptVars, now>>

(* The engine's process ends, killed or by an error nobody catches.        *)
Crash ==
  /\ engine \in {"starting", "up", "dying"}
  /\ engine' = "down"
  /\ queue' = << >> /\ ledger' = Zero
  /\ totalsCache' = [a \in HomeAccounts |-> None]
  /\ sync' = None
  /\ unbooked' = 0
  /\ UNCHANGED <<live, mutates, stored, venue, cliVars, scriptVars, now>>

-----------------------------------------------------------------------------
(* A live order fills at the venue.                                        *)
VenueFills ==
  /\ live /\ engine = "up" /\ unbooked = 0
  /\ \E d \in {-1, 1} :
       /\ venue[IF d = 1 THEN HomeQuote ELSE HomeBase] > 0
       /\ venue' = [venue EXCEPT ![HomeBase] = @ + d, ![HomeQuote] = @ - d]
       /\ unbooked' = d
  /\ UNCHANGED <<live, mutates, engineVars, stored, cliVars, scriptVars, now>>

(* wireFillAccounting, on a fill of the venue or of the paper adapter.     *)
BookFill ==
  \E d \in {-1, 1} :
    /\ engine = "up"
    /\ IF live THEN unbooked = d
       ELSE ledger[IF d = 1 THEN HomeQuote ELSE HomeBase] > 0
    /\ unbooked' = 0
    /\ Emit(<<Adjusted(HomeBase, d, now), Adjusted(HomeQuote, -d, now)>>, "up")
    /\ UNCHANGED <<live, mutates, stored, totalsCache, sync, venue, cliVars,
                   scriptVars, now>>

-----------------------------------------------------------------------------
(* What provider.sync() answers.  Binance's leaves out empty balances; the *)
(* mock provider's never change.                                           *)
Answer ==
  IF live THEN [a \in {b \in HomeAccounts : venue[b] # 0} |-> venue[a]]
  ELSE [a \in HomeAccounts |-> IF a = HomeQuote THEN MockQuote ELSE 0]

(* await provider.sync(): the answer is taken some time before it is used. *)
Fetch ==
  /\ engine \in {"starting", "up"} /\ sync = None
  /\ sync' = Answer
  /\ UNCHANGED <<live, mutates, engine, queue, ledger, totalsCache, stored,
                 venueVars, cliVars, scriptVars, now>>

(* A failing sync is logged; start() goes on without one.                  *)
SyncFails ==
  /\ live /\ engine = "starting" /\ sync = None
  /\ engine' = "up"
  /\ UNCHANGED <<live, mutates, queue, ledger, totalsCache, sync, stored,
                 venueVars, cliVars, scriptVars, now>>

currentTotal(a) == IF totalsCache[a] # None THEN totalsCache[a] ELSE ledger[a]

(* The accounts of an answer that differ, in the order of the answer.      *)
Drifted == {a \in DOMAIN sync : sync[a] # currentTotal(a)}

SyncEvents ==
  LET repair(a) ==
        IF a \notin Drifted THEN << >>
        ELSE <<[account |-> a, delta |-> sync[a] - currentTotal(a),
                newTotal |-> sync[a], ts |-> now]>>
  IN repair(HomeBase) \o repair(HomeQuote)

(* Defect: a drift of one unit is taken for rounding.                      *)
ReconcileTolerant ==
  LET repairs == SelectSeq(SyncEvents, LAMBDA e : e.delta \notin {-1, 1})
  IN
  /\ engine \in {"starting", "up"} /\ sync # None
  /\ sync' = None
  /\ \/ /\ mutates
        /\ Emit(repairs, "up")
        /\ totalsCache' = [a \in HomeAccounts |->
                             IF a \in Drifted THEN sync[a] ELSE totalsCache[a]]
     \/ /\ ~mutates
        /\ engine' = "up"
        /\ UNCHANGED <<queue, ledger, totalsCache>>
  /\ UNCHANGED <<live, mutates, stored, venueVars, cliVars, scriptVars, now>>

(* Defect: what is cached is the total before the repair.                  *)
ReconcileCachesOld ==
  /\ engine \in {"starting", "up"} /\ sync # None
  /\ sync' = None
  /\ \/ /\ mutates
        /\ Emit(SyncEvents, "up")
        /\ totalsCache' = [a \in HomeAccounts |->
                             IF a \in Drifted THEN currentTotal(a) ELSE totalsCache[a]]
     \/ /\ ~mutates
        /\ engine' = "up"
        /\ UNCHANGED <<queue, ledger, totalsCache>>
  /\ UNCHANGED <<live, mutates, stored, venueVars, cliVars, scriptVars, now>>

(* reconcileSnapshot for every balance of the answer, in one step: each    *)
(* runs to its end before the next one starts.  account.balance.snapshot   *)
(* is not among the events startEngine persists and no view reads it.      *)
Reconcile ==
  /\ engine \in {"starting", "up"} /\ sync # None
  /\ sync' = None
  /\ \/ /\ mutates
        /\ Emit(SyncEvents, "up")
        /\ totalsCache' = [a \in HomeAccounts |->
                             IF a \in Drifted THEN sync[a] ELSE totalsCache[a]]
     \/ /\ ~mutates
        /\ engine' = "up"
        /\ UNCHANGED <<queue, ledger, totalsCache>>
  /\ UNCHANGED <<live, mutates, stored, venueVars, cliVars, scriptVars, now>>

-----------------------------------------------------------------------------
(* rx account seed and rx account transfer take their time when they       *)
(* start, and append their events one after the other.                     *)
CliStart ==
  /\ cli = << >> /\ commands < MaxCommands /\ now = 0
  /\ commands' = commands + 1
  /\ \/ \E a \in Accounts \ {HomeBase} : cli' = <<Adjusted(a, 1, now)>>
     \/ \E a, b \in Accounts :
          /\ Asset(a) = Asset(b) /\ Venue(a) # Venue(b)
          /\ cli' = <<Adjusted(a, -1, now), Adjusted(b, 1, now)>>
  /\ UNCHANGED <<live, mutates, engineVars, stored, venueVars, cliRows, scriptVars, now>>

(* The store's stream$ is the CLI process's own: no engine hears of it.    *)
CliAppend ==
  /\ cli # << >>
  /\ Len(queue) + Len(stored) < MaxEvents
  /\ stored' = Append(stored, Head(cli))
  /\ cli' = Tail(cli)
  /\ cliRows' = cliRows \cup {Len(stored) + 1}
  /\ UNCHANGED <<live, mutates, engineVars, venueVars, commands, scriptVars, now>>

(* savePositionsSnapshot, of which the model makes one, reads all rows ... *)
SnapshotReads ==
  /\ reading = None /\ commands < MaxCommands
  /\ commands' = commands + 1
  /\ reading' = Len(stored)
  /\ UNCHANGED <<live, mutates, engineVars, stored, venueVars, cli, cliRows, file, now>>

(* Defect: the snapshot is stamped with the time the script started at,    *)
(* which Tick lets be 0 only, and the rows are read after that.            *)
SnapshotStampsStart ==
  /\ reading # None
  /\ file' = [ts |-> 0, rows |-> Len(stored)]
  /\ reading' = None
  /\ UNCHANGED <<live, mutates, engineVars, stored, venueVars, cliVars, now>>

(* ... and once they are there reduces them and takes the time.  rows are  *)
(* what stands behind file.balances: committed rows never change.          *)
SnapshotWrites ==
  /\ reading # None
  /\ file' = [ts |-> now, rows |-> reading]
  /\ reading' = None
  /\ UNCHANGED <<live, mutates, engineVars, stored, venueVars, cliVars, now>>

(* Only recovery from a snapshot reads the time, so to keep the model      *)
(* small none passes before a snapshot script has started.                 *)
Tick ==
  /\ now < MaxTime /\ now' = now + 1
  /\ reading # None \/ file # None
  /\ UNCHANGED <<live, mutates, engineVars, stored, venueVars, cliVars, scriptVars>>

(* loadPositionsSnapshot and replayPositionsFromSnapshot.                  *)
Recovered ==
  ReplayFrom(Replay(SubSeq(stored, 1, file.rows)).totals, Read(stored, file.ts))

(* RebalanceService.evaluate: the store is read, not the account state, and*)
(* the projection's locked is always 0.  The transfers it requests are not *)
(* among the events startEngine persists, so nobody executes them.         *)
evaluate(targets) ==
  LET totals == Replay(stored).totals
  IN planRebalance([a \in Accounts |-> [available |-> totals[a], locked |-> 0]], targets)

Next ==
  \/ Boot \/ Persist \/ Crash \/ VenueFills \/ BookFill
  \/ Fetch \/ SyncFails \/ Reconcile
  \/ CliStart \/ CliAppend \/ SnapshotReads \/ SnapshotWrites \/ Tick

Spec == Init /\ [][Next]_vars

-----------------------------------------------------------------------------
Event == [account : Accounts, delta : Int, newTotal : Int \cup {None}, ts : 0..MaxTime]

(* Every variable keeps to the values the code gives it, and the events    *)
(* keep to the model's bound.                                              *)
LedgerTypeOK ==
  /\ engine \in {"down", "starting", "up", "dying", "failed"}
  /\ \A k \in DOMAIN queue : queue[k] \in Event
  /\ \A k \in DOMAIN stored : stored[k] \in Event
  /\ Len(queue) + Len(stored) <= MaxEvents
  /\ ledger \in [Accounts -> Int]
  /\ totalsCache \in [HomeAccounts -> Int \cup {None}]
  /\ (sync = None \/ DOMAIN sync \subseteq HomeAccounts)
  /\ venue \in [HomeAccounts -> Nat]
  /\ unbooked \in {-1, 0, 1}
  /\ \A k \in DOMAIN cli : cli[k] \in Event
  /\ commands \in 0..MaxCommands
  /\ (reading = None \/ reading \in 0..Len(stored))
  /\ (file = None \/ (file.rows \in 0..Len(stored) /\ file.ts \in 0..now))

(* Row k is a repair of an account that had been repaired before and that  *)
(* a fill has moved since: its delta comes from the cache of the earlier   *)
(* repair, its total from the venue.                                       *)
Stale(rows, k) ==
  /\ rows[k].newTotal # None
  /\ \E i, j \in 1..(k - 1) :
       /\ i < j /\ j \notin cliRows
       /\ rows[i].account = rows[k].account /\ rows[i].newTotal # None
       /\ rows[j].account = rows[k].account /\ rows[j].newTotal = None

(* Row k is a repair of an account that a CLI command wrote to, behind the *)
(* back of the engine that computed the repair.                            *)
Unheard(rows, k) ==
  /\ rows[k].newTotal # None
  /\ \E i \in cliRows : rows[i].account = rows[k].account

(* A repair in the ledger adds up unless its account was repaired before   *)
(* and has moved since.  So the account state of a running engine throws   *)
(* for no other reason, whatever crashes lost and CLI commands wrote; and  *)
(* the store can be replayed, and the engine started, unless it holds such *)
(* a repair or one of an account that a CLI command wrote to.              *)
LedgerReplays ==
  /\ engine = "dying" =>
       \E k \in 1..(Len(stored) + Len(queue)) : Stale(stored \o queue, k)
  /\ engine = "failed" \/ ~Replay(stored).ok =>
       \E k \in 1..Len(stored) : Stale(stored, k) \/ Unheard(stored, k)

(* Whatever a crash lost, the first sync after it, when it writes to the   *)
(* ledger and does not fail, leaves every balance it was told of right.    *)
FirstSyncRepairs ==
  [][engine = "starting" /\ engine' = "up" /\ sync # None /\ mutates =>
       \A a \in DOMAIN sync : ledger'[a] = sync[a]]_vars

(* An event that was committed after a snapshot read the store, but is not *)
(* younger than the snapshot.                                              *)
Late == \E k \in DOMAIN stored : k > file.rows /\ stored[k].ts <= file.ts

(* Recovery from a snapshot is replay of the whole store, unless an event  *)
(* came late: for events that did not, nothing is lost or counted twice.   *)
RecoveryExactUnlessLate ==
  file # None /\ ~Late /\ Replay(stored).ok => Recovered = Replay(stored)

(* Whatever the ledger has come to, the rebalancer's plan is sound for     *)
(* every configuration of targets.  Only the store is read, so states with *)
(* events, an answer or a snapshot on their way need not be looked at.     *)
PlansAreSound ==
  engine = "up" /\ queue = << >> /\ sync = None /\ reading = None =>
    \A targets \in TargetLists : \A plan \in {evaluate(targets)} : PlanIsSound(plan, targets)
=============================================================================
