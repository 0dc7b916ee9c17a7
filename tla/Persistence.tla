---------------------------- MODULE Persistence ----------------------------
(***************************************************************************)
(* How a domain event reaches the event store: PersistenceManager          *)
(* (persistenceManager.ts) on the trading thread, the shared event queue,  *)
(* the worker thread (persistenceWorker.ts) and the transactional append   *)
(* of the two durable stores.  The queue is used through what              *)
(* SharedEventQueue is shown to implement, the actions of BoundedFifo.     *)
(*                                                                         *)
(* Events are numbered by the enqueue call that emits them.                *)
(***************************************************************************)
EXTENDS Integers, Sequences, FiniteSets, Functions

CONSTANTS
  Drivers,      \* the durable drivers considered, of "sqlite" and "postgres"
  Capacity,     \* slots of the queue (PERSIST_QUEUE_CAPACITY)
  MaxBatch,     \* the worker's dequeueBatch limit, 256 in the code
  MaxAttempts,  \* MAX_RETRIES of SqliteEventStore, 5 in the code
  MaxEvents     \* bound of the model: enqueue calls

ASSUME PersistenceAssumption ==
  /\ Drivers \subseteq {"sqlite", "postgres"}
  /\ Capacity \in Nat \ {0}
  /\ MaxBatch \in Nat \ {0}
  /\ MaxAttempts \in Nat \ {0}
  /\ MaxEvents \in Nat \ {0}

VARIABLES
  driver,     \* config.persistence.driver
  emitted,    \* enqueue calls so far
  queue,      \* the shared queue
  delivered,  \* what dequeueBatch has taken from it (history)
  inline,     \* per event: the attempt of its inline append, 0 if there is none
  worker,     \* the worker thread's place in its program
  batch,      \* the worker's batch
  attempt,    \* the attempt of the worker's append, 0 outside of append
  signalled,  \* shutdown has posted its message
  timer,      \* forceTerminateTimer is armed
  streamed,   \* events the trading thread's store has pushed on stream$
  stored,     \* rows of the events table in commit order
  lost,       \* events given up and not stored (history)
  reported    \* events whose enqueue threw or whose append rejected (history)

queueVars == <<queue, delivered>>
workerVars == <<worker, batch, attempt>>
shutdownVars == <<signalled, timer>>
outcomeVars == <<streamed, stored, lost, reported>>
vars == <<driver, emitted, queueVars, inline, workerVars, shutdownVars, outcomeVars>>

Event == 1..MaxEvents

Ring == INSTANCE BoundedFifo

Init ==
  /\ driver \in Drivers
  /\ emitted = 0
  /\ Ring!Init
  /\ inline = [e \in Event |-> 0]
  /\ worker = "booting"
  /\ batch = << >>
  /\ attempt = 0
  /\ signalled = FALSE
  /\ timer = FALSE
  /\ streamed = {}
  /\ stored = << >>
  /\ lost = {}
  /\ reported = {}

(* The first attempt of an inline append to SQLite runs inside the call of *)
(* enqueue: bun:sqlite is synchronous, the trading thread does nothing     *)
(* else before it has ended.                                               *)
MainIsFree == driver = "sqlite" => \A e \in Event : inline[e] # 1

-----------------------------------------------------------------------------
(* PersistenceManager.enqueue: an event larger than a slot makes           *)
(* queue.enqueue throw at the caller, and nothing is logged here; a full   *)
(* queue sends the event to store.append behind the queue's back;          *)
(* otherwise the event is queued and shown to the live readers at once.    *)
Enqueue(fits) ==
  /\ MainIsFree
  /\ emitted < MaxEvents
  /\ emitted' = emitted + 1
  /\ \/ /\ ~fits
        /\ lost' = lost \union {emitted'}
        /\ reported' = reported \union {emitted'}
        /\ UNCHANGED <<queueVars, inline, streamed>>
     \/ /\ fits /\ Len(queue) >= Capacity
        /\ inline' = [inline EXCEPT ![emitted'] = 1]
        /\ UNCHANGED <<queueVars, streamed, lost, reported>>
     \/ /\ fits /\ Ring!Put(emitted')
        /\ streamed' = streamed \union {emitted'}
        /\ UNCHANGED <<inline, lost, reported>>
  /\ UNCHANGED <<driver, workerVars, shutdownVars, stored>>

(* The inline append commits: stream$.next runs inside the transaction.    *)
InlineCommits(e) ==
  /\ inline[e] > 0
  /\ inline' = [inline EXCEPT ![e] = 0]
  /\ stored' = Append(stored, e)
  /\ streamed' = streamed \union {e}
  /\ UNCHANGED <<driver, emitted, queueVars, workerVars, shutdownVars, lost, reported>>

(* Defect: after the last attempt the retries start over.                  *)
InlineRetriesForEver(e) ==
  /\ driver = "sqlite"
  /\ inline[e] > 0
  /\ inline' = [inline EXCEPT ![e] = IF @ < MaxAttempts THEN @ + 1 ELSE 1]
  /\ UNCHANGED <<driver, emitted, queueVars, workerVars, shutdownVars, outcomeVars>>

(* Defect: one retry more than MAX_RETRIES allows.                         *)
InlineRetriesOneMore(e) ==
  /\ driver = "sqlite"
  /\ inline[e] \in 1..MaxAttempts
  /\ inline' = [inline EXCEPT ![e] = @ + 1]
  /\ UNCHANGED <<driver, emitted, queueVars, workerVars, shutdownVars, outcomeVars>>

(* SQLITE_BUSY: the store sleeps and tries again.                          *)
InlineRetries(e) ==
  /\ driver = "sqlite"
  /\ inline[e] \in 1..(MaxAttempts - 1)
  /\ inline' = [inline EXCEPT ![e] = @ + 1]
  /\ UNCHANGED <<driver, emitted, queueVars, workerVars, shutdownVars, outcomeVars>>

(* Defect: the retry loop falls through after its last attempt, so append  *)
(* resolves and the caller counts an inline write that was never made.     *)
InlineFailsSilently(e) ==
  /\ inline[e] > 0
  /\ inline' = [inline EXCEPT ![e] = 0]
  /\ UNCHANGED <<driver, emitted, queueVars, workerVars, shutdownVars, outcomeVars>>

(* The append is rejected, which is only logged; the event may have been   *)
(* shown already, stream$.next runs before the commit.  A rejected COMMIT  *)
(* of PostgreSQL may have taken effect all the same.                       *)
InlineFails(e) ==
  /\ inline[e] > 0
  /\ inline' = [inline EXCEPT ![e] = 0]
  /\ reported' = reported \union {e}
  /\ \/ /\ lost' = lost \union {e}
        /\ \E shown \in SUBSET {e} : streamed' = streamed \union shown
        /\ UNCHANGED stored
     \/ /\ driver = "postgres"
        /\ stored' = Append(stored, e)
        /\ streamed' = streamed \union {e}
        /\ UNCHANGED lost
  /\ UNCHANGED <<driver, emitted, queueVars, workerVars, shutdownVars>>

InlineStep(e) == InlineCommits(e) \/ InlineRetries(e) \/ InlineFails(e)

-----------------------------------------------------------------------------
(* main in persistenceWorker.ts: open the store, then loop for ever.       *)
Boot ==
  /\ worker = "booting"
  /\ worker' = "dequeuing"
  /\ UNCHANGED <<driver, emitted, queueVars, inline, batch, attempt, shutdownVars, outcomeVars>>

(* createEventStore rejects: the worker ends and nobody starts another.    *)
BootFails ==
  /\ worker = "booting"
  /\ worker' = "crashed"
  /\ UNCHANGED <<driver, emitted, queueVars, inline, batch, attempt, shutdownVars, outcomeVars>>

(* Defect: the batch is built newest first.                                *)
DequeueReversed ==
  /\ worker = "dequeuing"
  /\ Len(batch) < MaxBatch
  /\ Ring!Get
  /\ batch' = <<Head(queue)>> \o batch
  /\ UNCHANGED <<driver, emitted, inline, worker, attempt, shutdownVars, outcomeVars>>

(* Defect: dequeueBatch takes one event more than maxItems.                *)
DequeueOneMore ==
  /\ worker = "dequeuing"
  /\ Len(batch) <= MaxBatch
  /\ Ring!Get
  /\ batch' = Append(batch, Head(queue))
  /\ UNCHANGED <<driver, emitted, inline, worker, attempt, shutdownVars, outcomeVars>>

(* One turn of dequeueBatch's loop.                                        *)
Dequeue ==
  /\ worker = "dequeuing"
  /\ Len(batch) < MaxBatch
  /\ Ring!Get
  /\ batch' = Append(batch, Head(queue))
  /\ UNCHANGED <<driver, emitted, inline, worker, attempt, shutdownVars, outcomeVars>>

(* Defect: the worker waits until it has a full batch.                     *)
SubmitFullOnly ==
  /\ worker = "dequeuing"
  /\ Len(batch) = MaxBatch
  /\ worker' = "appending"
  /\ attempt' = 1
  /\ UNCHANGED <<driver, emitted, queueVars, inline, batch, shutdownVars, outcomeVars>>

(* dequeueBatch returns a batch that is full or has drained the queue, and *)
(* the worker appends it.                                                  *)
Submit ==
  /\ worker = "dequeuing"
  /\ batch # << >>
  /\ Len(batch) = MaxBatch \/ queue = << >>
  /\ worker' = "appending"
  /\ attempt' = 1
  /\ UNCHANGED <<driver, emitted, queueVars, inline, batch, shutdownVars, outcomeVars>>

BatchDone ==
  /\ worker = "appending"
  /\ worker' = "dequeuing"
  /\ batch' = << >>
  /\ attempt' = 0

BatchCommits ==
  /\ BatchDone
  /\ stored' = stored \o batch
  /\ UNCHANGED <<driver, emitted, queueVars, inline, shutdownVars, streamed, lost, reported>>

BatchRetries ==
  /\ driver = "sqlite"
  /\ worker = "appending"
  /\ attempt < MaxAttempts
  /\ attempt' = attempt + 1
  /\ UNCHANGED <<driver, emitted, queueVars, inline, worker, batch, shutdownVars, outcomeVars>>

(* append rejects: the transaction is rolled back, the error is logged and *)
(* the loop takes the next batch.  Again PostgreSQL may have committed.    *)
BatchFails ==
  /\ BatchDone
  /\ reported' = reported \union Range(batch)
  /\ \/ lost' = lost \union Range(batch) /\ UNCHANGED stored
     \/ driver = "postgres" /\ stored' = stored \o batch /\ UNCHANGED lost
  /\ UNCHANGED <<driver, emitted, queueVars, inline, shutdownVars, streamed>>

-----------------------------------------------------------------------------

(* Defect: shutdown trusts the message and arms no timer.                  *)
ShutdownWithoutTimer ==
  /\ MainIsFree
  /\ ~signalled
  /\ signalled' = TRUE
  /\ UNCHANGED <<driver, emitted, queueVars, inline, workerVars, timer, outcomeVars>>

(* PersistenceManager.shutdown, called once by startEngine's handleShutdown.*)
Shutdown ==
  /\ MainIsFree
  /\ ~signalled
  /\ signalled' = TRUE
  /\ timer' = TRUE
  /\ UNCHANGED <<driver, emitted, queueVars, inline, workerVars, outcomeVars>>

(* The worker's thread ends with its batch in hand, and the transaction in *)
(* progress, if there is one, is rolled back or committed by the database. *)
(* Nobody is told which events were in hand.                               *)
ThreadEnds ==
  /\ worker' = "exited"
  /\ batch' = << >>
  /\ attempt' = 0
  /\ timer' = FALSE
  /\ UNCHANGED <<driver, emitted, queueVars, inline, signalled, streamed, reported>>

EndsRolledBack ==
  /\ ThreadEnds
  /\ lost' = lost \union Range(batch)
  /\ UNCHANGED stored

EndsCommitted ==
  /\ worker = "appending"
  /\ ThreadEnds
  /\ stored' = stored \o batch
  /\ UNCHANGED lost

(* The worker's loop returns to its event loop only where an await really  *)
(* waits: for PostgreSQL, or for the pause before a SQLite retry.  There   *)
(* the message handler calls process.exit.                                 *)
ShutdownMessage ==
  /\ signalled
  /\ \/ driver = "postgres" /\ worker \in {"booting", "appending"}
     \/ driver = "sqlite" /\ worker = "appending" /\ attempt > 1
  /\ EndsRolledBack \/ (driver = "postgres" /\ EndsCommitted)

(* forceTerminateTimer fires: worker.terminate().                          *)
ForceTerminate ==
  /\ MainIsFree
  /\ timer
  /\ worker \in {"booting", "dequeuing", "appending"}
  /\ EndsRolledBack \/ EndsCommitted

WorkerStep == Boot \/ BootFails \/ Dequeue \/ Submit \/ BatchCommits \/ BatchRetries \/ BatchFails

Next ==
  \/ \E fits \in BOOLEAN : Enqueue(fits)
  \/ \E e \in Event : InlineStep(e)
  \/ WorkerStep
  \/ Shutdown \/ ShutdownMessage \/ ForceTerminate

Spec == Init /\ [][Next]_vars

(* The worker's thread runs, appends settle and timers fire; nothing is    *)
(* assumed of the callers of enqueue and shutdown, nor of the message.     *)
FairSpec ==
  /\ Spec
  /\ WF_vars(WorkerStep)
  /\ \A e \in Event : WF_vars(InlineStep(e))
  /\ WF_vars(ForceTerminate)

-----------------------------------------------------------------------------
(* Types of the queue, the two threads and the history variables.          *)
PersistTypeOK ==
  /\ driver \in {"sqlite", "postgres"}
  /\ emitted \in 0..MaxEvents
  /\ queue \in Seq(Event)
  /\ delivered \in Seq(Event)
  /\ inline \in [Event -> 0..MaxAttempts]
  /\ worker \in {"booting", "dequeuing", "appending", "exited", "crashed"}
  /\ batch \in Seq(Event)
  /\ attempt \in 0..MaxAttempts
  /\ signalled \in BOOLEAN
  /\ timer \in BOOLEAN
  /\ streamed \subseteq Event
  /\ stored \in Seq(Event)
  /\ lost \subseteq Event
  /\ reported \subseteq Event

(* An emitted event is in exactly one place at any time: queued, in the    *)
(* worker's batch, in an inline append, stored, or given up; and no row is *)
(* written twice, however the two writers interleave.                      *)
Holds(place, e) ==
  \/ place = "queue" /\ e \in Range(queue)
  \/ place = "batch" /\ e \in Range(batch)
  \/ place = "inline" /\ inline[e] > 0
  \/ place = "stored" /\ e \in Range(stored)
  \/ place = "lost" /\ e \in lost
Places == {"queue", "batch", "inline", "stored", "lost"}
OnePlaceEach ==
  /\ \A e \in 1..emitted : \E p \in Places : {q \in Places : Holds(q, e)} = {p}
  /\ IsInjective(stored)

(* While the worker lives an event is only given up with an error: the     *)
(* throw of enqueue, or the log of a rejected append.  The end of the      *)
(* worker silently drops at most the one batch it had in hand.  And for    *)
(* SQLite the errors are exact: what was reported is not in the store      *)
(* (a rejected COMMIT of PostgreSQL may have stored what it reports).      *)
OnlyTheLastBatchSilently ==
  /\ worker # "exited" => lost \subseteq reported
  /\ Cardinality(lost \ reported) <= MaxBatch
  /\ driver = "sqlite" => reported \subseteq lost

(* Between enqueue and the store no event is dropped, duplicated or held   *)
(* in two places, and none is given up silently but the worker's last      *)
(* batch.                                                                  *)
EachEventInOnePlace == OnePlaceEach /\ OnlyTheLastBatchSilently

(* Events that went through the queue are committed in the order of their  *)
(* enqueue calls, failed batches and worker exits notwithstanding.  (An    *)
(* inline append overtakes the queue, so the table as a whole is not.)     *)
QueuedStoredInOrder ==
  \A i, j \in DOMAIN stored :
    i < j /\ {stored[i], stored[j]} \subseteq Range(delivered) => stored[i] < stored[j]

(* What a crash can cost: apart from inline appends, at most a queue and a *)
(* batch of events are shown to the live readers and neither durable nor   *)
(* reported lost.                                                          *)
ExposureBounded ==
  Cardinality({e \in streamed \ lost : e \notin Range(stored) /\ inline[e] = 0})
    <= Capacity + MaxBatch

(* A queued event is stored or given up unless the worker is gone: no      *)
(* event waits in the queue, or in a batch that is not yet full, for ever. *)
QueuedEventSettles ==
  \A e \in Event :
    e \in Range(queue) ~> \/ e \in Range(stored) \union lost
                          \/ worker \in {"exited", "crashed"}

(* An inline append ends, however often SQLite is busy.                    *)
InlineAppendSettles == \A e \in Event : inline[e] > 0 ~> inline[e] = 0

(* After shutdown the worker's thread ends, although its loop may never    *)
(* let it read the message.                                                *)
ShutdownEndsWorker == signalled ~> worker \in {"exited", "crashed"}

(* README.md:23: "Every event is persisted." read for an orderly shutdown: *)
(* when a worker that had been storing events has exited, no append has    *)
(* failed, was cut short or is in progress, every event the live readers   *)
(* saw is in the store.                                                    *)
EveryEventIsPersisted ==
  worker = "exited" /\ delivered # << >> /\ lost = {} /\ (\A e \in Event : inline[e] = 0)
    => streamed \subseteq Range(stored)
=============================================================================
