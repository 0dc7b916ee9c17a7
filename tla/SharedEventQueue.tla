-------------------------- MODULE SharedEventQueue --------------------------
(***************************************************************************)
(* src/packages/event-store/src/sharedEventQueue.ts: the single-producer,  *)
(* single-consumer ring over two SharedArrayBuffers that carries events    *)
(* from the trading thread to the persistence worker.  Every Atomics       *)
(* operation is a step; filling and copying a slot are plain memory        *)
(* accesses, so they are steps of their own that must never overlap.       *)
(*                                                                         *)
(* An event is the number of the enqueue call that offered it.  The four   *)
(* Int32 control words are head, tail, size and shutdownFlag.              *)
(***************************************************************************)
EXTENDS Integers, Sequences

CONSTANTS
  Capacity,      \* slots of the ring (4096 in persistenceManager.ts)
  MaxBatch,      \* maxItems of dequeueBatch (256 in persistenceWorker.ts)
  CounterLimit,  \* 2^31 in the code: head and tail live in an Int32Array
  MaxEvents      \* bound of the model: number of enqueue calls

ASSUME QueueAssumption ==
  /\ Capacity \in Nat \ {0}
  /\ MaxBatch \in Nat \ {0}
  /\ CounterLimit \in Nat \ {0}
  /\ MaxEvents \in Nat

VARIABLES
  head, tail, size, shutdownFlag,   \* the control words
  slots,                            \* the data buffer, one event per slot
  pcP, tailRead, offered, result,   \* producer: next step, local tail, call, outcome
  pcC, headRead, batchLen,          \* consumer: next step, local head, events.length
  alive,                            \* the worker's thread has not ended
  accepted, received                \* history: events published, events decoded

producerVars == <<pcP, tailRead, offered, result>>
consumerVars == <<pcC, headRead, batchLen, alive>>
control == <<head, tail, size, shutdownFlag>>
vars == <<control, slots, producerVars, consumerVars, accepted, received>>

Slot == 0..(Capacity - 1)
Event == 1..MaxEvents

(* What an Int32Array element holds after a store of n, for n within one   *)
(* step of its range.                                                      *)
Int32(n) == IF n = CounterLimit THEN -CounterLimit ELSE n

(* The JavaScript remainder: it has the sign of the dividend.              *)
Rem(n) == IF n >= 0 THEN n % Capacity ELSE -((-n) % Capacity)

Init ==
  /\ head = 0 /\ tail = 0 /\ size = 0 /\ shutdownFlag = 0
  /\ slots = [s \in Slot |-> 0]
  /\ pcP = "idle" /\ tailRead = 0 /\ offered = 0 /\ result = "none"
  /\ pcC = "idle" /\ headRead = 0 /\ batchLen = 0 /\ alive = TRUE
  /\ accepted = << >> /\ received = << >>

-----------------------------------------------------------------------------
(* Producer.enqueue                                                        *)

ProducerIdle(outcome) == pcP' = "idle" /\ result' = outcome

(* A payload that does not fit its slot makes enqueue throw at once.       *)
Offer(fits) ==
  /\ pcP = "idle"
  /\ offered < MaxEvents
  /\ offered' = offered + 1
  /\ \/ fits /\ pcP' = "loadSize" /\ result' = "none"
     \/ ~fits /\ ProducerIdle("threw")
  /\ UNCHANGED <<control, slots, tailRead, consumerVars, accepted, received>>

LoadSize ==
  /\ pcP = "loadSize"
  /\ \/ size >= Capacity /\ ProducerIdle("full")
     \/ size < Capacity /\ pcP' = "loadTail" /\ UNCHANGED result
  /\ UNCHANGED <<control, slots, tailRead, offered, consumerVars, accepted, received>>

(* Defect: an unchecked write past the buffer is dropped, not thrown.      *)
LoadTailUnchecked ==
  /\ pcP = "loadTail"
  /\ tailRead' = tail
  /\ pcP' = "write"
  /\ UNCHANGED <<control, slots, offered, result, consumerVars, accepted, received>>

(* A negative slot is a negative DataView offset: a RangeError.            *)
LoadTail ==
  /\ pcP = "loadTail"
  /\ tailRead' = tail
  /\ \/ Rem(tail) < 0 /\ ProducerIdle("threw")
     \/ Rem(tail) >= 0 /\ pcP' = "write" /\ UNCHANGED result
  /\ UNCHANGED <<control, slots, offered, consumerVars, accepted, received>>

WriteSlot ==
  /\ pcP = "write"
  /\ slots' = [slots EXCEPT ![Rem(tailRead)] = offered]
  /\ pcP' = "storeTail"
  /\ UNCHANGED <<control, tailRead, offered, result, consumerVars, accepted, received>>

StoreTail ==
  /\ pcP = "storeTail"
  /\ tail' = Int32(tailRead + 1)
  /\ pcP' = "addSize"
  /\ UNCHANGED <<head, size, shutdownFlag, slots, tailRead, offered, result,
                 consumerVars, accepted, received>>

AddSize ==
  /\ pcP = "addSize"
  /\ size' = size + 1
  /\ accepted' = Append(accepted, offered)
  /\ pcP' = "notify"
  /\ UNCHANGED <<head, tail, shutdownFlag, slots, tailRead, offered, result,
                 consumerVars, received>>

Notify ==
  /\ pcP = "notify"
  /\ ProducerIdle("ok")
  /\ pcC' = IF alive /\ pcC = "asleep" THEN "recheck" ELSE pcC
  /\ UNCHANGED <<control, slots, tailRead, offered, headRead, batchLen, alive,
                 accepted, received>>

-----------------------------------------------------------------------------
(* Consumer.dequeueBatch and Consumer.shutdown                             *)

(* The worker's thread has not ended and is at the given step.             *)
Running(step) == alive /\ pcC = step /\ UNCHANGED alive
Goto(step) == pcC' = step /\ UNCHANGED <<headRead, batchLen>>

Call ==
  /\ Running("idle")
  /\ pcC' = "loadSize" /\ batchLen' = 0 /\ UNCHANGED headRead
  /\ UNCHANGED <<control, slots, producerVars, accepted, received>>

TestSize ==
  /\ Running("loadSize")
  /\ \/ size # 0 /\ Goto("loadHead")
     \/ size = 0 /\ batchLen > 0 /\ Goto("idle")
     \/ size = 0 /\ batchLen = 0 /\ Goto("wait")
  /\ UNCHANGED <<control, slots, producerVars, accepted, received>>

(* Defect: sleeping without comparing the word first.                      *)
WaitUnconditionally ==
  /\ Running("wait")
  /\ Goto("asleep")
  /\ UNCHANGED <<control, slots, producerVars, accepted, received>>

(* Atomics.wait sleeps only if the word still holds 0.                     *)
Wait ==
  /\ Running("wait")
  /\ \/ size = 0 /\ Goto("asleep")
     \/ size # 0 /\ Goto("recheck")
  /\ UNCHANGED <<control, slots, producerVars, accepted, received>>

Timeout ==
  /\ Running("asleep")
  /\ Goto("recheck")
  /\ UNCHANGED <<control, slots, producerVars, accepted, received>>

Recheck ==
  /\ Running("recheck")
  /\ \/ size = 0 /\ Goto("idle")
     \/ size # 0 /\ Goto("loadHead")
  /\ UNCHANGED <<control, slots, producerVars, accepted, received>>

(* Defect: the slot is freed before it is copied.                          *)
LoadHeadFreesSlot ==
  /\ Running("loadHead")
  /\ headRead' = head
  /\ size' = size - 1
  /\ pcC' = IF Rem(head) < 0 THEN "threw" ELSE "read"
  /\ UNCHANGED <<head, tail, shutdownFlag, slots, producerVars, batchLen, accepted, received>>

LoadHead ==
  /\ Running("loadHead")
  /\ headRead' = head
  /\ pcC' = IF Rem(head) < 0 THEN "threw" ELSE "read"
  /\ UNCHANGED <<control, slots, producerVars, batchLen, accepted, received>>

(* Defect: the head is advanced before the slot is addressed.              *)
ReadSlotAhead ==
  /\ Running("read")
  /\ received' = Append(received, slots[(headRead + 1) % Capacity])
  /\ batchLen' = batchLen + 1
  /\ pcC' = "storeHead"
  /\ UNCHANGED <<control, slots, producerVars, headRead, accepted>>

ReadSlot ==
  /\ Running("read")
  /\ received' = Append(received, slots[Rem(headRead)])
  /\ batchLen' = batchLen + 1
  /\ pcC' = "storeHead"
  /\ UNCHANGED <<control, slots, producerVars, headRead, accepted>>

(* Defect: the head is not advanced, so the slot is read again.            *)
StoreHeadForgotten ==
  /\ Running("storeHead")
  /\ Goto("subSize")
  /\ UNCHANGED <<control, slots, producerVars, accepted, received>>

StoreHead ==
  /\ Running("storeHead")
  /\ head' = Int32(headRead + 1)
  /\ Goto("subSize")
  /\ UNCHANGED <<tail, size, shutdownFlag, slots, producerVars, accepted, received>>

(* Defect: one event more than maxItems per batch.                         *)
SubSizeLongBatch ==
  /\ Running("subSize")
  /\ size' = size - 1
  /\ Goto(IF batchLen <= MaxBatch THEN "loadSize" ELSE "idle")
  /\ UNCHANGED <<head, tail, shutdownFlag, slots, producerVars, accepted, received>>

(* Defect: the size word is cleared, as if the ring held one event.        *)
SubSizeClears ==
  /\ Running("subSize")
  /\ size' = 0
  /\ Goto(IF batchLen < MaxBatch THEN "loadSize" ELSE "idle")
  /\ UNCHANGED <<head, tail, shutdownFlag, slots, producerVars, accepted, received>>

SubSize ==
  /\ Running("subSize")
  /\ size' = size - 1
  /\ Goto(IF batchLen < MaxBatch THEN "loadSize" ELSE "idle")
  /\ UNCHANGED <<head, tail, shutdownFlag, slots, producerVars, accepted, received>>

(* The worker's message handler, between two calls: it sets the flag that  *)
(* no code reads, notifies nobody (only its own thread ever sleeps) and    *)
(* ends the thread.                                                        *)
Shutdown ==
  /\ alive /\ pcC = "idle"
  /\ shutdownFlag' = 1
  /\ alive' = FALSE
  /\ UNCHANGED <<head, tail, size, slots, producerVars, pcC, headRead, batchLen,
                 accepted, received>>

(* worker.terminate() ends the thread between any two of its steps.        *)
Terminate ==
  /\ alive
  /\ alive' = FALSE
  /\ UNCHANGED <<control, slots, producerVars, pcC, headRead, batchLen, accepted, received>>

-----------------------------------------------------------------------------
ProducerNext ==
  \/ \E fits \in BOOLEAN : Offer(fits)
  \/ LoadSize \/ LoadTail \/ WriteSlot \/ StoreTail \/ AddSize \/ Notify

ConsumerNext ==
  \/ Call \/ TestSize \/ Wait \/ Timeout \/ Recheck
  \/ LoadHead \/ ReadSlot \/ StoreHead \/ SubSize

Next == ProducerNext \/ ConsumerNext \/ Shutdown \/ Terminate

Spec == Init /\ [][Next]_vars

(* While its thread lives the worker calls dequeueBatch again and again    *)
(* (persistenceWorker.ts, loop): the thread is scheduled and each append   *)
(* between two calls settles.  Once the thread has ended ConsumerNext is   *)
(* disabled and nothing is promised; nor is anything of the other thread.  *)
FairSpec == Spec /\ WF_vars(ConsumerNext)

-----------------------------------------------------------------------------
ProducerSteps == {"idle", "loadSize", "loadTail", "write", "storeTail", "addSize", "notify"}
ConsumerSteps == {"idle", "loadSize", "wait", "asleep", "recheck", "loadHead", "read",
                  "storeHead", "subSize", "threw"}

(* Types of the control words, the buffer and both threads' locals.        *)
TypeOK ==
  /\ head \in -CounterLimit..(CounterLimit - 1)
  /\ tail \in -CounterLimit..(CounterLimit - 1)
  /\ size \in Int
  /\ shutdownFlag \in {0, 1}
  /\ slots \in [Slot -> 0..MaxEvents]
  /\ pcP \in ProducerSteps
  /\ tailRead \in -CounterLimit..(CounterLimit - 1)
  /\ offered \in 0..MaxEvents
  /\ result \in {"none", "ok", "full", "threw"}
  /\ pcC \in ConsumerSteps
  /\ headRead \in -CounterLimit..(CounterLimit - 1)
  /\ batchLen \in 0..MaxBatch
  /\ alive \in BOOLEAN
  /\ accepted \in Seq(Event)
  /\ received \in Seq(0..MaxEvents)

(* Consumer.dequeueBatch never copies a slot while Producer.enqueue is     *)
(* filling it: the size word alone keeps the two threads apart.            *)
NoSlotRace ==
  ~(pcP = "write" /\ pcC = "read" /\ Rem(tailRead) = Rem(headRead))

(* The worker decodes exactly the published events, each once and in the   *)
(* order of the enqueue calls.                                             *)
Fifo ==
  /\ Len(received) <= Len(accepted)
  /\ \A i \in 1..Len(received) : received[i] = accepted[i]

(* The ring never holds more than Capacity events, and its size word is    *)
(* the number of events published and not yet freed by Atomics.sub.        *)
InFlight == IF pcC \in {"storeHead", "subSize"} THEN 1 ELSE 0
SizeIsOccupancy ==
  /\ size = Len(accepted) - Len(received) + InFlight
  /\ size \in 0..Capacity

(* A consumer asleep in Atomics.wait while an event is published is a      *)
(* consumer whose producer is about to notify it: no wake-up is lost.      *)
NoLostWakeup == alive /\ pcC = "asleep" /\ size > 0 => pcP = "notify"

(* When the 32-bit counters wrap it is the producer that throws: an event  *)
(* once accepted never makes dequeueBatch compute a negative offset, which *)
(* would kill the worker's loop.                                           *)
ConsumerNeverThrows == pcC # "threw"

(* Every published event is decoded by the worker, unless the worker's     *)
(* thread ends first: no batch limit, sleep or lost notify strands one.    *)
EveryAcceptedIsReceived ==
  \A n \in 1..MaxEvents : Len(accepted) >= n ~> Len(received) >= n \/ ~alive

(* The ring implements a bounded FIFO queue: an event is put when size is  *)
(* incremented and taken when size is decremented.                         *)
Freed == Len(received) - InFlight
Waiting == [i \in 1..(Len(accepted) - Freed) |-> accepted[Freed + i]]
Taken == [i \in 1..Freed |-> received[i]]
Fifo1 == INSTANCE BoundedFifo WITH
           queue <- Waiting, delivered <- Taken
ImplementsFifo == Fifo1!Spec
=============================================================================
