----------------------- MODULE SharedEventQueueProofs -----------------------
(***************************************************************************)
(* Proofs about SharedEventQueue for every capacity, batch size, width of  *)
(* the counters and number of events: nothing is assumed of the wrap of    *)
(* the counters.  What happens there is an invariant of its own (Reach):   *)
(* the producer gets at most one event past the wrap before it throws,     *)
(* unless the ring has a single slot, which no counter can miss.           *)
(***************************************************************************)
EXTENDS SharedEventQueue, SequenceTheorems, TLAPS

-----------------------------------------------------------------------------
(* Arithmetic of slots.                                                    *)

(* The remainder by the capacity is a slot.                                *)
LEMMA ModIsSlot == \A n \in Nat : n % Capacity \in Slot
BY QueueAssumption DEF Slot

(* A remainder that is not negative is a slot.                             *)
LEMMA RemIsSlot == ASSUME NEW n \in Int, Rem(n) >= 0 PROVE Rem(n) \in Slot
BY QueueAssumption DEF Rem, Slot

(* The JavaScript remainder of an integer is an integer.                   *)
LEMMA RemIsInt == ASSUME NEW n \in Int PROVE Rem(n) \in Int
<1>1. CASE n >= 0
  BY <1>1, ModIsSlot DEF Rem, Slot
<1>2. CASE n < 0
  <2>1. (-n) % Capacity \in Int
    BY <1>2, ModIsSlot DEF Slot
  <2> QED
    BY <1>2, <2>1 DEF Rem
<1> QED
  BY <1>1, <1>2

(* Distinct positions less than Capacity apart fall in distinct slots.     *)
LEMMA ModDistinct ==
  ASSUME NEW a \in Nat, NEW b \in Nat, a < b, b < a + Capacity
  PROVE  a % Capacity # b % Capacity
<1> DEFINE qa == a \div Capacity
           qb == b \div Capacity
<1>1. /\ qa \in Int /\ a = Capacity * qa + (a % Capacity)
      /\ qb \in Int /\ b = Capacity * qb + (b % Capacity)
  BY QueueAssumption
<1> HIDE DEF qa, qb
<1>2. SUFFICES ASSUME a % Capacity = b % Capacity PROVE FALSE
  OBVIOUS
<1>3. b - a = Capacity * (qb - qa)
  BY <1>1, <1>2, QueueAssumption, ModIsSlot
<1>4. CASE qb - qa <= 0
  BY <1>1, <1>3, <1>4, QueueAssumption
<1>5. CASE qb - qa >= 1
  BY <1>1, <1>3, <1>5, QueueAssumption
<1> QED
  BY <1>1, <1>4, <1>5

-----------------------------------------------------------------------------
(* Type correctness.  The strengthening adds what the appends and the      *)
(* batch counter need: a call in progress has a number, a slot about to be *)
(* copied exists, and a call that goes on has room in its batch.           *)
TypeInv ==
  /\ TypeOK
  /\ pcP # "idle" => offered \in Event
  /\ pcC = "read" => Rem(headRead) \in Slot
  /\ pcC \in {"loadSize", "wait", "asleep", "recheck", "loadHead", "read"} => batchLen < MaxBatch

(* The initial control words, buffer and locals have their types.          *)
LEMMA InitTypeInv == Init => TypeInv
<1> SUFFICES ASSUME Init PROVE TypeInv
  OBVIOUS
<1>1. slots \in [Slot -> 0..MaxEvents] /\ accepted \in Seq(Event) /\ received \in Seq(0..MaxEvents)
  BY QueueAssumption DEF Init
<1>2. TypeOK
  BY <1>1, QueueAssumption DEF Init, TypeOK, ProducerSteps, ConsumerSteps
<1> QED
  BY <1>2 DEF Init, TypeInv

(* No step of either thread leaves the types.                              *)
LEMMA NextTypeInv == TypeInv /\ [Next]_vars => TypeInv'
<1> SUFFICES ASSUME TypeInv, [Next]_vars PROVE TypeInv'
  OBVIOUS
<1> USE QueueAssumption DEF TypeInv, TypeOK, ProducerSteps, ConsumerSteps, Event,
                            control, producerVars, consumerVars
<1>1. ASSUME NEW fits \in BOOLEAN, Offer(fits) PROVE TypeInv'
  BY <1>1 DEF Offer, ProducerIdle
<1>2. CASE LoadSize
  BY <1>2 DEF LoadSize, ProducerIdle
<1>3. CASE LoadTail
  BY <1>3 DEF LoadTail, ProducerIdle
<1>4. CASE WriteSlot
  BY <1>4 DEF WriteSlot
<1>5. CASE StoreTail
  BY <1>5 DEF StoreTail, Int32
<1>6. CASE AddSize
  BY <1>6 DEF AddSize
<1>7. CASE Notify
  <2>1. CASE pcC = "asleep"
    BY <1>7, <2>1 DEF Notify, ProducerIdle
  <2>2. CASE pcC # "asleep"
    BY <1>7, <2>2 DEF Notify, ProducerIdle
  <2> QED
    BY <2>1, <2>2
<1>8. CASE Call
  BY <1>8 DEF Call, Running
<1>9. CASE TestSize
  BY <1>9, SMTT(20) DEF TestSize, Running, Goto
<1>10. CASE Wait \/ Timeout \/ Recheck
  BY <1>10 DEF Wait, Timeout, Recheck, Running, Goto
<1>11. CASE LoadHead
  <2>1. head \in Int /\ headRead' = head
    BY <1>11 DEF LoadHead, Running
  <2>2. Rem(head) \in Slot \/ pcC' = "threw"
    BY <1>11, <2>1, RemIsInt, RemIsSlot DEF LoadHead, Running
  <2>3. (pcC = "read" => Rem(headRead) \in Slot)'
    BY <2>1, <2>2
  <2> QED
    BY <1>11, <2>3 DEF LoadHead, Running
<1>12. CASE ReadSlot
  <2>1. slots[Rem(headRead)] \in 0..MaxEvents
    BY <1>12 DEF ReadSlot, Running
  <2> QED
    BY <1>12, <2>1 DEF ReadSlot, Running
<1>13. CASE StoreHead
  BY <1>13 DEF StoreHead, Running, Goto, Int32
<1>14. CASE SubSize
  BY <1>14 DEF SubSize, Running, Goto
<1>15. CASE Shutdown \/ Terminate
  BY <1>15 DEF Shutdown, Terminate
<1>16. CASE UNCHANGED vars
  BY <1>16 DEF vars
<1> QED
  BY <1>1, <1>2, <1>3, <1>4, <1>5, <1>6, <1>7, <1>8, <1>9, <1>10, <1>11, <1>12,
     <1>13, <1>14, <1>15, <1>16 DEF Next, ProducerNext, ConsumerNext

(* The control words stay in the Int32 range, the batch within maxItems    *)
(* and both threads at a known step, wrap or no wrap.                      *)
THEOREM TypeCorrect == Spec => []TypeOK
<1>1. TypeInv => TypeOK
  BY DEF TypeInv
<1> QED
  BY InitTypeInv, NextTypeInv, <1>1, PTL DEF Spec

-----------------------------------------------------------------------------
(* A sleeping consumer and an occupied queue mean a notify is on its way.  *)
(* The increment of size is the step before the notify, and Atomics.wait   *)
(* goes to sleep only on a zero, so no other step can get there.           *)
THEOREM WakeupsAreNotLost == Spec => []NoLostWakeup
<1> DEFINE WInv == TypeInv /\ (alive /\ pcC = "asleep" => size = 0 \/ pcP = "notify")
<1>1. Init => WInv
  BY InitTypeInv DEF Init
<1>2. WInv /\ [Next]_vars => WInv'
  <2> SUFFICES ASSUME WInv, [Next]_vars PROVE (alive /\ pcC = "asleep" => size = 0 \/ pcP = "notify")'
    BY NextTypeInv
  <2> USE DEF control, producerVars, consumerVars
  <2>1. CASE ProducerNext
    BY <2>1 DEF ProducerNext, Offer, ProducerIdle, LoadSize, LoadTail, WriteSlot,
                StoreTail, AddSize, Notify
  <2>2. CASE ConsumerNext
    BY <2>2 DEF ConsumerNext, Call, TestSize, Wait, Timeout, Recheck, LoadHead, ReadSlot,
                StoreHead, SubSize, Running, Goto
  <2>3. CASE Shutdown \/ Terminate \/ UNCHANGED vars
    BY <2>3 DEF Shutdown, Terminate, vars
  <2> QED
    BY <2>1, <2>2, <2>3 DEF Next
<1>3. WInv => NoLostWakeup
  BY DEF NoLostWakeup, TypeInv, TypeOK
<1> QED
  BY <1>1, <1>2, <1>3, PTL DEF Spec

-----------------------------------------------------------------------------
(* The inductive invariant of the ring.                                    *)

(* What a counter holds that was incremented n times, up to one step past  *)
(* its wrap.                                                               *)
Wrapped(n) == IF n < CounterLimit THEN n ELSE n - 2 * CounterLimit

(* The events published, and the one whose slot the producer has addressed. *)
Claimed == IF pcP \in {"write", "storeTail", "addSize"} THEN Len(accepted) + 1 ELSE Len(accepted)

(* Every claimed position lies before the wrap, except that a capacity     *)
(* that divides the width lets one event through right after it.           *)
Reach ==
  Capacity # 1 => \/ Claimed <= CounterLimit
                  \/ Claimed = CounterLimit + 1 /\ CounterLimit % Capacity = 0

(* The enqueue call in progress has not published its event yet.           *)
Unpublished == pcP \in {"loadSize", "loadTail", "write", "storeTail", "addSize"}

(* Each cursor is a wrapped count of history, give or take the step        *)
(* between its store and the update of size.                               *)
Cursors == Capacity # 1 =>
  /\ tail = Wrapped(IF pcP = "addSize" THEN Len(accepted) + 1 ELSE Len(accepted))
  /\ pcP \in {"write", "storeTail"} => tailRead = tail
  /\ head = Wrapped(IF pcC = "storeHead" THEN Len(received) - 1 ELSE Len(received))
  /\ pcC \in {"read", "storeHead"} => headRead = head

(* Neither thread's test of size is made stale by the other thread.        *)
Counting ==
  /\ Len(accepted) + (IF Unpublished THEN 1 ELSE 0) <= offered
  /\ Len(received) <= Len(accepted)
  /\ SizeIsOccupancy
  /\ pcP \in {"loadTail", "write", "storeTail", "addSize"} => size < Capacity
  /\ pcC \in {"loadHead", "read"} => size > 0

(* Between the copy of a slot and the decrement of size something has been *)
(* received.                                                               *)
ReceivedOne == pcC \in {"storeHead", "subSize"} => Len(received) >= 1

(* What was received, what waits in the ring, and what is being published. *)
Contents ==
  /\ \A i \in 1..Len(received) : received[i] = accepted[i]
  /\ \A i \in (Freed + 1)..Len(accepted) : slots[(i - 1) % Capacity] = accepted[i]
  /\ pcP \in {"storeTail", "addSize"} => slots[Len(accepted) % Capacity] = offered

(* Published events carry the numbers of earlier calls.                    *)
Numbered == \A i \in 1..Len(accepted) : accepted[i] < offered + (IF Unpublished THEN 0 ELSE 1)

RingInv == TypeInv /\ Reach /\ Cursors /\ Counting /\ ReceivedOne /\ Contents /\ Numbered

(* A counter incremented once more, across the wrap as well.               *)
LEMMA NextWrapped ==
  ASSUME NEW n \in Nat, n <= CounterLimit
  PROVE  Wrapped(n) \in Int /\ Int32(Wrapped(n) + 1) = Wrapped(n + 1)
BY QueueAssumption DEF Wrapped, Int32

(* A position before the wrap, or right at it when the capacity divides    *)
(* the width, names the slot it is meant to name.                          *)
LEMMA RemOfWrapped ==
  ASSUME NEW n \in Nat, n < CounterLimit \/ (n = CounterLimit /\ CounterLimit % Capacity = 0)
  PROVE  Rem(Wrapped(n)) = n % Capacity /\ Rem(Wrapped(n)) >= 0
<1>1. CASE n < CounterLimit
  BY <1>1, ModIsSlot, QueueAssumption DEF Wrapped, Rem, Slot
<1>2. CASE n = CounterLimit /\ CounterLimit % Capacity = 0
  <2>1. Wrapped(n) = -CounterLimit /\ -CounterLimit < 0 /\ -(-CounterLimit) = CounterLimit
    BY <1>2, QueueAssumption DEF Wrapped
  <2>2. Rem(-CounterLimit) = -(CounterLimit % Capacity)
    BY <2>1, QueueAssumption DEF Rem
  <2> QED
    BY <1>2, <2>1, <2>2
<1> QED
  BY <1>1, <1>2

(* The producer goes no further: past the wrap it finds a negative slot.   *)
LEMMA ThrowsAfterWrap ==
  ASSUME Capacity # 1, NEW n \in Nat, Rem(Wrapped(n)) >= 0,
         n <= CounterLimit \/ (n = CounterLimit + 1 /\ CounterLimit % Capacity = 0)
  PROVE  n < CounterLimit \/ (n = CounterLimit /\ CounterLimit % Capacity = 0)
<1>1. CASE n = CounterLimit
  <2>1. Wrapped(n) = -CounterLimit /\ -CounterLimit < 0 /\ -(-CounterLimit) = CounterLimit
    BY <1>1, QueueAssumption DEF Wrapped
  <2>2. Rem(-CounterLimit) = -(CounterLimit % Capacity)
    BY <2>1, QueueAssumption DEF Rem
  <2>3. CounterLimit % Capacity \in Nat
    BY ModIsSlot, QueueAssumption DEF Slot
  <2> QED
    BY <1>1, <2>1, <2>2, <2>3
<1>2. CASE n = CounterLimit + 1 /\ CounterLimit % Capacity = 0
  <2> DEFINE m == CounterLimit - 1
  <2>1. m \in Nat /\ Capacity > 1 /\ m < CounterLimit /\ CounterLimit < m + Capacity
    BY QueueAssumption
  <2>2. m % Capacity # 0 /\ m % Capacity \in Nat
    <3> HIDE DEF m
    <3>1. CounterLimit \in Nat /\ m % Capacity # CounterLimit % Capacity
      BY <2>1, ModDistinct, QueueAssumption
    <3>2. m % Capacity \in Nat
      BY <2>1, ModIsSlot, QueueAssumption DEF Slot
    <3> QED
      BY <1>2, <3>1, <3>2
  <2>3. Wrapped(n) = -m
    BY <1>2, QueueAssumption DEF Wrapped
  <2>4. Rem(-m) < 0
    <3>1. CASE m = 0
      <4>1. 0 % Capacity = 0
        BY QueueAssumption
      <4> QED
        BY <2>2, <3>1, <4>1
    <3>2. CASE m > 0
      <4> HIDE DEF m
      <4>1. -m < 0 /\ -(-m) = m
        BY <2>1, <3>2
      <4>2. Rem(-m) = -(m % Capacity)
        BY <4>1, <2>1 DEF Rem
      <4> QED
        BY <2>2, <4>2
    <3>3. m = 0 \/ m > 0
      BY <2>1, QueueAssumption
    <3> QED
      BY <3>1, <3>2, <3>3
  <2> HIDE DEF m
  <2> QED
    BY <2>1, <2>3, <2>4, RemIsInt
<1> QED
  BY <1>1, <1>2, QueueAssumption

(* In a ring of one slot every position names that slot.                   *)
LEMMA OneSlot == ASSUME Capacity = 1, NEW n \in Int PROVE n % Capacity = 0 /\ Rem(n) = 0
BY DEF Rem

(* The cursors name the slots they are meant to name, wrapped or not.      *)
LEMMA Addressing ==
  ASSUME RingInv
  PROVE  /\ Len(accepted) \in Nat /\ Len(received) \in Nat /\ Freed \in Nat
         /\ Freed <= Len(received) /\ Len(accepted) <= Freed + Capacity
         /\ size = Len(accepted) - Freed
         /\ pcP = "write" => Rem(tailRead) = Len(accepted) % Capacity
         /\ pcC = "loadHead" => Rem(head) >= 0
         /\ pcC = "read" => Rem(headRead) = Len(received) % Capacity
         /\ Capacity # 1 =>
              /\ pcP = "storeTail" => Int32(tailRead + 1) = Wrapped(Len(accepted) + 1)
              /\ pcC = "storeHead" => Int32(headRead + 1) = Wrapped(Len(received))
<1>1. /\ Len(accepted) \in Nat /\ Len(received) \in Nat
      /\ tailRead \in Int /\ head \in Int /\ headRead \in Int
      /\ Len(received) <= Len(accepted)
      /\ pcC \in {"loadHead", "read"} => Len(received) < Len(accepted)
  BY QueueAssumption
     DEF RingInv, TypeInv, TypeOK, Counting, SizeIsOccupancy, InFlight
<1>2. /\ Freed \in Nat /\ Freed <= Len(received) /\ size = Len(accepted) - Freed
      /\ Len(accepted) <= Freed + Capacity
  <2>1. CASE pcC \in {"storeHead", "subSize"}
    <3>1. Len(received) >= 1
      BY <2>1, <1>1 DEF RingInv, ReceivedOne
    <3> QED
      BY <1>1, <2>1, <3>1, QueueAssumption DEF RingInv, Counting, SizeIsOccupancy, InFlight, Freed
  <2>2. CASE pcC \notin {"storeHead", "subSize"}
    BY <1>1, <2>2, QueueAssumption DEF RingInv, Counting, SizeIsOccupancy, InFlight, Freed
  <2> QED
    BY <2>1, <2>2
<1>3. CASE Capacity = 1
  BY <1>1, <1>2, <1>3, OneSlot
<1>4. CASE Capacity # 1
  <2>1. /\ pcP \in {"write", "storeTail"} => tailRead = Wrapped(Len(accepted))
        /\ pcC \in {"loadHead", "read"} => head = Wrapped(Len(received))
        /\ pcC = "read" => headRead = Wrapped(Len(received))
        /\ pcC = "storeHead" => headRead = Wrapped(Len(received) - 1)
    BY <1>4 DEF RingInv, Cursors
  <2>2. Claimed \in Nat /\ Len(accepted) <= Claimed
    BY <1>1 DEF Claimed
  <2>3. \/ Claimed <= CounterLimit
        \/ Claimed = CounterLimit + 1 /\ CounterLimit % Capacity = 0
    BY <1>4 DEF RingInv, Reach
  <2>4. ASSUME NEW n \in Nat, n < Claimed
        PROVE  n < CounterLimit \/ (n = CounterLimit /\ CounterLimit % Capacity = 0)
    BY <2>2, <2>3, <2>4, QueueAssumption
  <2>5. pcP \in {"write", "storeTail"} => Len(accepted) < Claimed
    BY <1>1 DEF Claimed
  <2>6. pcC \in {"loadHead", "read"} => Len(received) < Claimed
    BY <1>1, <2>2
  <2>7. pcC = "storeHead" => Len(received) - 1 \in Nat /\ Len(received) - 1 < Claimed
    BY <1>1, <2>2 DEF RingInv, ReceivedOne
  <2>8. pcP = "write" => Rem(tailRead) = Len(accepted) % Capacity
    BY <1>1, <2>1, <2>4, <2>5, RemOfWrapped
  <2>9. pcC = "loadHead" => Rem(head) >= 0
    BY <1>1, <2>1, <2>4, <2>6, RemOfWrapped
  <2>10. pcC = "read" => Rem(headRead) = Len(received) % Capacity
    BY <1>1, <2>1, <2>4, <2>6, RemOfWrapped
  <2>11. pcP = "storeTail" => Int32(tailRead + 1) = Wrapped(Len(accepted) + 1)
    <3>1. SUFFICES ASSUME pcP = "storeTail" PROVE Int32(tailRead + 1) = Wrapped(Len(accepted) + 1)
      OBVIOUS
    <3>2. Len(accepted) <= CounterLimit
      BY <1>1, <2>4, <2>5, <3>1, QueueAssumption
    <3> QED
      BY <1>1, <2>1, <3>1, <3>2, NextWrapped
  <2>12. pcC = "storeHead" => Int32(headRead + 1) = Wrapped(Len(received))
    <3>1. SUFFICES ASSUME pcC = "storeHead" PROVE Int32(headRead + 1) = Wrapped(Len(received))
      OBVIOUS
    <3>2. Len(received) - 1 <= CounterLimit /\ (Len(received) - 1) + 1 = Len(received)
      BY <1>1, <2>4, <2>7, <3>1, QueueAssumption
    <3>3. Int32(Wrapped(Len(received) - 1) + 1) = Wrapped((Len(received) - 1) + 1)
      BY <2>7, <3>1, <3>2, NextWrapped
    <3> QED
      BY <2>1, <3>1, <3>2, <3>3
  <2> QED
    BY <1>1, <1>2, <2>8, <2>9, <2>10, <2>11, <2>12
<1> QED
  BY <1>3, <1>4

(* The initial ring is empty.                                              *)
LEMMA InitRingInv == Init => RingInv
<1> SUFFICES ASSUME Init PROVE RingInv
  OBVIOUS
<1>1. Len(accepted) = 0 /\ Len(received) = 0
  BY DEF Init
<1>2. Reach /\ Cursors /\ Counting /\ ReceivedOne /\ Numbered
  BY <1>1, QueueAssumption DEF Init, Reach, Claimed, Cursors, Wrapped, Counting, ReceivedOne,
     Numbered, Unpublished, SizeIsOccupancy, InFlight
<1>3. Contents
  BY <1>1 DEF Init, Contents, Freed, InFlight
<1> QED
  BY <1>2, <1>3, InitTypeInv DEF RingInv
(* Every step that leaves both histories, the buffer and the consumer's    *)
(* position alone keeps the contents.                                      *)
LEMMA ContentsFrame ==
  ASSUME Contents, UNCHANGED <<accepted, received, slots, offered>>, Freed' = Freed,
         pcP' \in {"storeTail", "addSize"} => pcP \in {"storeTail", "addSize"}
  PROVE  Contents'
BY DEF Contents

(* The types that the ring's proofs use.                                   *)
LEMMA RingTypes ==
  ASSUME TypeInv
  PROVE  /\ Len(accepted) \in Nat /\ Len(received) \in Nat /\ offered \in Nat /\ size \in Int
         /\ accepted \in Seq(Event) /\ \A i \in 1..Len(accepted) : accepted[i] \in Int
         /\ tail \in Int
         /\ received \in Seq(0..MaxEvents) /\ head \in Int
<1>1. TypeOK
  BY DEF TypeInv
<1>2. /\ accepted \in Seq(Event) /\ received \in Seq(0..MaxEvents)
      /\ offered \in 0..MaxEvents /\ size \in Int
      /\ tail \in -CounterLimit..(CounterLimit - 1)
      /\ head \in -CounterLimit..(CounterLimit - 1)
  BY <1>1 DEF TypeOK
<1>3. Len(accepted) \in Nat /\ Len(received) \in Nat
  BY <1>2
<1>6. offered \in Nat /\ tail \in Int /\ head \in Int
  BY <1>2, QueueAssumption
<1>4. \A i \in 1..Len(accepted) : accepted[i] \in Event
  BY <1>2
<1>5. Event \subseteq Int
  BY DEF Event
<1> QED
  BY <1>2, <1>3, <1>4, <1>5, <1>6

(* The producer's steps keep the ring invariant.                           *)
LEMMA ProducerKeepsRing == ASSUME RingInv, ProducerNext, TypeInv' PROVE RingInv'
<1> USE QueueAssumption DEF control, consumerVars
<1>0. /\ TypeInv /\ Reach /\ Cursors /\ Counting /\ ReceivedOne /\ Contents /\ Numbered
      /\ Len(accepted) \in Nat /\ Len(received) \in Nat /\ offered \in Nat /\ size \in Int
      /\ accepted \in Seq(Event) /\ \A i \in 1..Len(accepted) : accepted[i] \in Int
      /\ tail \in Int
  BY RingTypes DEF RingInv
<1>1. ASSUME NEW fits \in BOOLEAN, Offer(fits) PROVE RingInv'
  <2>0. /\ pcP = "idle" /\ pcP' \in {"idle", "loadSize"} /\ offered' = offered + 1
        /\ UNCHANGED <<head, tail, size, slots, tailRead, pcC, headRead, accepted, received>>
    BY <1>1 DEF Offer, ProducerIdle
  <2>1. Reach' /\ Cursors' /\ Counting' /\ ReceivedOne'
    BY <1>0, <2>0 DEF Reach, Claimed, Cursors, Counting, ReceivedOne, Unpublished, SizeIsOccupancy, InFlight
  <2>3. Numbered'
    BY <1>0, <2>0 DEF Numbered, Unpublished
  <2>2. Contents'
    BY <1>0, <2>0 DEF Contents, Freed, InFlight
  <2> QED
    BY <2>1, <2>2, <2>3 DEF RingInv
<1>2. CASE LoadSize
  <2>0. /\ pcP = "loadSize" /\ (pcP' = "idle" \/ (pcP' = "loadTail" /\ size < Capacity))
        /\ UNCHANGED <<head, tail, size, slots, tailRead, offered, pcC, headRead, accepted, received>>
    BY <1>2 DEF LoadSize, ProducerIdle
  <2>1. Reach' /\ Cursors' /\ ReceivedOne' /\ SizeIsOccupancy'
    BY <1>0, <2>0 DEF Reach, Claimed, Cursors, Counting, ReceivedOne, SizeIsOccupancy, InFlight
  <2>4. Counting'
    BY <1>0, <2>0, <2>1 DEF Counting, Unpublished
  <2>2. Numbered'
    BY <1>0, <2>0 DEF Numbered, Unpublished
  <2>3. Contents'
    BY <1>0, <2>0, ContentsFrame DEF Freed, InFlight
  <2> QED
    BY <2>1, <2>2, <2>3, <2>4 DEF RingInv
<1>3. CASE LoadTail
  <2>0. /\ pcP = "loadTail" /\ tailRead' = tail
        /\ pcP' = "idle" \/ (pcP' = "write" /\ Rem(tail) >= 0)
    BY <1>3 DEF LoadTail, ProducerIdle
  <2>1. Cursors' /\ Counting' /\ ReceivedOne' /\ Numbered'
    BY <1>0, <1>3, <2>0 DEF LoadTail, Cursors, Counting, ReceivedOne, Numbered,
       Unpublished, SizeIsOccupancy, InFlight
  <2>3. Reach'
    <3>1. SUFFICES ASSUME Capacity # 1
                   PROVE  \/ Claimed' <= CounterLimit
                          \/ Claimed' = CounterLimit + 1 /\ CounterLimit % Capacity = 0
      BY DEF Reach
    <3>2. /\ Claimed = Len(accepted) /\ tail = Wrapped(Len(accepted))
          /\ \/ Claimed <= CounterLimit
             \/ Claimed = CounterLimit + 1 /\ CounterLimit % Capacity = 0
      BY <1>0, <2>0, <3>1 DEF Claimed, Cursors, Reach
    <3>3. CASE pcP' = "idle"
      BY <1>3, <3>2, <3>3 DEF LoadTail, Claimed
    <3>4. CASE pcP' = "write" /\ Rem(tail) >= 0
      <4>1. Claimed' = Len(accepted) + 1
        BY <1>3, <3>4 DEF LoadTail, Claimed
      <4>2. \/ Len(accepted) < CounterLimit
            \/ Len(accepted) = CounterLimit /\ CounterLimit % Capacity = 0
        BY <1>0, <3>1, <3>2, <3>4, ThrowsAfterWrap
      <4> QED
        BY <1>0, <4>1, <4>2
    <3> QED
      BY <2>0, <3>3, <3>4
  <2>2. Contents'
    BY <1>0, <1>3, <2>0, ContentsFrame DEF LoadTail, Freed, InFlight
  <2> QED
    BY <2>1, <2>2, <2>3 DEF RingInv
<1>4. CASE WriteSlot
  <2> DEFINE s == Len(accepted) % Capacity
  <2>0. /\ slots' = [slots EXCEPT ![s] = offered] /\ s \in Slot
        /\ slots \in [Slot -> 0..MaxEvents]
    BY <1>0, <1>4, Addressing, ModIsSlot DEF WriteSlot, TypeInv, TypeOK
  <2>1. Reach' /\ Cursors' /\ Counting' /\ ReceivedOne' /\ Numbered'
    BY <1>0, <1>4 DEF WriteSlot, Reach, Claimed, Cursors, Counting, ReceivedOne, Numbered,
       Unpublished, SizeIsOccupancy, InFlight
  <2>2. Freed' = Freed /\ UNCHANGED <<accepted, received, offered>>
    BY <1>4 DEF WriteSlot, Freed, InFlight
  <2>3. ASSUME NEW i \in (Freed + 1)..Len(accepted)
        PROVE  slots'[(i - 1) % Capacity] = accepted[i]
    <3>1. /\ i - 1 \in Nat /\ i - 1 < Len(accepted) /\ Len(accepted) < (i - 1) + Capacity
      BY <1>0, <1>4, Addressing DEF WriteSlot, Counting
    <3>2. (i - 1) % Capacity # s
      BY <1>0, <3>1, ModDistinct
    <3>3. slots[(i - 1) % Capacity] = accepted[i]
      BY <1>0 DEF Contents
    <3>4. (i - 1) % Capacity \in Slot
      BY <3>1, ModIsSlot
    <3> HIDE DEF s
    <3> QED
      BY <2>0, <3>2, <3>3, <3>4
  <2>4. slots'[s] = offered
    <3> HIDE DEF s
    <3> QED
      BY <2>0
  <2>5. Contents'
    BY <1>0, <2>2, <2>3, <2>4 DEF Contents
  <2> QED
    BY <2>1, <2>5 DEF RingInv
<1>5. CASE StoreTail
  <2>1. Reach' /\ Cursors' /\ Counting' /\ ReceivedOne' /\ Numbered'
    BY <1>0, <1>5, Addressing DEF StoreTail, Reach, Claimed, Cursors, Counting, ReceivedOne, Numbered,
       Unpublished, SizeIsOccupancy, InFlight
  <2>2. Contents'
    BY <1>0, <1>5, ContentsFrame DEF StoreTail, Freed, InFlight
  <2> QED
    BY <2>1, <2>2 DEF RingInv
<1>6. CASE AddSize
  <2>0. /\ Len(accepted') = Len(accepted) + 1
        /\ \A i \in 1..Len(accepted) : accepted'[i] = accepted[i]
        /\ accepted'[Len(accepted) + 1] = offered
        /\ pcP = "addSize" /\ pcP' = "notify" /\ size' = size + 1
        /\ UNCHANGED <<head, tail, tailRead, offered, pcC, headRead, received>>
    BY <1>0, <1>6 DEF AddSize, TypeInv
  <2>1. Reach' /\ Cursors' /\ ReceivedOne'
    BY <1>0, <2>0 DEF Reach, Claimed, Cursors, ReceivedOne
  <2>8. SizeIsOccupancy'
    BY <1>0, <2>0 DEF Counting, SizeIsOccupancy, InFlight
  <2>7. Counting'
    BY <1>0, <2>0, <2>8 DEF Counting, Unpublished, SizeIsOccupancy
  <2>2. Numbered'
    <3>1. \A i \in 1..Len(accepted) : accepted[i] < offered + 1
      BY <1>0, <2>0 DEF Numbered, Unpublished
    <3>2. ASSUME NEW i \in 1..(Len(accepted) + 1) PROVE accepted'[i] < offered + 1
      BY <1>0, <2>0, <3>1
    <3> QED
      BY <2>0, <3>2 DEF Numbered, Unpublished
  <2>3. Freed' = Freed /\ UNCHANGED <<slots, received, offered>>
    BY <1>6 DEF AddSize, Freed, InFlight
  <2>4. ASSUME NEW i \in (Freed + 1)..(Len(accepted) + 1)
        PROVE  slots[(i - 1) % Capacity] = accepted'[i]
    <3>1. CASE i = Len(accepted) + 1
      BY <1>0, <1>6, <2>0, <3>1 DEF AddSize, Contents
    <3>2. CASE i \in (Freed + 1)..Len(accepted)
      <4>1. slots[(i - 1) % Capacity] = accepted[i]
        BY <1>0, <3>2 DEF Contents
      <4>2. i \in 1..Len(accepted)
        BY <3>2, Addressing
      <4> QED
        BY <1>0, <2>0, <4>1, <4>2
    <3> QED
      BY <1>0, <3>1, <3>2, Addressing
  <2>5. \A i \in 1..Len(received) : received[i] = accepted'[i]
    BY <1>0, <2>0 DEF Contents, Counting
  <2>6. Contents'
    BY <1>6, <2>0, <2>3, <2>4, <2>5 DEF Contents, AddSize
  <2> QED
    BY <2>1, <2>2, <2>6, <2>7 DEF RingInv
<1>7. CASE Notify
  <2>0. /\ pcC' = pcC \/ (pcC = "asleep" /\ pcC' = "recheck")
        /\ pcP = "notify" /\ pcP' = "idle"
        /\ UNCHANGED <<head, tail, size, slots, tailRead, offered, headRead, accepted, received>>
    BY <1>7 DEF Notify, ProducerIdle
  <2>1. Reach' /\ Cursors' /\ Counting' /\ ReceivedOne' /\ Numbered'
    BY <1>0, <2>0 DEF Reach, Claimed, Cursors, Counting, ReceivedOne, Numbered,
       Unpublished, SizeIsOccupancy, InFlight
  <2>2. Contents'
    BY <1>0, <2>0, ContentsFrame DEF Freed, InFlight
  <2> QED
    BY <2>1, <2>2 DEF RingInv
<1> QED
  BY <1>1, <1>2, <1>3, <1>4, <1>5, <1>6, <1>7 DEF ProducerNext
(* Every step that leaves both histories and the buffer alone, frees no    *)
(* slot too many and publishes nothing keeps the contents.                 *)
LEMMA ContentsAfterFree ==
  ASSUME Contents, UNCHANGED <<accepted, received, slots, offered, pcP>>,
         Freed \in Nat, Freed' \in Nat, Freed' >= Freed, Len(accepted) \in Nat
  PROVE  Contents'
<1>1. (Freed' + 1)..Len(accepted) \subseteq (Freed + 1)..Len(accepted)
  OBVIOUS
<1>2. \A i \in (Freed' + 1)..Len(accepted) : slots[(i - 1) % Capacity] = accepted[i]
  BY <1>1 DEF Contents
<1> QED
  BY <1>2 DEF Contents

(* The consumer's steps keep the ring invariant.                           *)
LEMMA ConsumerKeepsRing == ASSUME RingInv, ConsumerNext, TypeInv' PROVE RingInv'
<1> USE QueueAssumption DEF control, producerVars
<1>0. /\ TypeInv /\ Reach /\ Cursors /\ Counting /\ ReceivedOne /\ Contents /\ Numbered
      /\ Len(accepted) \in Nat /\ Len(received) \in Nat /\ offered \in Nat /\ size \in Int
      /\ received \in Seq(0..MaxEvents)
      /\ head \in Int
  BY RingTypes DEF RingInv
<1>1. CASE Call \/ TestSize \/ Wait \/ Timeout \/ Recheck
  <2>0. /\ pcC \notin {"loadHead", "read", "storeHead", "subSize"}
        /\ pcC' \notin {"read", "storeHead", "subSize"}
        /\ pcC' = "loadHead" => size # 0
        /\ UNCHANGED <<head, tail, size, slots, tailRead, offered, pcP, headRead, accepted, received>>
    BY <1>1 DEF Running, Call, TestSize, Wait, Timeout, Recheck, Goto
  <2>1. Reach' /\ Cursors' /\ ReceivedOne' /\ Numbered' /\ SizeIsOccupancy'
    BY <1>0, <2>0 DEF Reach, Claimed, Cursors, Counting, ReceivedOne, Numbered, Unpublished, SizeIsOccupancy, InFlight
  <2>2. Counting'
    BY <1>0, <2>0, <2>1 DEF Counting, Unpublished, SizeIsOccupancy
  <2>3. Contents'
    BY <1>0, <2>0, ContentsFrame DEF Freed, InFlight
  <2> QED
    BY <2>1, <2>2, <2>3 DEF RingInv
<1>2. CASE LoadHead
  <2>0. /\ pcC = "loadHead" /\ pcC' = "read" /\ headRead' = head
        /\ UNCHANGED <<head, tail, size, slots, tailRead, offered, pcP, accepted, received>>
    <3>1. Rem(head) >= 0
      BY <1>2, Addressing DEF Running, LoadHead
    <3>2. ~(Rem(head) < 0)
      BY <3>1, <1>0, RemIsInt
    <3> QED
      BY <1>2, <3>2 DEF Running, LoadHead
  <2>1. Reach' /\ Cursors' /\ ReceivedOne' /\ Numbered' /\ SizeIsOccupancy'
    BY <1>0, <2>0 DEF Reach, Claimed, Cursors, Counting, ReceivedOne, Numbered, Unpublished, SizeIsOccupancy, InFlight
  <2>2. Counting'
    BY <1>0, <2>0, <2>1 DEF Counting, Unpublished
  <2>3. Contents'
    BY <1>0, <2>0, ContentsFrame DEF Freed, InFlight
  <2> QED
    BY <2>1, <2>2, <2>3 DEF RingInv
<1>3. CASE ReadSlot
  <2> DEFINE x == slots[Rem(headRead)]
             n == Len(received) + 1
  <2>0. /\ pcC = "read" /\ pcC' = "storeHead" /\ received' = Append(received, x)
        /\ UNCHANGED <<head, tail, size, slots, tailRead, offered, pcP, headRead, accepted>>
    BY <1>3 DEF Running, ReadSlot
  <2>1. x \in 0..MaxEvents
    BY <1>0, <2>0 DEF TypeInv, TypeOK
  <2>2. size > 0 /\ n <= Len(accepted) /\ Freed = Len(received)
    BY <1>0, <2>0 DEF Counting, SizeIsOccupancy, InFlight, Freed
  <2>3. x = accepted[n]
    <3>1. n \in (Freed + 1)..Len(accepted) /\ n - 1 = Len(received)
      BY <1>0, <2>2
    <3>2. slots[(n - 1) % Capacity] = accepted[n]
      BY <1>0, <3>1 DEF Contents
    <3> QED
      BY <2>0, <3>1, <3>2, Addressing
  <2> HIDE DEF x
  <2>4. /\ Len(received') = n
        /\ \A i \in 1..Len(received) : received'[i] = received[i]
        /\ received'[n] = x
    BY <1>0, <2>0, <2>1
  <2>5. Freed' = Freed
    BY <1>0, <2>0, <2>2, <2>4 DEF Freed, InFlight
  <2>6. Reach' /\ Cursors' /\ ReceivedOne' /\ Numbered' /\ SizeIsOccupancy'
    BY <1>0, <2>0, <2>4 DEF Reach, Claimed, Cursors, Counting, ReceivedOne, Numbered, Unpublished, SizeIsOccupancy, InFlight
  <2>7. Counting'
    BY <1>0, <2>0, <2>2, <2>4, <2>6 DEF Counting, Unpublished
  <2>8. \A i \in 1..n : received'[i] = accepted[i]
    <3>1. ASSUME NEW i \in 1..n PROVE received'[i] = accepted[i]
      BY <1>0, <2>3, <2>4, <3>1 DEF Contents
    <3> QED
      BY <3>1
  <2>9. Contents'
    BY <1>0, <2>0, <2>4, <2>5, <2>8 DEF Contents
  <2> QED
    BY <2>6, <2>7, <2>9 DEF RingInv
<1>4. CASE StoreHead
  <2>0. /\ pcC = "storeHead" /\ pcC' = "subSize"
        /\ Capacity # 1 => head' = Wrapped(Len(received))
        /\ UNCHANGED <<tail, size, slots, tailRead, offered, pcP, headRead, accepted, received>>
    BY <1>4, Addressing DEF Running, StoreHead, Goto
  <2>1. Reach' /\ Cursors' /\ ReceivedOne' /\ Numbered' /\ SizeIsOccupancy'
    BY <1>0, <2>0 DEF Reach, Claimed, Cursors, Counting, ReceivedOne, Numbered, Unpublished, SizeIsOccupancy, InFlight
  <2>2. Counting'
    BY <1>0, <2>0, <2>1 DEF Counting, Unpublished
  <2>3. Contents'
    BY <1>0, <2>0, ContentsFrame DEF Freed, InFlight
  <2> QED
    BY <2>1, <2>2, <2>3 DEF RingInv
<1>5. CASE SubSize
  <2>0. /\ pcC = "subSize" /\ pcC' \in {"loadSize", "idle"} /\ size' = size - 1
        /\ UNCHANGED <<head, tail, slots, tailRead, offered, pcP, headRead, accepted, received>>
    BY <1>5 DEF Running, SubSize, Goto
  <2>1. Reach' /\ Cursors' /\ ReceivedOne' /\ Numbered'
    BY <1>0, <2>0 DEF Reach, Claimed, Cursors, ReceivedOne, Numbered, Unpublished
  <2>2. SizeIsOccupancy'
    BY <1>0, <2>0 DEF Counting, SizeIsOccupancy, InFlight
  <2>3. Counting'
    BY <1>0, <2>0, <2>2 DEF Counting, Unpublished
  <2>4. Freed \in Nat /\ Freed' \in Nat /\ Freed' >= Freed
    BY <1>0, <2>0 DEF Freed, InFlight, ReceivedOne
  <2>5. Contents'
    BY <1>0, <2>0, <2>4, ContentsAfterFree
  <2> QED
    BY <2>1, <2>3, <2>5 DEF RingInv
<1> QED
  BY <1>1, <1>2, <1>3, <1>4, <1>5 DEF ConsumerNext

(* Every step keeps the ring invariant.                                    *)
LEMMA NextRingInv == ASSUME RingInv, [Next]_vars PROVE RingInv'
<1>1. TypeInv'
  BY NextTypeInv DEF RingInv
<1>2. CASE Shutdown \/ Terminate \/ UNCHANGED vars
  <2>1. UNCHANGED <<head, tail, size, slots, producerVars, pcC, headRead, batchLen, accepted,
                    received>>
    BY <1>2 DEF Shutdown, Terminate, vars, control, consumerVars
  <2>2. Reach' /\ Cursors' /\ Counting' /\ ReceivedOne' /\ Contents' /\ Numbered'
    BY <2>1 DEF RingInv, Reach, Claimed, Cursors, Counting, ReceivedOne, Contents, Numbered, Unpublished,
       SizeIsOccupancy, InFlight, Freed, producerVars
  <2> QED
    BY <1>1, <2>2 DEF RingInv
<1> QED
  BY <1>1, <1>2, ProducerKeepsRing, ConsumerKeepsRing DEF Next
-----------------------------------------------------------------------------
(* What the invariant gives.                                               *)

(* The ring invariant holds throughout.                                    *)
LEMMA RingCorrect == Spec => []RingInv
<1>1. RingInv /\ [Next]_vars => RingInv'
  BY NextRingInv
<1> QED
  BY InitRingInv, <1>1, PTL DEF Spec

(* Exactly the published events are decoded, once each and in order.       *)
THEOREM FifoOrder == Spec => []Fifo
<1>1. RingInv => Fifo
  BY DEF RingInv, Counting, Contents, Fifo
<1> QED
  BY RingCorrect, <1>1, PTL

(* The size word counts the occupied slots and never exceeds Capacity.     *)
THEOREM OccupancyExact == Spec => []SizeIsOccupancy
<1>1. RingInv => SizeIsOccupancy
  BY DEF RingInv, Counting
<1> QED
  BY RingCorrect, <1>1, PTL

(* No slot is copied while it is being filled: the producer fills position *)
(* Len(accepted) only with a slot free, the consumer copies a position     *)
(* less than Capacity before it.                                           *)
THEOREM SlotsAreExclusive == Spec => []NoSlotRace
<1>1. ASSUME RingInv, pcP = "write", pcC = "read" PROVE Rem(tailRead) # Rem(headRead)
  <2>1. Len(received) \in Nat /\ Len(accepted) \in Nat
    BY <1>1 DEF RingInv, TypeInv, TypeOK
  <2>2. Len(received) < Len(accepted) /\ Len(accepted) < Len(received) + Capacity
    BY <1>1, <2>1, QueueAssumption DEF RingInv, Counting, SizeIsOccupancy, InFlight
  <2> QED
    BY <1>1, <2>1, <2>2, Addressing, ModDistinct
<1>2. RingInv => NoSlotRace
  BY <1>1 DEF NoSlotRace
<1> QED
  BY RingCorrect, <1>2, PTL

(* No call to dequeueBatch throws, before the wrap of the 32-bit counters, *)
(* at it or after it: the head only ever takes the values of a tail whose  *)
(* slot the producer could address, and past the wrap it is the producer   *)
(* that meets the first negative slot.                                     *)
THEOREM ConsumerSurvives == Spec => []ConsumerNeverThrows
<1> DEFINE SInv == RingInv /\ ConsumerNeverThrows
<1>1. Init => SInv
  BY InitRingInv DEF Init, ConsumerNeverThrows
<1>2. SInv /\ [Next]_vars => SInv'
  <2> SUFFICES ASSUME SInv, [Next]_vars PROVE ConsumerNeverThrows'
    BY NextRingInv
  <2> USE DEF ConsumerNeverThrows, control, producerVars, consumerVars
  <2>1. CASE ProducerNext
    BY <2>1 DEF ProducerNext, Offer, LoadSize, LoadTail, WriteSlot, StoreTail, AddSize, Notify
  <2>2. CASE LoadHead
    <3>1. head \in Int
      BY DEF RingInv, TypeInv, TypeOK
    <3> QED
      BY <2>2, <3>1, Addressing, RemIsInt DEF LoadHead, Running
  <2>3. CASE ConsumerNext /\ ~LoadHead
    BY <2>3 DEF ConsumerNext, Call, TestSize, Wait, Timeout, Recheck, ReadSlot,
                StoreHead, SubSize, Running, Goto
  <2>4. CASE Shutdown \/ Terminate \/ UNCHANGED vars
    BY <2>4 DEF Shutdown, Terminate, vars
  <2> QED
    BY <2>1, <2>2, <2>3, <2>4 DEF Next
<1> QED
  BY <1>1, <1>2, PTL DEF Spec
-----------------------------------------------------------------------------
(* The ring implements BoundedFifo.                                        *)

(* Shapes of the two abstract sequences: what is published and not yet     *)
(* freed, and what was freed.                                              *)
LEMMA Shapes ==
  ASSUME RingInv
  PROVE  /\ Waiting \in Seq(Event) /\ Len(Waiting) = size
         /\ \A i \in 1..size : Waiting[i] = accepted[Freed + i]
         /\ Taken \in Seq(Event) /\ Len(Taken) = Freed
         /\ \A i \in 1..Freed : Taken[i] = accepted[i]
         /\ size \in Nat
<1>1. /\ Len(accepted) \in Nat /\ Len(received) \in Nat /\ Freed \in Nat /\ Freed <= Len(received)
      /\ size = Len(accepted) - Freed /\ Len(received) <= Len(accepted)
      /\ \A i \in 1..Len(accepted) : accepted[i] \in Event
      /\ \A i \in 1..Len(received) : received[i] = accepted[i]
  BY Addressing DEF RingInv, Counting, Contents, TypeInv, TypeOK
<1>2. /\ \A i \in 1..size : accepted[Freed + i] \in Event
      /\ \A i \in 1..Freed : received[i] \in Event /\ received[i] = accepted[i]
      /\ size \in Nat
  BY <1>1
<1>3. Waiting = [i \in 1..size |-> accepted[Freed + i]]
  BY <1>1 DEF Waiting
<1>4. Waiting \in Seq(Event) /\ Len(Waiting) = size
  BY <1>2, <1>3
<1>5. Taken \in Seq(Event) /\ Len(Taken) = Freed
  BY <1>1, <1>2 DEF Taken
<1> QED
  BY <1>1, <1>2, <1>3, <1>4, <1>5 DEF Taken

(* Publishing an event puts it.                                            *)
LEMMA AddSizePuts == ASSUME RingInv, RingInv', AddSize PROVE Fifo1!Put(offered)
<1>1. /\ accepted \in Seq(Event) /\ offered \in Event
      /\ pcP = "addSize" /\ size < Capacity /\ size' = size + 1
      /\ accepted' = Append(accepted, offered) /\ UNCHANGED received
      /\ Freed' = Freed /\ Freed \in Nat /\ size = Len(accepted) - Freed
  BY Addressing
     DEF AddSize, RingInv, TypeInv, TypeOK, Counting, Freed, InFlight, consumerVars
<1>2. \A i \in 1..Len(accepted) : accepted[i] \in Int /\ accepted[i] < offered
  <2>1. \A i \in 1..Len(accepted) : accepted[i] \in Event
    BY <1>1
  <2>2. offered \in Int /\ \A e \in Event : e \in Int
    BY <1>1 DEF Event
  <2>3. Unpublished
    BY <1>1 DEF Unpublished
  <2>4. \A i \in 1..Len(accepted) : accepted[i] < offered + 0
    BY <2>3 DEF RingInv, Numbered
  <2> QED
    BY <2>1, <2>2, <2>4
<1>3. Waiting' = Append(Waiting, offered)
  <2>1. Waiting' = [i \in 1..(size + 1) |-> accepted'[Freed + i]]
    BY <1>1 DEF Waiting
  <2>2. \A i \in 1..size : accepted'[Freed + i] = Waiting[i]
    BY <1>1, Shapes
  <2>3. accepted'[Freed + size + 1] = offered
    BY <1>1
  <2>4. /\ Append(Waiting, offered) \in Seq(Event) /\ Len(Append(Waiting, offered)) = size + 1
        /\ \A i \in 1..size : Append(Waiting, offered)[i] = Waiting[i]
        /\ Append(Waiting, offered)[size + 1] = offered
    <3>1. Waiting \in Seq(Event) /\ Len(Waiting) = size /\ offered \in Event
      BY <1>1, Shapes
    <3> QED
      BY <3>1, AppendProperties
  <2>5. /\ Waiting' \in Seq(Event) /\ Len(Waiting') = size + 1
    <3>1. /\ accepted' \in Seq(Event) /\ Len(accepted') = Freed + size + 1 /\ size \in Nat
      BY <1>1, Shapes
    <3>2. \A i \in 1..(size + 1) : accepted'[Freed + i] \in Event
      BY <1>1, <3>1
    <3> QED
      BY <2>1, <3>1, <3>2
  <2>6. \A i \in 1..(size + 1) : Waiting'[i] = Append(Waiting, offered)[i]
    <3> SUFFICES ASSUME NEW i \in 1..(size + 1)
                 PROVE  Waiting'[i] = Append(Waiting, offered)[i]
      OBVIOUS
    <3>1. Waiting'[i] = accepted'[Freed + i]
      BY <2>1
    <3>2. size \in Nat
      BY <1>1, Shapes
    <3>3. CASE i = size + 1
      <4>1. Freed + i = Freed + size + 1
        BY <1>1, <3>2, <3>3
      <4> QED
        BY <2>3, <2>4, <3>1, <3>3, <4>1
    <3>4. CASE i \in 1..size
      BY <2>2, <2>4, <3>1, <3>4
    <3>5. i = size + 1 \/ i \in 1..size
      BY <3>2
    <3> QED
      BY <3>3, <3>4, <3>5
  <2> QED
    BY <2>4, <2>5, <2>6, SeqEqual
<1>4. Taken' = Taken
  BY <1>1 DEF Taken
<1>5. /\ Len(Waiting) < Capacity
      /\ \A i \in 1..Len(Waiting) : Waiting[i] < offered
      /\ \A i \in 1..Len(Taken) : Taken[i] < offered
  <2>1. \A i \in 1..size : Waiting[i] < offered
    BY <1>1, <1>2, Shapes
  <2>2. \A i \in 1..Freed : Taken[i] < offered
    <3>1. Freed <= Len(accepted)
      BY <1>1, Shapes
    <3> QED
      BY <1>1, <1>2, <3>1, Shapes
  <2> QED
    BY <1>1, <2>1, <2>2, Shapes
<1> QED
  BY <1>3, <1>4, <1>5 DEF Fifo1!Put

(* Freeing a slot takes the oldest event.                                  *)
LEMMA SubSizeGets == ASSUME RingInv, RingInv', SubSize PROVE Fifo1!Get
<1>1. /\ pcC = "subSize" /\ pcC' \in {"idle", "loadSize"} /\ size' = size - 1
      /\ UNCHANGED <<accepted, received>>
      /\ Freed \in Nat /\ Freed' = Freed + 1 /\ size = Len(accepted) - Freed
      /\ Freed' <= Len(received) /\ Len(received) <= Len(accepted)
      /\ accepted \in Seq(Event)
  BY Addressing DEF SubSize, Running, Goto, RingInv, TypeInv, TypeOK, Counting, Freed, InFlight
<1>2. size > 0 /\ size \in Nat
  BY <1>1, Shapes
<1>3. Waiting' = [i \in 1..(Len(Waiting) - 1) |-> Waiting[i + 1]]
  <2>1. Waiting' = [i \in 1..(size - 1) |-> accepted[Freed + 1 + i]]
    BY <1>1 DEF Waiting
  <2>2. \A i \in 1..(size - 1) : Waiting[i + 1] = accepted[Freed + 1 + i]
    BY <1>1, <1>2, Shapes
  <2> QED
    BY <2>1, <2>2, Shapes
<1>4. Taken' = Append(Taken, Waiting[1])
  <2>1. Waiting[1] = accepted[Freed + 1] /\ Waiting[1] \in Event
    <3>1. 1 \in 1..size
      BY <1>2
    <3>2. /\ Waiting \in Seq(Event) /\ Len(Waiting) = size
          /\ Waiting[1] = accepted[Freed + 1]
      BY <3>1, Shapes
    <3> QED
      BY <3>1, <3>2
  <2>2. /\ Append(Taken, Waiting[1]) \in Seq(Event) /\ Len(Append(Taken, Waiting[1])) = Freed + 1
        /\ \A i \in 1..Freed : Append(Taken, Waiting[1])[i] = accepted[i]
        /\ Append(Taken, Waiting[1])[Freed + 1] = accepted[Freed + 1]
    <3>1. /\ Taken \in Seq(Event) /\ Len(Taken) = Freed /\ Freed \in Nat
          /\ \A i \in 1..Freed : Taken[i] = accepted[i]
      BY <1>1, Shapes
    <3>2. ASSUME NEW e \in Event
          PROVE  /\ Append(Taken, e) \in Seq(Event) /\ Len(Append(Taken, e)) = Freed + 1
                 /\ \A i \in 1..Freed : Append(Taken, e)[i] = Taken[i]
                 /\ Append(Taken, e)[Freed + 1] = e
      BY <3>1, AppendProperties
    <3> QED
      BY <2>1, <3>1, <3>2
  <2>3. /\ Taken' \in Seq(Event) /\ Len(Taken') = Freed + 1
        /\ \A i \in 1..(Freed + 1) : Taken'[i] = accepted[i]
    <3>1. Taken' = [i \in 1..(Freed + 1) |-> received[i]]
      BY <1>1 DEF Taken
    <3>2. \A i \in 1..(Freed + 1) : received[i] = accepted[i] /\ accepted[i] \in Event
      BY <1>1, Addressing DEF RingInv, Contents
    <3> QED
      BY <1>1, <3>1, <3>2
  <2>4. \A i \in 1..(Freed + 1) : Taken'[i] = Append(Taken, Waiting[1])[i]
    <3> TAKE i \in 1..(Freed + 1)
    <3>1. CASE i = Freed + 1
      BY <2>2, <2>3, <3>1
    <3>2. CASE i # Freed + 1
      <4>1. i \in 1..Freed
        BY <1>1, <3>2
      <4> QED
        BY <2>2, <2>3, <4>1
    <3> QED
      BY <3>1, <3>2
  <2> DEFINE new == Taken'
             old == Append(Taken, Waiting[1])
  <2>5. new \in Seq(Event) /\ old \in Seq(Event) /\ Len(new) = Len(old)
    BY <2>2, <2>3
  <2>6. \A i \in 1..Len(new) : new[i] = old[i]
    BY <2>3, <2>4
  <2> HIDE DEF new, old
  <2>7. new = old
    BY <2>5, <2>6, SeqEqual
  <2> QED
    BY <2>7 DEF new, old
<1>5. Len(Waiting) > 0
  BY <1>1, <1>2, Shapes
<1> QED
  BY <1>3, <1>4, <1>5 DEF Fifo1!Get

(* Every other step leaves the abstract state alone.                       *)
LEMMA OtherStepsStutter ==
  ASSUME RingInv, RingInv', [Next]_vars, ~AddSize, ~SubSize
  PROVE  UNCHANGED Fifo1!vars
<1>1. UNCHANGED accepted
  BY DEF Next, ProducerNext, ConsumerNext, vars, producerVars, consumerVars, control,
     Offer, LoadSize, LoadTail, WriteSlot, StoreTail, Notify, Call, TestSize, Wait, Timeout,
     Recheck, LoadHead, ReadSlot, StoreHead, Shutdown, Terminate
<1>2. /\ Freed' = Freed
      /\ \A i \in 1..Freed : received'[i] = received[i]
  <2>1. CASE ReadSlot
    <3>1. /\ received \in Seq(0..MaxEvents) /\ slots[Rem(headRead)] \in 0..MaxEvents
          /\ pcC = "read" /\ pcC' = "storeHead"
          /\ received' = Append(received, slots[Rem(headRead)])
      BY <2>1 DEF ReadSlot, Running, RingInv, TypeInv, TypeOK
    <3> QED
      BY <3>1 DEF Freed, InFlight
  <2>2. CASE ~ReadSlot
    BY <2>2 DEF Next, ProducerNext, ConsumerNext, vars, producerVars, consumerVars, control,
       Offer, LoadSize, LoadTail, WriteSlot, StoreTail, Notify, Call, TestSize, Wait, Timeout,
       Recheck, LoadHead, StoreHead, Shutdown, Terminate, Running, Freed, InFlight, Goto
  <2> QED
    BY <2>1, <2>2
<1>3. Waiting' = Waiting
  BY <1>1, <1>2 DEF Waiting
<1>4. Taken' = Taken
  BY <1>2 DEF Taken
<1> QED
  BY <1>3, <1>4 DEF Fifo1!vars

(* The ring, step by step, is a bounded FIFO queue.                        *)
THEOREM RingIsFifo == Spec => ImplementsFifo
<1>1. Init => Fifo1!Init
  <2> SUFFICES ASSUME Init PROVE Fifo1!Init
    OBVIOUS
  <2>1. Len(accepted) = 0 /\ Freed = 0
    BY DEF Init, Freed, InFlight
  <2>2. Waiting = << >> /\ Taken = << >>
    BY <2>1 DEF Waiting, Taken
  <2> QED
    BY <2>2 DEF Fifo1!Init
<1>2. RingInv /\ RingInv' /\ [Next]_vars => [Fifo1!Next]_Fifo1!vars
  <2> SUFFICES ASSUME RingInv, RingInv', [Next]_vars PROVE [Fifo1!Next]_Fifo1!vars
    OBVIOUS
  <2>1. CASE AddSize
    <3>1. offered \in Event
      BY <2>1 DEF AddSize, RingInv, TypeInv
    <3>2. Fifo1!Put(offered)
      BY <2>1, AddSizePuts
    <3>3. \E e \in 1..MaxEvents : Fifo1!Put(e)
      BY <3>1, <3>2 DEF Event, Fifo1!Put
    <3> QED
      BY <3>3 DEF Fifo1!Next
  <2>2. CASE SubSize
    BY <2>2, SubSizeGets DEF Fifo1!Next
  <2>3. CASE ~AddSize /\ ~SubSize
    BY <2>3, OtherStepsStutter
  <2> QED
    BY <2>1, <2>2, <2>3
<1> QED
  BY <1>1, <1>2, RingCorrect, PTL DEF Spec, Fifo1!Spec, ImplementsFifo
=============================================================================
