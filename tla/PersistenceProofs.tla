------------------------- MODULE PersistenceProofs -------------------------
(***************************************************************************)
(* Proofs about Persistence for every capacity, batch size, retry bound    *)
(* and number of events: types, the single place of every event, the order *)
(* in which queued events are committed, and what a crash can cost.        *)
(***************************************************************************)
EXTENDS Persistence, SequenceTheorems, FiniteSetTheorems, TLAPS

-----------------------------------------------------------------------------
(* What the three sequence operations of the model do to the set of        *)
(* elements and to the positions.                                          *)

(* Append adds one element, at the end.                                    *)
LEMMA AppendFacts ==
  ASSUME NEW S, NEW s \in Seq(S), NEW e \in S
  PROVE  /\ Append(s, e) \in Seq(S)
         /\ Len(Append(s, e)) = Len(s) + 1
         /\ \A i \in 1..Len(s) : Append(s, e)[i] = s[i]
         /\ Append(s, e)[Len(s) + 1] = e
         /\ Range(Append(s, e)) = Range(s) \union {e}
<1> DEFINE r == Append(s, e)
<1>1. /\ r \in Seq(S) /\ Len(r) = Len(s) + 1 /\ r[Len(s) + 1] = e
      /\ \A i \in 1..Len(s) : r[i] = s[i]
  BY AppendProperties
<1>2. /\ DOMAIN s = 1..Len(s) /\ DOMAIN r = 1..(Len(s) + 1) /\ Len(s) \in Nat
  BY <1>1
<1> HIDE DEF r
<1>3. Range(r) \subseteq Range(s) \union {e}
  <2>1. ASSUME NEW i \in DOMAIN r PROVE r[i] \in Range(s) \union {e}
    <3>1. i \in 1..Len(s) \/ i = Len(s) + 1
      BY <1>2
    <3> QED
      BY <1>1, <1>2, <3>1 DEF Range
  <2> QED
    BY <2>1 DEF Range
<1>4. Range(s) \subseteq Range(r)
  <2>1. ASSUME NEW i \in DOMAIN s PROVE s[i] = r[i] /\ i \in DOMAIN r
    BY <1>1, <1>2
  <2> QED
    BY <2>1 DEF Range
<1>5. e \in Range(r)
  <2>1. Len(s) + 1 \in DOMAIN r
    BY <1>2
  <2> QED
    BY <1>1, <2>1 DEF Range
<1> QED
  BY <1>1, <1>3, <1>4, <1>5 DEF r

(* Concatenation keeps both sequences' elements in their order.            *)
LEMMA ConcatFacts ==
  ASSUME NEW S, NEW s \in Seq(S), NEW t \in Seq(S)
  PROVE  /\ s \o t \in Seq(S)
         /\ Len(s \o t) = Len(s) + Len(t)
         /\ \A i \in 1..(Len(s) + Len(t)) :
              (s \o t)[i] = IF i <= Len(s) THEN s[i] ELSE t[i - Len(s)]
         /\ Range(s \o t) = Range(s) \union Range(t)
<1> DEFINE r == s \o t
<1>1. /\ r \in Seq(S) /\ Len(r) = Len(s) + Len(t)
      /\ \A i \in 1..(Len(s) + Len(t)) : r[i] = IF i <= Len(s) THEN s[i] ELSE t[i - Len(s)]
  BY ConcatProperties
<1>2. /\ DOMAIN s = 1..Len(s) /\ DOMAIN t = 1..Len(t) /\ DOMAIN r = 1..(Len(s) + Len(t))
      /\ Len(s) \in Nat /\ Len(t) \in Nat
  BY <1>1
<1> HIDE DEF r
<1>3. Range(r) \subseteq Range(s) \union Range(t)
  <2>1. ASSUME NEW i \in DOMAIN r
        PROVE  \/ i \in DOMAIN s /\ r[i] = s[i]
               \/ i - Len(s) \in DOMAIN t /\ r[i] = t[i - Len(s)]
    BY <1>1, <1>2
  <2> QED
    BY <2>1 DEF Range
<1>4. Range(s) \subseteq Range(r)
  <2>1. ASSUME NEW i \in DOMAIN s PROVE s[i] = r[i] /\ i \in DOMAIN r
    BY <1>1, <1>2
  <2> QED
    BY <2>1 DEF Range
<1>5. Range(t) \subseteq Range(r)
  <2>1. ASSUME NEW i \in DOMAIN t PROVE t[i] = r[Len(s) + i] /\ Len(s) + i \in DOMAIN r
    BY <1>1, <1>2
  <2> QED
    BY <2>1 DEF Range
<1> QED
  BY <1>1, <1>3, <1>4, <1>5 DEF r

(* Taking the first element leaves the others, in their order.             *)
Rest(s) == [i \in 1..(Len(s) - 1) |-> s[i + 1]]

LEMMA RestFacts ==
  ASSUME NEW S, NEW s \in Seq(S), Len(s) > 0
  PROVE  /\ Rest(s) \in Seq(S)
         /\ Len(Rest(s)) = Len(s) - 1
         /\ \A i \in 1..(Len(s) - 1) : Rest(s)[i] = s[i + 1]
         /\ Head(s) = s[1] /\ s[1] \in S
         /\ Range(s) = {s[1]} \union Range(Rest(s))
<1>1. /\ Len(s) \in Nat /\ DOMAIN s = 1..Len(s) /\ Head(s) = s[1]
      /\ \A i \in 1..Len(s) : s[i] \in S
  OBVIOUS
<1>2. /\ Rest(s) \in Seq(S) /\ Len(Rest(s)) = Len(s) - 1
      /\ DOMAIN Rest(s) = 1..(Len(s) - 1)
      /\ \A i \in 1..(Len(s) - 1) : Rest(s)[i] = s[i + 1]
  BY <1>1 DEF Rest
<1>3. ASSUME NEW i \in DOMAIN s
      PROVE  i = 1 \/ (i - 1 \in DOMAIN Rest(s) /\ Rest(s)[i - 1] = s[i])
  BY <1>1, <1>2
<1>4. ASSUME NEW i \in DOMAIN Rest(s)
      PROVE  i + 1 \in DOMAIN s /\ Rest(s)[i] = s[i + 1]
  BY <1>1, <1>2
<1>5. 1 \in DOMAIN s
  BY <1>1
<1>6. Range(s) = {s[1]} \union Range(Rest(s))
  BY <1>3, <1>4, <1>5 DEF Range
<1> QED
  BY <1>1, <1>2, <1>5, <1>6

(* The empty sequence holds nothing.                                       *)
LEMMA EmptyFacts == Range(<< >>) = {} /\ Len(<< >>) = 0 /\ \A S : << >> \in Seq(S)
BY DEF Range

-----------------------------------------------------------------------------
(* Type correctness, with what the retry counters need: a batch is being   *)
(* appended exactly when an attempt is counted.                            *)
LEMMA TypeInit == Init => PersistTypeOK
<1> SUFFICES ASSUME Init PROVE PersistTypeOK
  OBVIOUS
<1>1. inline \in [Event -> 0..MaxAttempts]
  BY PersistenceAssumption DEF Init
<1>2. << >> \in Seq(Event)
  BY EmptyFacts
<1>3. signalled \in BOOLEAN /\ timer \in BOOLEAN
  BY Zenon DEF Init
<1>4. /\ driver \in {"sqlite", "postgres"} /\ emitted = 0 /\ worker = "booting" /\ attempt = 0
      /\ queue = << >> /\ delivered = << >> /\ batch = << >> /\ stored = << >>
      /\ streamed = {} /\ lost = {} /\ reported = {}
  BY PersistenceAssumption DEF Init, Ring!Init
<1> QED
  BY PersistenceAssumption, <1>1, <1>2, <1>3, <1>4 DEF PersistTypeOK

(* Every step of the three actors keeps the types.                         *)
LEMMA TypeStep == PersistTypeOK /\ [Next]_vars => PersistTypeOK'
<1> SUFFICES ASSUME PersistTypeOK, [Next]_vars PROVE PersistTypeOK'
  OBVIOUS
<1> USE PersistenceAssumption DEF PersistTypeOK, queueVars, workerVars, shutdownVars, outcomeVars
<1>1. ASSUME NEW fits \in BOOLEAN, Enqueue(fits) PROVE PersistTypeOK'
  <2>1. emitted' \in Event /\ emitted' \in 0..MaxEvents
    BY <1>1 DEF Enqueue, Event
  <2>2. queue' \in Seq(Event)
    <3>1. CASE queue' = queue
      BY <3>1
    <3>2. CASE queue' = Append(queue, emitted')
      BY <2>1, <3>2, AppendFacts
    <3> QED
      BY <1>1, <3>1, <3>2 DEF Enqueue, Ring!Put
  <2>3. inline' \in [Event -> 0..MaxAttempts]
    BY <1>1, <2>1 DEF Enqueue
  <2>4. streamed' \subseteq Event /\ lost' \subseteq Event /\ reported' \subseteq Event
    BY <1>1, <2>1 DEF Enqueue
  <2>5. delivered' = delivered
    BY <1>1 DEF Enqueue, Ring!Put
  <2> QED
    BY <1>1, <2>1, <2>2, <2>3, <2>4, <2>5 DEF Enqueue
<1>2. ASSUME NEW e \in Event, InlineStep(e) PROVE PersistTypeOK'
  <2>1. CASE InlineCommits(e)
    <3>1. stored' \in Seq(Event)
      BY <2>1, AppendFacts DEF InlineCommits
    <3> QED
      BY <2>1, <3>1 DEF InlineCommits
  <2>2. CASE InlineRetries(e)
    BY <2>2 DEF InlineRetries
  <2>3. CASE InlineFails(e)
    <3>1. Append(stored, e) \in Seq(Event)
      BY AppendFacts
    <3>2. stored' = stored \/ stored' = Append(stored, e)
      BY <2>3 DEF InlineFails
    <3>3. stored' \in Seq(Event)
      BY <3>1, <3>2
    <3>4. streamed' \subseteq Event /\ lost' \subseteq Event /\ reported' \subseteq Event
      BY <2>3 DEF InlineFails
    <3> QED
      BY <2>3, <3>3, <3>4 DEF InlineFails
  <2> QED
    BY <1>2, <2>1, <2>2, <2>3 DEF InlineStep
<1>3. CASE Boot \/ BootFails
  BY <1>3 DEF Boot, BootFails
<1>4. CASE Dequeue
  <2>1. queue' = Rest(queue) /\ delivered' = Append(delivered, queue[1]) /\ Len(queue) > 0
    BY <1>4 DEF Dequeue, Ring!Get, Rest
  <2>2. queue' \in Seq(Event) /\ delivered' \in Seq(Event) /\ batch' \in Seq(Event)
    BY <1>4, <2>1, RestFacts, AppendFacts DEF Dequeue
  <2> QED
    BY <1>4, <2>2 DEF Dequeue
<1>5. CASE Submit \/ BatchRetries
  <2>1. /\ worker' = "appending" /\ attempt' \in 1..MaxAttempts
        /\ UNCHANGED <<driver, emitted, queue, delivered, batch, inline, stored, streamed, lost,
                       reported>>
    BY <1>5 DEF Submit, BatchRetries
  <2> QED
    BY <1>5, <2>1 DEF Submit, BatchRetries
<1>6. CASE BatchCommits
  <2>1. stored' \in Seq(Event)
    BY <1>6, ConcatFacts DEF BatchCommits
  <2> QED
    BY <1>6, <2>1, EmptyFacts DEF BatchCommits, BatchDone
<1>7. CASE BatchFails
  <2>1. Range(batch) \subseteq Event
    BY DEF Range
  <2>2. stored' \in Seq(Event)
    <3>1. stored \o batch \in Seq(Event)
      BY ConcatFacts
    <3>2. stored' = stored \/ stored' = stored \o batch
      BY <1>7 DEF BatchFails
    <3> QED
      BY <3>1, <3>2
  <2>3. /\ lost' \subseteq Event /\ reported' \subseteq Event
        /\ batch' = << >> /\ attempt' = 0 /\ worker' = "dequeuing"
        /\ UNCHANGED <<driver, emitted, queue, delivered, inline, streamed, signalled, timer>>
    BY <1>7, <2>1 DEF BatchFails, BatchDone
  <2> QED
    BY <2>2, <2>3, EmptyFacts
<1>8. CASE Shutdown
  BY <1>8 DEF Shutdown
<1>9. CASE EndsRolledBack
  <2>1. Range(batch) \subseteq Event
    BY DEF Range
  <2>2. timer' \in BOOLEAN /\ signalled' \in BOOLEAN
    BY <1>9, Zenon DEF EndsRolledBack, ThreadEnds
  <2>3. /\ worker' = "exited" /\ batch' = << >> /\ attempt' = 0
        /\ UNCHANGED <<driver, emitted, queue, delivered, inline, streamed, stored, reported>>
        /\ lost' = lost \union Range(batch)
    BY <1>9 DEF EndsRolledBack, ThreadEnds
  <2> QED
    BY <2>1, <2>2, <2>3, EmptyFacts
<1>11. CASE EndsCommitted
  <2>1. stored' \in Seq(Event)
    BY <1>11, ConcatFacts DEF EndsCommitted
  <2>2. timer' \in BOOLEAN /\ signalled' \in BOOLEAN
    BY <1>11, Zenon DEF EndsCommitted, ThreadEnds
  <2>3. /\ worker' = "exited" /\ batch' = << >> /\ attempt' = 0
        /\ UNCHANGED <<driver, emitted, queue, delivered, inline, streamed, lost, reported>>
    BY <1>11 DEF EndsCommitted, ThreadEnds
  <2> QED
    BY <2>1, <2>2, <2>3, EmptyFacts
<1>10. CASE UNCHANGED vars
  BY <1>10 DEF vars
<1> QED
  BY <1>1, <1>2, <1>3, <1>4, <1>5, <1>6, <1>7, <1>8, <1>9, <1>10, <1>11
  DEF Next, WorkerStep, ShutdownMessage, ForceTerminate

(* The types of PersistTypeOK hold in every state.                         *)
THEOREM PersistTypeCorrect == Spec => []PersistTypeOK
<1> QED
  BY TypeInit, TypeStep, PTL DEF Spec

-----------------------------------------------------------------------------
(* The single place of an event.  The five places partition the emitted    *)
(* events, and no place holds an event twice: queue and batch because they *)
(* are increasing, the table because what is appended was never in it.     *)
Queued == Range(queue)
Batched == Range(batch)
Flying == {e \in Event : inline[e] > 0}
Stored == Range(stored)

Partition(A, B, C, D, E, All) ==
  /\ All = A \union B \union C \union D \union E
  /\ A \intersect B = {} /\ A \intersect C = {} /\ A \intersect D = {} /\ A \intersect E = {}
  /\ B \intersect C = {} /\ B \intersect D = {} /\ B \intersect E = {}
  /\ C \intersect D = {} /\ C \intersect E = {}
  /\ D \intersect E = {}

(* An element moved from the third place to the fourth or to the fifth.    *)
LEMMA PartitionMove ==
  ASSUME NEW A, NEW B, NEW C, NEW D, NEW E, NEW All, NEW e \in C,
         Partition(A, B, C, D, E, All)
  PROVE  /\ Partition(A, B, C \ {e}, D \union {e}, E, All)
         /\ Partition(A, B, C \ {e}, D, E \union {e}, All)
<1>1. All = A \union B \union (C \ {e}) \union (D \union {e}) \union E
  BY DEF Partition
<1>2. All = A \union B \union (C \ {e}) \union D \union (E \union {e})
  BY DEF Partition
<1>3. e \notin A /\ e \notin B /\ e \notin D /\ e \notin E
  BY DEF Partition
<1>4. /\ A \intersect (D \union {e}) = {} /\ A \intersect (E \union {e}) = {}
      /\ B \intersect (D \union {e}) = {} /\ B \intersect (E \union {e}) = {}
      /\ D \intersect (E \union {e}) = {} /\ (D \union {e}) \intersect E = {}
  BY <1>3 DEF Partition
<1>5. /\ A \intersect (C \ {e}) = {} /\ B \intersect (C \ {e}) = {}
      /\ (C \ {e}) \intersect D = {} /\ (C \ {e}) \intersect E = {}
      /\ (C \ {e}) \intersect (D \union {e}) = {}
      /\ (C \ {e}) \intersect (E \union {e}) = {}
  BY DEF Partition
<1> QED
  BY <1>1, <1>2, <1>4, <1>5 DEF Partition

Increasing(s) == \A i, j \in 1..Len(s) : i < j => s[i] < s[j]

PlacesInv ==
  /\ PersistTypeOK
  /\ Partition(Queued, Batched, Flying, Stored, lost, 1..emitted)
  /\ Increasing(queue)
  /\ Increasing(batch)
  /\ Range(delivered) \subseteq 1..emitted
  /\ \A d \in Range(delivered), q \in Queued : d < q
  /\ Batched \subseteq Range(delivered)
  /\ IsInjective(stored)

(* Sequences of events are sequences of integers.                          *)
LEMMA EventsAreIntegers == ASSUME NEW s \in Seq(Event) PROVE s \in Seq(Int)
<1>1. Event \subseteq Int
  BY DEF Event
<1> QED
  BY <1>1, SeqMonotonic

(* Nothing is anywhere before the first enqueue.                           *)
LEMMA PlacesInit == Init => PlacesInv
<1> SUFFICES ASSUME Init PROVE PlacesInv
  OBVIOUS
<1>1. PersistTypeOK
  BY TypeInit
<1>2. /\ queue = << >> /\ delivered = << >> /\ batch = << >> /\ stored = << >>
      /\ lost = {} /\ emitted = 0
  BY DEF Init, Ring!Init
<1>3. Queued = {} /\ Batched = {} /\ Stored = {} /\ Range(delivered) = {}
  BY <1>2, EmptyFacts DEF Queued, Batched, Stored
<1>4. Flying = {}
  BY DEF Flying, Init
<1>5. 1..emitted = {}
  BY <1>2
<1>6. IsInjective(stored)
  BY <1>2 DEF IsInjective
<1>7. Increasing(queue) /\ Increasing(batch)
  BY <1>2, EmptyFacts DEF Increasing
<1> QED
  BY <1>1, <1>2, <1>3, <1>4, <1>5, <1>6, <1>7 DEF PlacesInv, Partition

(* An event that is appended to an increasing sequence of smaller ones.    *)
LEMMA IncreasingAppend ==
  ASSUME NEW s \in Seq(Int), NEW e \in Int, Increasing(s), \A x \in Range(s) : x < e
  PROVE  Increasing(Append(s, e))
<1> DEFINE r == Append(s, e)
<1>1. /\ Len(r) = Len(s) + 1 /\ r[Len(s) + 1] = e /\ \A i \in 1..Len(s) : r[i] = s[i]
      /\ Len(s) \in Nat
  BY AppendFacts
<1>2. \A i \in 1..Len(s) : s[i] < e
  BY DEF Range
<1> HIDE DEF r
<1>3. SUFFICES ASSUME NEW i \in 1..Len(r), NEW j \in 1..Len(r), i < j PROVE r[i] < r[j]
  BY DEF Increasing, r
<1>4. i \in 1..Len(s) /\ (j \in 1..Len(s) \/ j = Len(s) + 1)
  <2>1. i \in 1..(Len(s) + 1) /\ j \in 1..(Len(s) + 1)
    BY <1>1, <1>3
  <2> QED
    BY <1>1, <1>3, <2>1
<1> QED
  BY <1>1, <1>2, <1>3, <1>4 DEF Increasing

(* What is left of an increasing sequence is increasing, and above what    *)
(* was taken.                                                              *)
LEMMA IncreasingRest ==
  ASSUME NEW s \in Seq(Int), Len(s) > 0, Increasing(s)
  PROVE  Increasing(Rest(s)) /\ \A x \in Range(Rest(s)) : s[1] < x
<1>1. /\ Len(Rest(s)) = Len(s) - 1 /\ Len(s) \in Nat /\ Rest(s) \in Seq(Int)
      /\ \A i \in 1..(Len(s) - 1) : Rest(s)[i] = s[i + 1]
  BY RestFacts
<1>2. Increasing(Rest(s))
  <2>1. SUFFICES ASSUME NEW i \in 1..(Len(s) - 1), NEW j \in 1..(Len(s) - 1), i < j
                 PROVE  s[i + 1] < s[j + 1]
    BY <1>1 DEF Increasing
  <2>2. i + 1 \in 1..Len(s) /\ j + 1 \in 1..Len(s) /\ i + 1 < j + 1
    BY <1>1, <2>1
  <2> QED
    BY <2>2 DEF Increasing
<1>3. ASSUME NEW i \in 1..(Len(s) - 1) PROVE s[1] < s[i + 1]
  <2>1. 1 \in 1..Len(s) /\ i + 1 \in 1..Len(s) /\ 1 < i + 1
    BY <1>1
  <2> QED
    BY <2>1 DEF Increasing
<1>4. \A i \in DOMAIN Rest(s) : s[1] < Rest(s)[i]
  <2>1. DOMAIN Rest(s) = 1..(Len(s) - 1)
    BY DEF Rest
  <2> QED
    BY <1>1, <1>3, <2>1
<1>5. \A x \in Range(Rest(s)) : s[1] < x
  BY <1>4 DEF Range
<1> QED
  BY <1>2, <1>5

(* Two injective sequences without a common element, one after the other.  *)
LEMMA InjectiveConcat ==
  ASSUME NEW s \in Seq(Int), NEW t \in Seq(Int), IsInjective(s), IsInjective(t),
         Range(s) \intersect Range(t) = {}
  PROVE  IsInjective(s \o t)
<1> DEFINE r == s \o t
<1>1. /\ DOMAIN r = 1..(Len(s) + Len(t)) /\ DOMAIN s = 1..Len(s) /\ DOMAIN t = 1..Len(t)
      /\ \A i \in 1..(Len(s) + Len(t)) : r[i] = IF i <= Len(s) THEN s[i] ELSE t[i - Len(s)]
      /\ Len(s) \in Nat /\ Len(t) \in Nat
  <2>1. r \in Seq(Int) /\ Len(r) = Len(s) + Len(t)
    BY ConcatFacts
  <2>2. DOMAIN r = 1..Len(r) /\ DOMAIN s = 1..Len(s) /\ DOMAIN t = 1..Len(t)
        /\ Len(s) \in Nat /\ Len(t) \in Nat
    BY <2>1
  <2>3. \A i \in 1..(Len(s) + Len(t)) : r[i] = IF i <= Len(s) THEN s[i] ELSE t[i - Len(s)]
    BY ConcatFacts
  <2> QED
    BY <2>1, <2>2, <2>3
<1> HIDE DEF r
<1>2. \A i \in DOMAIN s, j \in DOMAIN t : s[i] # t[j]
  BY DEF Range
<1>3. SUFFICES ASSUME NEW a \in DOMAIN r, NEW b \in DOMAIN r, r[a] = r[b] PROVE a = b
  BY DEF IsInjective, r
<1>4. CASE a <= Len(s) /\ b <= Len(s)
  BY <1>1, <1>3, <1>4 DEF IsInjective
<1>5. CASE a > Len(s) /\ b > Len(s)
  <2>1. /\ a - Len(s) \in DOMAIN t /\ b - Len(s) \in DOMAIN t
        /\ t[a - Len(s)] = t[b - Len(s)] /\ a \in Int /\ b \in Int
    <3>1. /\ a \in 1..(Len(s) + Len(t)) /\ b \in 1..(Len(s) + Len(t))
          /\ ~(a <= Len(s)) /\ ~(b <= Len(s))
      BY <1>1, <1>5
    <3>2. r[a] = t[a - Len(s)] /\ r[b] = t[b - Len(s)]
      BY <1>1, <3>1
    <3>3. a - Len(s) \in 1..Len(t) /\ b - Len(s) \in 1..Len(t) /\ a \in Int /\ b \in Int
      BY <1>1, <3>1
    <3> QED
      BY <1>1, <1>3, <3>2, <3>3
  <2>2. a - Len(s) = b - Len(s)
    BY <2>1 DEF IsInjective
  <2> QED
    BY <1>1, <2>1, <2>2
<1>6. CASE a <= Len(s) /\ b > Len(s)
  <2>1. a \in DOMAIN s /\ b - Len(s) \in DOMAIN t /\ s[a] = t[b - Len(s)]
    BY <1>1, <1>3, <1>6
  <2> QED
    BY <1>2, <2>1
<1>7. CASE a > Len(s) /\ b <= Len(s)
  <2>1. b \in DOMAIN s /\ a - Len(s) \in DOMAIN t /\ s[b] = t[a - Len(s)]
    BY <1>1, <1>3, <1>7
  <2> QED
    BY <1>2, <2>1
<1> QED
  BY <1>1, <1>4, <1>5, <1>6, <1>7

(* A sequence that increases repeats nothing.                              *)
LEMMA IncreasingInjective ==
  ASSUME NEW s \in Seq(Int), Increasing(s) PROVE IsInjective(s)
<1>1. DOMAIN s = 1..Len(s) /\ Len(s) \in Nat /\ \A i \in DOMAIN s : s[i] \in Int
  OBVIOUS
<1>2. SUFFICES ASSUME NEW a \in DOMAIN s, NEW b \in DOMAIN s, s[a] = s[b], a # b PROVE FALSE
  BY DEF IsInjective
<1>3. a < b \/ b < a
  BY <1>1, <1>2
<1> QED
  BY <1>1, <1>2, <1>3 DEF Increasing

(* A step that moves no event and takes none from the queue.               *)
LEMMA PlacesStutter ==
  PlacesInv /\ PersistTypeOK' /\ UNCHANGED <<emitted, queue, delivered, batch, stored, lost>>
    /\ Flying' = Flying
  => PlacesInv'
BY DEF PlacesInv, Partition, Queued, Batched, Stored, Increasing, IsInjective

(* A step that appends the batch to the table or gives it up, and empties  *)
(* it.                                                                     *)
LEMMA PlacesBatchEnds ==
  PlacesInv /\ PersistTypeOK' /\ UNCHANGED <<emitted, queue, delivered, inline>>
    /\ batch' = << >>
    /\ \/ stored' = stored \o batch /\ lost' = lost
       \/ stored' = stored /\ lost' = lost \union Range(batch)
  => PlacesInv'
<1> SUFFICES ASSUME PlacesInv, PersistTypeOK',
                    UNCHANGED <<emitted, queue, delivered, inline>>, batch' = << >>,
                    \/ stored' = stored \o batch /\ lost' = lost
                    \/ stored' = stored /\ lost' = lost \union Range(batch)
             PROVE  PlacesInv'
  OBVIOUS
<1>1. stored \in Seq(Int) /\ batch \in Seq(Int)
  BY EventsAreIntegers DEF PlacesInv, PersistTypeOK
<1>2. /\ Queued' = Queued /\ Flying' = Flying /\ Batched' = {}
      /\ Range(delivered)' = Range(delivered) /\ (1..emitted)' = 1..emitted
  BY EmptyFacts DEF Queued, Flying, Batched
<1>3. \/ Stored' = Stored \union Batched /\ lost' = lost
      \/ Stored' = Stored /\ lost' = lost \union Batched
  <2>1. Range(stored \o batch) = Stored \union Batched
    BY <1>1, ConcatFacts DEF Stored, Batched
  <2> QED
    BY <2>1 DEF Stored, Batched
<1>4. Partition(Queued, Batched, Flying, Stored, lost, 1..emitted)'
  BY <1>2, <1>3 DEF PlacesInv, Partition
<1>5. IsInjective(stored)'
  <2>1. IsInjective(batch) /\ IsInjective(stored) /\ Range(stored) \intersect Range(batch) = {}
    BY <1>1, IncreasingInjective DEF PlacesInv, Partition, Stored, Batched
  <2>2. IsInjective(stored \o batch)
    BY <1>1, <2>1, InjectiveConcat
  <2>3. CASE stored' = stored
    BY <2>1, <2>3
  <2>4. CASE stored' = stored \o batch
    BY <2>2, <2>4
  <2> QED
    BY <2>3, <2>4
<1>6. Increasing(queue)' /\ Increasing(batch)'
  <2>1. Increasing(batch')
    BY EmptyFacts DEF Increasing
  <2>2. Increasing(queue')
    BY DEF PlacesInv
  <2> QED
    BY <2>1, <2>2 DEF Increasing
<1> QED
  BY <1>2, <1>4, <1>5, <1>6 DEF PlacesInv

(* Every step moves an event from one place to another, or adds a new one. *)
LEMMA PlacesStep == PlacesInv /\ [Next]_vars => PlacesInv'
<1> SUFFICES ASSUME PlacesInv, [Next]_vars PROVE PlacesInv'
  OBVIOUS
<1> USE DEF queueVars, workerVars, shutdownVars, outcomeVars
<1>0. PersistTypeOK /\ PersistTypeOK'
  BY TypeStep DEF PlacesInv
<1>1. /\ queue \in Seq(Event) /\ batch \in Seq(Event) /\ delivered \in Seq(Event)
      /\ stored \in Seq(Event) /\ inline \in [Event -> 0..MaxAttempts]
      /\ queue \in Seq(Int) /\ batch \in Seq(Int) /\ stored \in Seq(Int)
      /\ emitted \in Nat /\ Event \subseteq Int
  BY <1>0, EventsAreIntegers DEF PersistTypeOK, Event
<1>2. /\ Range(queue) \subseteq Event /\ Range(delivered) \subseteq Event
      /\ Range(stored) \subseteq Event /\ Range(batch) \subseteq Event
  BY <1>1 DEF Range
<1>3. ASSUME NEW fits \in BOOLEAN, Enqueue(fits) PROVE PlacesInv'
  <2>1. /\ emitted' = emitted + 1 /\ emitted' \in Event /\ emitted' \notin 1..emitted
        /\ 1..emitted' = (1..emitted) \union {emitted'}
        /\ UNCHANGED <<delivered, batch, stored>>
    BY <1>0, <1>1, <1>3, SMTT(20) DEF Enqueue, Ring!Put, PersistTypeOK, Event
  <2>2. /\ Batched' = Batched /\ Stored' = Stored /\ Range(delivered)' = Range(delivered)
        /\ IsInjective(stored)' /\ Increasing(batch)'
    BY <2>1 DEF Batched, Stored, PlacesInv, IsInjective, Increasing
  <2>3. \A q \in Queued \union Range(delivered) : q < emitted'
    BY <1>1, <2>1 DEF PlacesInv, Partition
  <2>4. CASE lost' = lost \union {emitted'} /\ UNCHANGED <<queue, inline>>
    <3>1. Queued' = Queued /\ Flying' = Flying /\ Increasing(queue)'
      BY <2>4 DEF Queued, Flying, PlacesInv, Increasing
    <3>2. Partition(Queued, Batched, Flying, Stored, lost, 1..emitted)'
      BY <2>1, <2>2, <2>4, <3>1 DEF PlacesInv, Partition
    <3> QED
      BY <1>0, <2>1, <2>2, <3>1, <3>2 DEF PlacesInv
  <2>5. CASE inline' = [inline EXCEPT ![emitted'] = 1] /\ UNCHANGED <<queue, lost>>
    <3>1. Queued' = Queued /\ Increasing(queue)'
      BY <2>5 DEF Queued, PlacesInv, Increasing
    <3>2. Flying' = Flying \union {emitted'}
      BY <1>1, <2>1, <2>5 DEF Flying
    <3>3. Partition(Queued, Batched, Flying, Stored, lost, 1..emitted)'
      BY <2>1, <2>2, <2>5, <3>1, <3>2 DEF PlacesInv, Partition
    <3> QED
      BY <1>0, <2>1, <2>2, <3>1, <3>3 DEF PlacesInv
  <2>6. CASE queue' = Append(queue, emitted') /\ UNCHANGED <<inline, lost>>
    <3>1. Queued' = Queued \union {emitted'} /\ Flying' = Flying
      BY <1>1, <2>1, <2>6, AppendFacts DEF Queued, Flying
    <3>2. Increasing(queue')
      BY <1>1, <2>1, <2>3, <2>6, IncreasingAppend DEF Queued, PlacesInv
    <3>3. Partition(Queued, Batched, Flying, Stored, lost, 1..emitted)'
      BY <2>1, <2>2, <2>6, <3>1 DEF PlacesInv, Partition
    <3>4. \A d \in Range(delivered)', q \in Queued' : d < q
      BY <2>2, <2>3, <3>1 DEF PlacesInv
    <3>5. Increasing(queue)'
      BY <3>2 DEF Increasing
    <3>6. Range(delivered)' \subseteq (1..emitted)' /\ Batched' \subseteq Range(delivered)'
      BY <2>1, <2>2 DEF PlacesInv
    <3> QED
      BY <1>0, <2>2, <3>3, <3>4, <3>5, <3>6 DEF PlacesInv
  <2> QED
    BY <1>3, <2>4, <2>5, <2>6 DEF Enqueue, Ring!Put
<1>4. ASSUME NEW e \in Event, InlineStep(e) PROVE PlacesInv'
  <2>0. UNCHANGED <<emitted, queue, delivered, batch>>
    BY <1>4 DEF InlineStep, InlineCommits, InlineRetries, InlineFails
  <2>1. /\ Queued' = Queued /\ Batched' = Batched /\ Range(delivered)' = Range(delivered)
        /\ Increasing(queue)' /\ Increasing(batch)' /\ (1..emitted)' = 1..emitted
    BY <2>0 DEF Queued, Batched, PlacesInv, Increasing
  <2>2. CASE InlineRetries(e)
    <3>1. Flying' = Flying
      BY <1>1, <2>2 DEF InlineRetries, Flying
    <3>2. UNCHANGED <<stored, lost>>
      BY <2>2 DEF InlineRetries
    <3> QED
      BY <1>0, <2>0, <3>1, <3>2, PlacesStutter
  <2>3. CASE InlineCommits(e) \/ InlineFails(e)
    <3>1. e \in Flying /\ inline' = [inline EXCEPT ![e] = 0]
      BY <2>3 DEF InlineCommits, InlineFails, Flying
    <3>2. Flying' = Flying \ {e}
      BY <1>1, <3>1 DEF Flying
    <3>3. e \notin Range(stored)
      BY <3>1 DEF PlacesInv, Partition, Stored
    <3>4. \/ stored' = Append(stored, e) /\ Stored' = Stored \union {e} /\ lost' = lost
          \/ stored' = stored /\ Stored' = Stored /\ lost' = lost \union {e}
      <4>1. CASE stored' = Append(stored, e) /\ lost' = lost
        <5>2. Range(Append(stored, e)) = Range(stored) \union {e}
          BY <1>1, AppendFacts
        <5> QED
          BY <4>1, <5>2 DEF Stored
      <4>2. CASE stored' = stored /\ lost' = lost \union {e}
        BY <4>2 DEF Stored
      <4> QED
        BY <2>3, <4>1, <4>2 DEF InlineCommits, InlineFails
    <3>5. Partition(Queued, Batched, Flying, Stored, lost, 1..emitted)'
      <4>1. Partition(Queued, Batched, Flying, Stored, lost, 1..emitted)
        BY DEF PlacesInv
      <4>2. CASE Stored' = Stored \union {e} /\ lost' = lost
        BY <2>1, <3>1, <3>2, <4>1, <4>2, PartitionMove
      <4>3. CASE Stored' = Stored /\ lost' = lost \union {e}
        BY <2>1, <3>1, <3>2, <4>1, <4>3, PartitionMove
      <4> QED
        BY <3>4, <4>2, <4>3
    <3>6. IsInjective(stored')
      <4>1. CASE stored' = stored
        BY <4>1 DEF PlacesInv
      <4>2. CASE stored' = Append(stored, e)
        <5>1. Append(stored, e) = stored \o <<e>> /\ <<e>> \in Seq(Int)
          BY <1>1, AppendIsConcat
        <5>2. Range(<<e>>) = {e} /\ IsInjective(<<e>>)
          BY DEF Range, IsInjective
        <5> QED
          BY <1>1, <3>3, <4>2, <5>1, <5>2, InjectiveConcat DEF PlacesInv
      <4> QED
        BY <3>4, <4>1, <4>2
    <3> QED
      BY <1>0, <2>1, <3>5, <3>6 DEF PlacesInv, IsInjective
  <2> QED
    BY <1>4, <2>2, <2>3 DEF InlineStep
<1>5. CASE Boot \/ BootFails \/ Submit \/ BatchRetries \/ Shutdown \/ UNCHANGED vars
  <2>1. UNCHANGED <<emitted, queue, delivered, batch, stored, lost, inline>>
    BY <1>5 DEF Boot, BootFails, Submit, BatchRetries, Shutdown, vars
  <2> QED
    BY <1>0, <2>1, PlacesStutter DEF Flying
<1>6. CASE Dequeue
  <2>1. /\ Len(queue) > 0 /\ queue' = Rest(queue) /\ Head(queue) = queue[1]
        /\ delivered' = Append(delivered, queue[1]) /\ batch' = Append(batch, queue[1])
        /\ UNCHANGED <<emitted, stored, lost, inline>>
    BY <1>1, <1>6, RestFacts DEF Dequeue, Ring!Get, Rest
  <2>2. /\ Queued = {queue[1]} \union Queued' /\ queue[1] \in Event
        /\ Range(delivered)' = Range(delivered) \union {queue[1]}
        /\ Batched' = Batched \union {queue[1]}
        /\ Stored' = Stored /\ Flying' = Flying /\ (1..emitted)' = 1..emitted
    BY <1>1, <2>1, RestFacts, AppendFacts DEF Queued, Batched, Stored, Flying
  <2>3. Increasing(queue') /\ \A q \in Queued' : queue[1] < q
    BY <1>1, <2>1, IncreasingRest DEF PlacesInv, Queued
  <2>4. queue[1] \notin Queued'
    <3>1. queue[1] \in Int
      BY <2>2 DEF Event
    <3>2. ~(queue[1] < queue[1])
      BY <3>1
    <3> QED
      BY <2>3, <3>2
  <2>5. Partition(Queued, Batched, Flying, Stored, lost, 1..emitted)'
    BY <2>1, <2>2, <2>4 DEF PlacesInv, Partition
  <2>6. Increasing(batch')
    <3>1. \A b \in Range(batch) : b < queue[1]
      BY <2>2 DEF PlacesInv, Batched
    <3> QED
      BY <1>1, <2>1, <2>2, <3>1, IncreasingAppend DEF PlacesInv
  <2>7. /\ Range(delivered)' \subseteq (1..emitted)' /\ Batched' \subseteq Range(delivered)'
        /\ \A d \in Range(delivered)', q \in Queued' : d < q
    <3>1. queue[1] \in 1..emitted /\ \A d \in Range(delivered), q \in Queued' : d < q
      BY <2>2 DEF PlacesInv, Partition
    <3> QED
      BY <2>2, <2>3, <3>1 DEF PlacesInv
  <2>8. Increasing(queue)' /\ Increasing(batch)' /\ IsInjective(stored)'
    BY <2>1, <2>3, <2>6 DEF Increasing, IsInjective, PlacesInv
  <2> QED
    BY <1>0, <2>5, <2>7, <2>8 DEF PlacesInv
<1>7. CASE BatchCommits \/ BatchFails \/ EndsRolledBack \/ EndsCommitted
  <2>1. /\ UNCHANGED <<emitted, queue, delivered, inline>> /\ batch' = << >>
        /\ \/ stored' = stored \o batch /\ lost' = lost
           \/ stored' = stored /\ lost' = lost \union Range(batch)
    BY <1>7 DEF BatchCommits, BatchFails, BatchDone, EndsRolledBack, EndsCommitted, ThreadEnds
  <2> QED
    BY <1>0, <2>1, PlacesBatchEnds
<1> QED
  BY <1>3, <1>4, <1>5, <1>6, <1>7 DEF Next, WorkerStep, ShutdownMessage, ForceTerminate

(* The partition, as the property states it.                               *)
LEMMA PlacesAreUnique == PlacesInv => OnePlaceEach
<1> SUFFICES ASSUME PlacesInv PROVE OnePlaceEach
  OBVIOUS
<1>1. ASSUME NEW e \in 1..emitted
      PROVE  \E p \in Places : {q \in Places : Holds(q, e)} = {p}
  <2>1. e \in Event
    BY PersistenceAssumption DEF PlacesInv, PersistTypeOK, Event
  <2>2. /\ Holds("queue", e) <=> e \in Queued
        /\ Holds("batch", e) <=> e \in Batched
        /\ Holds("inline", e) <=> e \in Flying
        /\ Holds("stored", e) <=> e \in Stored
        /\ Holds("lost", e) <=> e \in lost
    BY <2>1 DEF Holds, Queued, Batched, Flying, Stored
  <2>3. Partition(Queued, Batched, Flying, Stored, lost, 1..emitted)
    BY DEF PlacesInv
  <2>4. \/ {q \in Places : Holds(q, e)} = {"queue"}
        \/ {q \in Places : Holds(q, e)} = {"batch"}
        \/ {q \in Places : Holds(q, e)} = {"inline"}
        \/ {q \in Places : Holds(q, e)} = {"stored"}
        \/ {q \in Places : Holds(q, e)} = {"lost"}
    BY <2>2, <2>3 DEF Places, Partition
  <2> QED
    BY <2>4 DEF Places
<1> QED
  BY <1>1 DEF OnePlaceEach, PlacesInv

-----------------------------------------------------------------------------
(* The order of the queued events.  What was taken from the queue is in    *)
(* the batch, stored or given up, so an inline append is never one of      *)
(* them; and what was stored precedes what is in the batch.                *)
OrderInv ==
  /\ PlacesInv
  /\ Range(delivered) \subseteq Batched \union Stored \union lost
  /\ \A s \in Stored \intersect Range(delivered), b \in Batched : s < b
  /\ QueuedStoredInOrder

(* The empty table is in order.                                            *)
LEMMA OrderInit == Init => OrderInv
<1> SUFFICES ASSUME Init PROVE OrderInv
  OBVIOUS
<1>1. stored = << >> /\ delivered = << >>
  BY DEF Init, Ring!Init
<1>2. Range(delivered) = {} /\ DOMAIN stored = {}
  BY <1>1, EmptyFacts
<1> QED
  BY <1>2, PlacesInit DEF OrderInv, QueuedStoredInOrder

(* A batch after a table whose queued events precede it.                   *)
LEMMA ConcatInOrder ==
  ASSUME OrderInv PROVE
    \A i, j \in DOMAIN (stored \o batch) :
      i < j /\ {(stored \o batch)[i], (stored \o batch)[j]} \subseteq Range(delivered)
        => (stored \o batch)[i] < (stored \o batch)[j]
<1> DEFINE r == stored \o batch
           n == Len(stored)
<1>1. stored \in Seq(Event) /\ batch \in Seq(Event)
  BY DEF OrderInv, PlacesInv, PersistTypeOK
<1>2. /\ DOMAIN r = 1..(n + Len(batch)) /\ DOMAIN stored = 1..n /\ DOMAIN batch = 1..Len(batch)
      /\ n \in Nat /\ Len(batch) \in Nat
      /\ \A i \in 1..(n + Len(batch)) : r[i] = IF i <= n THEN stored[i] ELSE batch[i - n]
  <2>1. /\ r \in Seq(Event) /\ Len(r) = n + Len(batch)
        /\ \A i \in 1..(n + Len(batch)) : r[i] = IF i <= n THEN stored[i] ELSE batch[i - n]
    BY <1>1, ConcatFacts
  <2> QED
    BY <1>1, <2>1
<1> HIDE DEF r, n
<1>3. SUFFICES ASSUME NEW i \in DOMAIN r, NEW j \in DOMAIN r, i < j,
                      r[i] \in Range(delivered), r[j] \in Range(delivered)
               PROVE  r[i] < r[j]
  BY DEF r
<1>4. CASE j <= n
  <2>1. i \in DOMAIN stored /\ j \in DOMAIN stored /\ r[i] = stored[i] /\ r[j] = stored[j]
    BY <1>2, <1>3, <1>4
  <2> QED
    BY <1>3, <2>1 DEF OrderInv, QueuedStoredInOrder
<1>5. CASE i <= n /\ j > n
  <2>1. /\ i \in DOMAIN stored /\ j - n \in DOMAIN batch
        /\ r[i] = stored[i] /\ r[j] = batch[j - n]
    BY <1>2, <1>3, <1>5
  <2>2. r[i] \in Stored /\ r[j] \in Batched
    BY <2>1 DEF Stored, Batched, Range
  <2> QED
    BY <1>3, <2>2 DEF OrderInv
<1>6. CASE i > n
  <2>1. /\ i - n \in 1..Len(batch) /\ j - n \in 1..Len(batch) /\ i - n < j - n
        /\ r[i] = batch[i - n] /\ r[j] = batch[j - n]
    BY <1>2, <1>3, <1>6
  <2> QED
    BY <2>1 DEF OrderInv, PlacesInv, Increasing
<1> QED
  BY <1>2, <1>3, <1>4, <1>5, <1>6

(* Every step keeps the queued events in order.                            *)
LEMMA OrderStep == OrderInv /\ [Next]_vars => OrderInv'
<1> SUFFICES ASSUME OrderInv, [Next]_vars PROVE OrderInv'
  OBVIOUS
<1> USE DEF queueVars, workerVars, shutdownVars, outcomeVars
<1>0. PlacesInv /\ PlacesInv'
  BY PlacesStep DEF OrderInv
<1>1. /\ queue \in Seq(Event) /\ batch \in Seq(Event) /\ delivered \in Seq(Event)
      /\ stored \in Seq(Event)
  BY <1>0 DEF PlacesInv, PersistTypeOK
<1>2. CASE /\ UNCHANGED <<delivered, batch, stored>>
           /\ lost \subseteq lost'
  BY <1>0, <1>2 DEF OrderInv, Batched, Stored, QueuedStoredInOrder
<1>3. ASSUME NEW e \in Event, InlineCommits(e) \/ InlineFails(e), stored' = Append(stored, e),
             UNCHANGED lost
      PROVE  OrderInv'
  <2>1. UNCHANGED <<delivered, batch, lost>> /\ stored' = Append(stored, e) /\ e \in Flying
    BY <1>3 DEF InlineCommits, InlineFails, Flying
  <2>2. e \notin Range(delivered)
    BY <1>0, <2>1 DEF OrderInv, PlacesInv, Partition
  <2>3. Stored' = Stored \union {e} /\ Batched' = Batched /\ Range(delivered)' = Range(delivered)
    BY <1>1, <2>1, AppendFacts DEF Stored, Batched
  <2>4. /\ DOMAIN stored = 1..Len(stored) /\ DOMAIN stored' = 1..(Len(stored) + 1)
        /\ Len(stored) \in Nat /\ stored'[Len(stored) + 1] = e
        /\ \A i \in 1..Len(stored) : stored'[i] = stored[i]
    <3>1. stored' \in Seq(Event) /\ Len(stored') = Len(stored) + 1
      BY <1>1, <2>1, AppendFacts
    <3> QED
      BY <1>1, <2>1, <3>1, AppendFacts
  <2>5. QueuedStoredInOrder'
    <3>1. SUFFICES ASSUME NEW i \in DOMAIN stored', NEW j \in DOMAIN stored', i < j,
                          stored'[i] \in Range(delivered), stored'[j] \in Range(delivered)
                   PROVE  stored'[i] < stored'[j]
      BY <2>3 DEF QueuedStoredInOrder
    <3>2. i \in DOMAIN stored /\ j \in DOMAIN stored
      BY <2>2, <2>4, <3>1
    <3> QED
      BY <2>4, <3>1, <3>2 DEF OrderInv, QueuedStoredInOrder
  <2> QED
    BY <1>0, <2>1, <2>2, <2>3, <2>5 DEF OrderInv
<1>4. CASE Dequeue
  <2>1. /\ Range(queue) = {queue[1]} \union Range(Rest(queue))
        /\ delivered' = Append(delivered, queue[1]) /\ batch' = Append(batch, queue[1])
        /\ queue[1] \in Event /\ UNCHANGED <<stored, lost>>
    BY <1>1, <1>4, RestFacts DEF Dequeue, Ring!Get
  <2>2. /\ queue[1] \in Queued /\ Stored' = Stored /\ Batched' = Batched \union {queue[1]}
        /\ Range(delivered)' = Range(delivered) \union {queue[1]}
    BY <1>1, <2>1, AppendFacts DEF Queued, Stored, Batched
  <2>3. queue[1] \notin Stored
    BY <1>0, <2>2 DEF PlacesInv, Partition
  <2>4. \A s \in Stored' \intersect Range(delivered)', b \in Batched' : s < b
    <3>1. SUFFICES ASSUME NEW s \in Stored \intersect Range(delivered),
                          NEW b \in Batched \union {queue[1]}
                   PROVE  s < b
      BY <2>2, <2>3
    <3>2. s < queue[1]
      BY <1>0, <2>2 DEF PlacesInv
    <3> QED
      BY <3>2 DEF OrderInv
  <2>5. QueuedStoredInOrder'
    <3>1. \A i \in DOMAIN stored : stored[i] # queue[1]
      BY <2>3 DEF Stored, Range
    <3> QED
      BY <2>1, <2>2, <3>1 DEF OrderInv, QueuedStoredInOrder
  <2>6. Range(delivered)' \subseteq Batched' \union Stored' \union lost'
    BY <2>1, <2>2 DEF OrderInv
  <2> QED
    BY <1>0, <2>4, <2>5, <2>6 DEF OrderInv
<1>5. CASE BatchCommits \/ BatchFails \/ EndsRolledBack \/ EndsCommitted
  <2>1. /\ UNCHANGED delivered /\ batch' = << >>
        /\ \/ stored' = stored \o batch /\ lost' = lost
           \/ stored' = stored /\ lost' = lost \union Range(batch)
    BY <1>5 DEF BatchCommits, BatchFails, BatchDone, EndsRolledBack, EndsCommitted, ThreadEnds
  <2>2. Range(delivered)' = Range(delivered) /\ Batched' = {}
    BY <2>1, EmptyFacts DEF Batched
  <2>3. \/ Stored' = Stored \union Batched /\ lost' = lost
        \/ Stored' = Stored /\ lost' = lost \union Batched
    <3>1. Range(stored \o batch) = Stored \union Batched
      BY <1>1, ConcatFacts DEF Stored, Batched
    <3> QED
      BY <2>1, <3>1 DEF Stored, Batched
  <2>4. Range(delivered)' \subseteq Batched' \union Stored' \union lost'
    BY <2>2, <2>3 DEF OrderInv
  <2>5. QueuedStoredInOrder'
    <3>1. CASE stored' = stored
      BY <2>2, <3>1 DEF OrderInv, QueuedStoredInOrder
    <3>2. CASE stored' = stored \o batch
      BY <2>2, <3>2, ConcatInOrder DEF QueuedStoredInOrder
    <3> QED
      BY <2>1, <3>1, <3>2
  <2> QED
    BY <1>0, <2>2, <2>4, <2>5 DEF OrderInv
<1>6. CASE (\E fits \in BOOLEAN : Enqueue(fits)) \/ Boot \/ BootFails \/ Submit
             \/ BatchRetries \/ Shutdown \/ UNCHANGED vars
             \/ \E e \in Event : InlineRetries(e) \/ (InlineFails(e) /\ UNCHANGED stored)
  <2>1. UNCHANGED <<delivered, batch, stored>> /\ lost \subseteq lost'
    BY <1>6 DEF Enqueue, Ring!Put, Boot, BootFails, Submit, BatchRetries, Shutdown,
                InlineRetries, InlineFails, vars
  <2> QED
    BY <1>2, <2>1
<1>7. ASSUME NEW e \in Event, InlineStep(e) PROVE OrderInv'
  <2>1. CASE InlineCommits(e)
    BY <1>3, <2>1 DEF InlineCommits
  <2>2. CASE InlineFails(e)
    BY <1>3, <1>6, <2>2 DEF InlineFails
  <2> QED
    BY <1>6, <1>7, <2>1, <2>2 DEF InlineStep
<1> QED
  BY <1>4, <1>5, <1>6, <1>7 DEF Next, WorkerStep, ShutdownMessage, ForceTerminate

(* Events that went through the queue are committed in the order in which  *)
(* the trading thread emitted them.                                        *)
THEOREM QueuedEventsAreOrdered == Spec => []QueuedStoredInOrder
<1>1. OrderInv => QueuedStoredInOrder
  BY DEF OrderInv
<1> QED
  BY <1>1, OrderInit, OrderStep, PTL DEF Spec

-----------------------------------------------------------------------------
(* What a crash can cost.  An event the readers saw that is neither        *)
(* durable, given up nor in an inline append is in the queue or the batch, *)
(* and both are bounded.                                                   *)
BoundInv ==
  /\ PlacesInv
  /\ Len(queue) <= Capacity
  /\ Len(batch) <= MaxBatch
  /\ streamed \subseteq 1..emitted

LEMMA BoundInit == Init => BoundInv
<1> SUFFICES ASSUME Init PROVE BoundInv
  OBVIOUS
<1>1. queue = << >> /\ batch = << >> /\ streamed = {}
  BY DEF Init, Ring!Init
<1> QED
  BY <1>1, PlacesInit, EmptyFacts, PersistenceAssumption DEF BoundInv

LEMMA BoundStep == BoundInv /\ [Next]_vars => BoundInv'
<1> SUFFICES ASSUME BoundInv, [Next]_vars PROVE BoundInv'
  OBVIOUS
<1> USE DEF queueVars, workerVars, shutdownVars, outcomeVars
<1>0. PlacesInv /\ PlacesInv'
  BY PlacesStep DEF BoundInv
<1>1. /\ queue \in Seq(Event) /\ batch \in Seq(Event) /\ emitted \in Nat
      /\ streamed \subseteq 1..emitted /\ Flying \subseteq 1..emitted
      /\ Len(queue) <= Capacity /\ Len(batch) <= MaxBatch /\ Len(queue) \in Nat
      /\ Capacity \in Nat /\ MaxBatch \in Nat
  BY <1>0, PersistenceAssumption DEF BoundInv, PlacesInv, PersistTypeOK, Partition
<1>2. ASSUME UNCHANGED emitted, \/ UNCHANGED streamed
                               \/ \E e \in Flying : streamed' \subseteq streamed \union {e},
             UNCHANGED queue, UNCHANGED batch \/ batch' = << >>
      PROVE  BoundInv'
  <2>1. streamed' \subseteq 1..emitted'
    BY <1>1, <1>2
  <2>2. Len(queue') <= Capacity
    BY <1>1, <1>2
  <2>3. Len(batch') <= MaxBatch
    <3>1. CASE UNCHANGED batch
      BY <1>1, <3>1
    <3>2. CASE batch' = << >>
      BY <1>1, <3>2, Len(<< >>) = 0, PersistenceAssumption
    <3> QED
      BY <1>2, <3>1, <3>2
  <2> QED
    BY <1>0, <2>1, <2>2, <2>3 DEF BoundInv
<1>3. ASSUME NEW fits \in BOOLEAN, Enqueue(fits) PROVE BoundInv'
  <2>1. emitted' = emitted + 1 /\ UNCHANGED batch
    BY <1>3 DEF Enqueue
  <2>2. streamed' \subseteq streamed \union {emitted'}
    BY <1>3 DEF Enqueue
  <2>3. streamed' \subseteq 1..emitted'
    BY <1>1, <2>1, <2>2
  <2>4. Len(queue') <= Capacity
    <3>1. CASE UNCHANGED queue
      BY <1>1, <3>1
    <3>2. CASE Ring!Put(emitted')
      <4>1. queue' = Append(queue, emitted') /\ Len(queue) < Capacity
        BY <3>2 DEF Ring!Put
      <4>2. emitted' \in Event
        BY <1>1, <1>3, <2>1, PersistenceAssumption DEF Enqueue, Event
      <4>3. Len(queue') = Len(queue) + 1
        BY <1>1, <4>1, <4>2, AppendFacts
      <4> QED
        BY <1>1, <4>1, <4>3
    <3> QED
      BY <1>3, <3>1, <3>2 DEF Enqueue
  <2> QED
    BY <1>0, <1>1, <2>1, <2>3, <2>4 DEF BoundInv
<1>4. ASSUME NEW e \in Event, InlineStep(e) PROVE BoundInv'
  <2>1. e \in Flying /\ UNCHANGED <<emitted, queue, batch>>
    BY <1>4 DEF InlineStep, InlineCommits, InlineRetries, InlineFails, Flying
  <2>2. streamed' \subseteq streamed \union {e}
    BY <1>4 DEF InlineStep, InlineCommits, InlineRetries, InlineFails
  <2> QED
    BY <1>2, <2>1, <2>2
<1>5. ASSUME Dequeue PROVE BoundInv'
  <2>1. /\ UNCHANGED <<emitted, streamed>> /\ Len(batch) < MaxBatch /\ Len(queue) > 0
        /\ batch' = Append(batch, Head(queue)) /\ queue' = Rest(queue)
    BY <1>5 DEF Dequeue, Ring!Get, Rest
  <2>2. Head(queue) \in Event /\ Len(Rest(queue)) = Len(queue) - 1
    BY <1>1, <2>1, RestFacts
  <2>3. Len(batch') = Len(batch) + 1 /\ Len(batch) \in Nat
    BY <1>1, <2>1, <2>2, AppendFacts
  <2> QED
    BY <1>0, <1>1, <2>1, <2>2, <2>3 DEF BoundInv
<1>6. ASSUME UNCHANGED <<emitted, streamed, queue, batch>> PROVE BoundInv'
  BY <1>2, <1>6
<1>7. ASSUME UNCHANGED <<emitted, streamed, queue>>, batch' = << >> PROVE BoundInv'
  BY <1>2, <1>7
<1>8. CASE UNCHANGED vars
  BY <1>6, <1>8 DEF vars
<1>9. CASE WorkerStep
  BY <1>5, <1>6, <1>7, <1>9
     DEF WorkerStep, Boot, BootFails, Submit, BatchDone, BatchCommits, BatchRetries, BatchFails
<1>10. CASE Shutdown \/ ShutdownMessage \/ ForceTerminate
  BY <1>6, <1>7, <1>10
     DEF Shutdown, ShutdownMessage, ForceTerminate, EndsRolledBack, EndsCommitted, ThreadEnds
<1> QED
  BY <1>3, <1>4, <1>8, <1>9, <1>10 DEF Next

(* A sequence has no more elements than positions.                         *)
LEMMA RangeBound ==
  ASSUME NEW s \in Seq(Event)
  PROVE  IsFiniteSet(Range(s)) /\ Cardinality(Range(s)) <= Len(s)
         /\ Cardinality(Range(s)) \in Nat
<1>1. /\ Len(s) \in Nat /\ DOMAIN s = 1..Len(s)
      /\ s \in Surjection(1..Len(s), Range(s))
  BY DEF Surjection, Range
<1>2. ExistsSurjection(1..Len(s), Range(s))
  BY <1>1 DEF ExistsSurjection
<1> QED
  BY <1>1, <1>2, FS_NatSurjection, FS_SurjCardinalityBound, FS_CardinalityType

LEMMA BoundImpliesExposure == BoundInv => ExposureBounded
<1> SUFFICES ASSUME BoundInv PROVE ExposureBounded
  OBVIOUS
<1> DEFINE exposed == {e \in streamed \ lost : e \notin Range(stored) /\ inline[e] = 0}
<1>1. /\ queue \in Seq(Event) /\ batch \in Seq(Event)
      /\ streamed \subseteq Event /\ inline \in [Event -> 0..MaxAttempts]
  BY DEF BoundInv, PlacesInv, PersistTypeOK
<1>2. exposed \subseteq Range(queue) \union Range(batch)
  <2> SUFFICES ASSUME NEW e \in exposed PROVE e \in Range(queue) \union Range(batch)
    OBVIOUS
  <2>1. /\ e \in streamed /\ e \notin lost /\ e \notin Range(stored) /\ inline[e] = 0
    OBVIOUS
  <2>2. e \in 1..emitted
    BY <2>1 DEF BoundInv
  <2>3. e \notin Flying
    BY <2>1 DEF Flying
  <2>4. e \notin Stored
    BY <2>1 DEF Stored
  <2>5. e \in Queued \/ e \in Batched
    BY <2>1, <2>2, <2>3, <2>4 DEF BoundInv, PlacesInv, Partition
  <2> QED
    BY <2>5 DEF Queued, Batched
<1>3. /\ IsFiniteSet(Range(queue)) /\ Cardinality(Range(queue)) <= Len(queue)
      /\ IsFiniteSet(Range(batch)) /\ Cardinality(Range(batch)) <= Len(batch)
      /\ Cardinality(Range(queue)) \in Nat /\ Cardinality(Range(batch)) \in Nat
      /\ Len(queue) \in Nat /\ Len(batch) \in Nat
  BY <1>1, RangeBound
<1>4. /\ IsFiniteSet(Range(queue) \union Range(batch))
      /\ Cardinality(Range(queue) \union Range(batch)) <= Len(queue) + Len(batch)
  <2> DEFINE q == Range(queue)
             b == Range(batch)
  <2> HIDE DEF q, b
  <2>1. /\ IsFiniteSet(q \union b)
        /\ Cardinality(q \union b) = Cardinality(q) + Cardinality(b) - Cardinality(q \cap b)
    BY <1>3, FS_Union DEF q, b
  <2>2. Cardinality(q \cap b) \in Nat
    BY <1>3, FS_Intersection, FS_CardinalityType DEF q, b
  <2> QED
    BY <1>3, <2>1, <2>2 DEF q, b
<1>5. Cardinality(exposed) <= Cardinality(Range(queue) \union Range(batch))
      /\ Cardinality(exposed) \in Nat
      /\ Cardinality(Range(queue) \union Range(batch)) \in Nat
  <2> HIDE DEF exposed
  <2> QED
    BY <1>2, <1>4, FS_Subset, FS_CardinalityType
<1>6. Len(queue) <= Capacity /\ Len(batch) <= MaxBatch
  BY DEF BoundInv
<1>7. Cardinality(exposed) <= Capacity + MaxBatch
  <2> HIDE DEF exposed
  <2> QED
    BY <1>3, <1>4, <1>5, <1>6, PersistenceAssumption
<1> QED
  BY <1>7 DEF ExposureBounded

(* However the two writers, their failures and the end of the worker       *)
(* interleave, at most a queue and a batch of events have been shown to    *)
(* the live readers and would be lost without a trace by a crash.          *)
THEOREM CrashCostIsBounded == Spec => []ExposureBounded
<1> QED
  BY BoundImpliesExposure, BoundInit, BoundStep, PTL DEF Spec

-----------------------------------------------------------------------------
(* What is given up silently: nothing while the worker lives, and at its   *)
(* end no more than the batch in hand.                                     *)
ReportInv == BoundInv /\ OnlyTheLastBatchSilently

LEMMA ReportInit == Init => ReportInv
<1> SUFFICES ASSUME Init PROVE ReportInv
  OBVIOUS
<1>1. lost = {} /\ reported = {} /\ lost \ reported = {}
  BY DEF Init
<1> QED
  BY <1>1, BoundInit, FS_EmptySet, PersistenceAssumption DEF ReportInv, OnlyTheLastBatchSilently

(* A set of unreported events that does not grow keeps its bound.          *)
LEMMA SilentShrinks ==
  ASSUME PersistTypeOK, PersistTypeOK', Cardinality(lost \ reported) <= MaxBatch,
         (lost \ reported)' \subseteq lost \ reported
  PROVE  Cardinality(lost \ reported)' <= MaxBatch
<1>1. IsFiniteSet(Event)
  BY FS_Interval, PersistenceAssumption DEF Event
<1>2. IsFiniteSet(lost \ reported)
  BY <1>1, FS_Subset DEF PersistTypeOK
<1> DEFINE a == lost \ reported
           b == lost' \ reported'
<1>3. IsFiniteSet(a) /\ b \subseteq a
  BY <1>2
<1>4. Cardinality(a) <= MaxBatch
  OBVIOUS
<1> HIDE DEF a, b
<1>5. Cardinality(b) <= Cardinality(a) /\ Cardinality(b) \in Nat /\ Cardinality(a) \in Nat
  BY <1>3, FS_Subset, FS_CardinalityType
<1>6. Cardinality(b) <= MaxBatch
  BY <1>4, <1>5, PersistenceAssumption
<1> QED
  BY <1>6 DEF b

LEMMA ReportStep == ReportInv /\ [Next]_vars => ReportInv'
<1> SUFFICES ASSUME ReportInv, [Next]_vars PROVE ReportInv'
  OBVIOUS
<1> USE DEF queueVars, workerVars, shutdownVars, outcomeVars
<1>0. /\ BoundInv /\ BoundInv' /\ PersistTypeOK /\ PersistTypeOK'
      /\ OnlyTheLastBatchSilently
      /\ PlacesInv
  BY BoundStep DEF ReportInv, BoundInv, PlacesInv
<1>1. ASSUME UNCHANGED driver,
             worker' = "exited" => worker = "exited",
             worker = "exited" => worker' = "exited",
             \E new \in SUBSET Event :
               /\ reported' = reported \union new
               /\ \/ lost' = lost \union new
                  \/ lost' = lost /\ (new = {} \/ driver = "postgres")
      PROVE  ReportInv'
  <2>1. PICK new \in SUBSET Event :
               /\ reported' = reported \union new
               /\ \/ lost' = lost \union new
                  \/ lost' = lost /\ (new = {} \/ driver = "postgres")
    BY <1>1
  <2>2. (lost \ reported)' \subseteq lost \ reported
    BY <2>1
  <2>3. Cardinality(lost \ reported)' <= MaxBatch
    BY <1>0, <2>2, SilentShrinks DEF OnlyTheLastBatchSilently
  <2>4. (worker # "exited" => lost \subseteq reported)'
    BY <1>0, <1>1, <2>1 DEF OnlyTheLastBatchSilently
  <2>5. (driver = "sqlite" => reported \subseteq lost)'
    BY <1>0, <1>1, <2>1 DEF OnlyTheLastBatchSilently
  <2> QED
    BY <1>0, <2>3, <2>4, <2>5 DEF ReportInv, OnlyTheLastBatchSilently
<1>2. ASSUME NEW fits \in BOOLEAN, Enqueue(fits) PROVE ReportInv'
  <2>1. emitted' \in Event /\ UNCHANGED <<driver, worker>>
    BY <1>0, <1>2 DEF Enqueue, Event, PersistTypeOK
  <2>2. \/ reported' = reported \union {emitted'} /\ lost' = lost \union {emitted'}
        \/ reported' = reported \union {} /\ lost' = lost \union {}
    BY <1>2 DEF Enqueue
  <2> QED
    BY <1>1, <2>1, <2>2
<1>3. ASSUME NEW e \in Event, InlineStep(e) PROVE ReportInv'
  <2>1. UNCHANGED <<driver, worker>>
    BY <1>3 DEF InlineStep, InlineCommits, InlineRetries, InlineFails
  <2>2. \/ reported' = reported \union {} /\ lost' = lost
        \/ /\ reported' = reported \union {e}
           /\ lost' = lost \union {e} \/ (lost' = lost /\ driver = "postgres")
    BY <1>3 DEF InlineStep, InlineCommits, InlineRetries, InlineFails
  <2> QED
    BY <1>1, <2>1, <2>2
<1>4. CASE Boot \/ BootFails \/ Dequeue \/ Submit \/ BatchCommits \/ BatchRetries
             \/ Shutdown \/ UNCHANGED vars
  <2>1. /\ UNCHANGED <<driver, lost, reported>>
        /\ worker' = "exited" <=> worker = "exited"
    BY <1>4 DEF Boot, BootFails, Dequeue, Submit, BatchCommits, BatchDone, BatchRetries,
                Shutdown, vars
  <2>2. reported' = reported \union {} /\ lost' = lost
    BY <2>1
  <2> QED
    BY <1>1, <2>1, <2>2
<1>5. CASE BatchFails
  <2>1. /\ UNCHANGED driver /\ worker = "appending" /\ worker' = "dequeuing"
        /\ reported' = reported \union Range(batch)
        /\ lost' = lost \union Range(batch) \/ (lost' = lost /\ driver = "postgres")
    BY <1>5 DEF BatchFails, BatchDone
  <2>2. Range(batch) \subseteq Event
    BY <1>0 DEF PersistTypeOK, Range
  <2> QED
    BY <1>1, <2>1, <2>2
<1>6. CASE (ShutdownMessage \/ ForceTerminate) /\ (EndsRolledBack \/ EndsCommitted)
  <2>1. /\ UNCHANGED <<driver, reported>> /\ worker # "exited" /\ worker' = "exited"
        /\ lost' \subseteq lost \union Range(batch) /\ lost \subseteq lost'
    BY <1>6 DEF ShutdownMessage, ForceTerminate, EndsRolledBack, EndsCommitted, ThreadEnds
  <2>2. lost \subseteq reported
    BY <1>0, <2>1 DEF OnlyTheLastBatchSilently
  <2> DEFINE a == lost' \ reported'
  <2>3. a \subseteq Range(batch)
    BY <2>1, <2>2
  <2>4. /\ IsFiniteSet(Range(batch)) /\ Cardinality(Range(batch)) <= Len(batch)
        /\ Cardinality(Range(batch)) \in Nat
        /\ Len(batch) <= MaxBatch /\ Len(batch) \in Nat
    BY <1>0, RangeBound DEF PersistTypeOK, BoundInv
  <2> HIDE DEF a
  <2>5. Cardinality(a) <= Cardinality(Range(batch)) /\ Cardinality(a) \in Nat
    BY <2>3, <2>4, FS_Subset, FS_CardinalityType
  <2>6. Cardinality(a) <= MaxBatch
    BY <2>4, <2>5, PersistenceAssumption
  <2>7. Cardinality(lost \ reported)' <= MaxBatch
    BY <2>6 DEF a
  <2>8. (driver = "sqlite" => reported \subseteq lost)'
    BY <1>0, <2>1 DEF OnlyTheLastBatchSilently
  <2> QED
    BY <1>0, <2>1, <2>7, <2>8 DEF ReportInv, OnlyTheLastBatchSilently
<1>7. CASE WorkerStep
  BY <1>4, <1>5, <1>7 DEF WorkerStep
<1>8. CASE ShutdownMessage \/ ForceTerminate
  BY <1>6, <1>8 DEF ShutdownMessage, ForceTerminate
<1> QED
  BY <1>2, <1>3, <1>4, <1>7, <1>8 DEF Next

(* Whatever the trading thread, the worker and the database do, an emitted *)
(* event is in exactly one place, the table holds no event twice, and only *)
(* the batch in hand when the worker ends can be given up without an error.*)
THEOREM EventsAreInOnePlace == Spec => []EachEventInOnePlace
<1>1. ReportInv => EachEventInOnePlace
  BY PlacesAreUnique DEF ReportInv, BoundInv, EachEventInOnePlace
<1> QED
  BY <1>1, ReportInit, ReportStep, PTL DEF Spec
=============================================================================
