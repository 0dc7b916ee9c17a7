---------------------------- MODULE BoundedFifo ----------------------------
(***************************************************************************)
(* What the shared event queue promises its two users, the main thread    *)
(* (persistenceManager.ts) and the persistence worker                      *)
(* (persistenceWorker.ts): a queue of at most Capacity events, handed over *)
(* once each and in the order in which they were put.  Events are numbered *)
(* by the enqueue call that offered them, so "in order" is "increasing".   *)
(***************************************************************************)
EXTENDS Integers, Sequences

CONSTANTS
  Capacity,   \* slots of the queue
  MaxEvents   \* bound of the model: events ever offered

VARIABLES
  queue,      \* the events put and not yet taken
  delivered   \* the events taken, oldest first

vars == <<queue, delivered>>

Init == /\ queue = << >>
        /\ delivered = << >>

Put(e) ==
  /\ Len(queue) < Capacity
  /\ \A i \in 1..Len(queue) : queue[i] < e
  /\ \A i \in 1..Len(delivered) : delivered[i] < e
  /\ queue' = Append(queue, e)
  /\ UNCHANGED delivered

Get ==
  /\ Len(queue) > 0
  /\ delivered' = Append(delivered, queue[1])
  /\ queue' = [i \in 1..(Len(queue) - 1) |-> queue[i + 1]]

Next == \/ \E e \in 1..MaxEvents : Put(e)
        \/ Get

Spec == Init /\ [][Next]_vars
=============================================================================
