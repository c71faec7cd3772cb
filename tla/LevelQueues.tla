----------------------------- MODULE LevelQueues -----------------------------
(***************************************************************************)
(* What the price levels and the order pool of a book promise it: a queue   *)
(* of orders per level, and room for a fixed number of orders in all.       *)
(***************************************************************************)
EXTENDS Naturals, Sequences, FiniteSets

CONSTANTS
  Order,     \* the orders of a book
  Level,     \* its price levels, of both sides
  Room       \* how many orders may rest at once

VARIABLES
  queue,     \* the orders of each level, in the order they came
  halted     \* TRUE once an order has found no room

vars == <<queue, halted>>

Resting == UNION {{queue[l][k] : k \in 1 .. Len(queue[l])} : l \in Level}

Init ==
  /\ queue = [l \in Level |-> <<>>]
  /\ halted = FALSE

PushBack(l, o) ==
  /\ ~halted
  /\ Cardinality(Resting) < Room
  /\ queue' = [queue EXCEPT ![l] = Append(@, o)]
  /\ UNCHANGED halted

PopFront(l) ==
  /\ ~halted
  /\ queue[l] # <<>>
  /\ queue' = [queue EXCEPT ![l] = Tail(@)]
  /\ UNCHANGED halted

Exhausted ==
  /\ ~halted
  /\ Cardinality(Resting) = Room
  /\ halted' = TRUE
  /\ UNCHANGED queue

Next ==
  \/ \E l \in Level : PopFront(l) \/ \E o \in Order \ Resting : PushBack(l, o)
  \/ Exhausted

Spec == Init /\ [][Next]_vars

=============================================================================
