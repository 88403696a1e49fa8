---------------------------- MODULE BoundedFifo ----------------------------
(***************************************************************************)
(* What the ring buffer promises its two threads: a first-in first-out     *)
(* queue of at most Capacity events.  A call that returns false is a step  *)
(* in which nothing happens.                                               *)
(***************************************************************************)
EXTENDS Integers, Sequences

CONSTANTS Event, Capacity, NoEvent

VARIABLES
  items,      \* the events in the queue, oldest first
  received    \* what the last successful pop returned, NoEvent before it

vars == <<items, received>>

Init == items = << >> /\ received = NoEvent

Push(event) ==
  /\ Len(items) < Capacity
  /\ items' = Append(items, event)
  /\ UNCHANGED received

Pop ==
  /\ items # << >>
  /\ received' = Head(items)
  /\ items' = Tail(items)

Next == Pop \/ \E event \in Event : Push(event)

Spec == Init /\ [][Next]_vars
=============================================================================
