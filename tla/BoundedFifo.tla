----------------------------- MODULE BoundedFifo -----------------------------
(***************************************************************************)
(* What a radio event queue promises its two sides: values come out in the *)
(* order they went in, none is lost, duplicated or altered once push() has *)
(* said true, and at most Capacity values are held.                        *)
(***************************************************************************)
EXTENDS Integers, Sequences

CONSTANTS Values, Capacity, NoValue

VARIABLES
  queue,      \* values pushed and not yet popped, oldest first
  delivered   \* the value the last pop() handed to its caller

Init == queue = <<>> /\ delivered = NoValue

Push(v) ==
  /\ Len(queue) < Capacity
  /\ queue' = Append(queue, v)
  /\ UNCHANGED delivered

Pop ==
  /\ queue # <<>>
  /\ queue' = Tail(queue)
  /\ delivered' = Head(queue)

Next == Pop \/ \E v \in Values : Push(v)

Spec == Init /\ [][Next]_<<queue, delivered>>
=============================================================================
