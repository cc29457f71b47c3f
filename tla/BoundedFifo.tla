---------------------------- MODULE BoundedFifo ----------------------------
(***************************************************************************)
(* What a worker queue promises: a first-in first-out queue of bounded     *)
(* length that hands every element over exactly once.                      *)
(***************************************************************************)
EXTENDS Naturals, Sequences

CONSTANTS
  Elements,
  Capacity

VARIABLES
  fifo,     \* what has been enqueued and not yet dequeued, oldest first
  out       \* the element dequeued last

Init == fifo = << >> /\ out \notin Elements

Enqueue ==
  /\ Len(fifo) < Capacity
  /\ \E e \in Elements : fifo' = Append(fifo, e)
  /\ UNCHANGED out

Dequeue ==
  /\ fifo # << >>
  /\ out' = Head(fifo)
  /\ fifo' = Tail(fifo)

Spec == Init /\ [][Enqueue \/ Dequeue]_<<fifo, out>>
=============================================================================
