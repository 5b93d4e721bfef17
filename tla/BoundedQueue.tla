---------------------------- MODULE BoundedQueue ----------------------------
(***************************************************************************)
(* What a hardware queue of the ct_fifo kind promises: at most Capacity     *)
(* items, taken in the order they were put, nothing lost, repeated or       *)
(* changed in between.  An item may be put in the cycle in which another is *)
(* taken, also when the queue is full.                                      *)
(***************************************************************************)
EXTENDS Naturals, Sequences

CONSTANTS Item, Capacity

VARIABLE queue

QInit == queue = << >>

Put == /\ Len(queue) < Capacity
       /\ \E x \in Item : queue' = Append(queue, x)

Take == queue # << >> /\ queue' = Tail(queue)

TakeAndPut == /\ queue # << >>
              /\ \E x \in Item : queue' = Append(Tail(queue), x)

QSpec == QInit /\ [][Put \/ Take \/ TakeAndPut]_queue
=============================================================================
