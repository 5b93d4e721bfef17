----------------------------- MODULE LruArbiter -----------------------------
(***************************************************************************)
(* What an arbiter of the ct_prio kind promises: the ports stand in a      *)
(* queue, the request nearest to the head is granted, and a granted port   *)
(* that is consumed goes to the end of the queue.  No port outside the     *)
(* queue's order ever influences who is granted.                           *)
(***************************************************************************)
EXTENDS Naturals, Sequences

CONSTANT Ports

VARIABLES
  order,    \* the ports, least recently served first
  request   \* the ports that request

lruVars == <<order, request>>

(* The position of the request to be granted. *)
IsFirst(k) == /\ order[k] \in request
              /\ \A j \in 1 .. k - 1 : order[j] \notin request

LruInit == /\ order \in [1 .. Len(order) -> Ports]
           /\ \A p \in Ports : \E k \in 1 .. Len(order) : order[k] = p
           /\ \A j, k \in 1 .. Len(order) : order[j] = order[k] => j = k
           /\ request \in SUBSET Ports

(* The queue after its k-th port went to the end. *)
ToEnd(k) == [j \in 1 .. Len(order) |->
               IF j < k THEN order[j] ELSE IF j < Len(order) THEN order[j + 1] ELSE order[k]]

(* The granted port is consumed and loses its turn. *)
Serve == /\ \E k \in 1 .. Len(order) : IsFirst(k) /\ order' = ToEnd(k)
         /\ request' \in SUBSET Ports

(* Nothing is consumed: the order stays as it is. *)
Hold == /\ order' = order
        /\ request' \in SUBSET Ports

LruSpec == LruInit /\ [][Serve \/ Hold]_lruVars
=============================================================================
