----------------------------- MODULE MCBarrier -----------------------------
(* Two PIUs and two targets: snb may refuse a barrier and hold several, ctcq *)
(* holds one at a time.  ncq, which takes a barrier in the cycle in which it *)
(* is offered, does nothing that snb may not do.                             *)
EXTENDS Barrier
=============================================================================
