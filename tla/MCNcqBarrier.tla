---------------------------- MODULE MCNcqBarrier ----------------------------
(* Two PIUs and counters that stop at 2 (31 in the code). *)
EXTENDS NcqBarrier
=============================================================================
