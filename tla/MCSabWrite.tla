----------------------------- MODULE MCSabWrite -----------------------------
(* Two piu and bmbif, as many items as write entries.                       *)
EXTENDS SabWrite

MCData == Port
=============================================================================
