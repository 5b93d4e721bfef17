-------------------------- MODULE MCReplayReceipt --------------------------
(* Two packages: the first needs both tools, the second one of them, and its *)
(* replay_out cannot be removed.                                           *)
EXTENDS ReplayReceipt
Tools   == {"YOSYS_BIN", "STA_BIN"}
NeedsOf == [p \in Pkg |-> IF p = 1 THEN Tools ELSE {"YOSYS_BIN"}]
=============================================================================
