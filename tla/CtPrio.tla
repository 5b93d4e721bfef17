------------------------------- MODULE CtPrio -------------------------------
(***************************************************************************)
(* The priority-matrix arbiter ct_prio (ciu/rtl/ct_prio.v).                *)
(*                                                                         *)
(* Row i of the matrix is the set of ports that outrank port i.  A valid   *)
(* port is selected when no valid port outranks it.  When the winner is    *)
(* consumed (clr) it is put behind every other port: its row becomes all   *)
(* other ports, and its column is cleared in every other row.              *)
(*                                                                         *)
(* One step of the model is one rising edge of clk.  The inputs valid and  *)
(* clr are driven by the surrounding logic and may change freely from one  *)
(* cycle to the next: a requester may also withdraw.                       *)
(***************************************************************************)
EXTENDS Integers, FiniteSets

CONSTANT NUM    \* the parameter NUM: the number of request ports

ASSUME NumAssumption == NUM \in Nat \ {0}

VARIABLES
  prio,         \* reg prio[i]: the set of ports that outrank port i
  valid         \* input valid: the ports that request in this cycle

prioVars == <<prio, valid>>

Port == 0 .. NUM - 1

-----------------------------------------------------------------------------
(* assign sel[i] = valid[i] && !(|(valid & prio[i])) *)
Sel(v, p) == {i \in v : v \cap p[i] = {}}

(* assign clr_bus = {NUM{clr}} & sel *)
ClrBus(clr) == IF clr THEN Sel(valid, prio) ELSE {}

(* Mutants of the update: the winner's row is set but its column is kept;   *)
(* the winner is put ahead of all others.                                   *)
NextPrioRowOnly(p, bus) == [i \in Port |-> IF bus = {i} THEN Port \ bus ELSE p[i]]
NextPrioToHead(p, bus)  == [i \in Port |-> IF bus = {i} THEN {} ELSE p[i] \cup bus]

(* The matrix after an edge that consumes the ports in bus. *)
NextPrio(p, bus) ==
  IF bus = {} THEN p
  ELSE [i \in Port |-> IF bus = {i} THEN Port \ bus ELSE p[i] \ bus]

(* Mutant: the shift keeps bit NUM. *)
ResetPrioWide == [i \in Port |-> (i + 1) .. NUM]

(* Reset shifts {NUM zeros, NUM ones} left by i: row i holds the lower ports. *)
ResetPrio == [i \in Port |-> 0 .. i - 1]

Init == /\ prio = ResetPrio
        /\ valid \in SUBSET Port

Clock(clr) == /\ prio' = NextPrio(prio, ClrBus(clr))
              /\ valid' \in SUBSET Port

Next == \E clr \in BOOLEAN : Clock(clr)

Spec == Init /\ [][Next]_prioVars

-----------------------------------------------------------------------------
(* Type invariant. *)
TypeOK == /\ prio \in [Port -> SUBSET Port]
          /\ valid \in SUBSET Port

(* The parts of the order invariant: no port outranks itself, of two ports  *)
(* exactly one outranks the other, and outranking is transitive.            *)
Irreflexive(p) == \A i \in Port : i \notin p[i]
Total(p)       == \A i, j \in Port : i # j => (i \in p[j] <=> j \notin p[i])
Transitive(p)  == \A i, j, k \in Port : i \in p[j] /\ j \in p[k] => i \in p[k]

(* The matrix registers always encode a strict total order of the ports,    *)
(* although each row is updated on its own from clr_bus (ct_prio.v:45-48).  *)
RankOrder == Irreflexive(prio) /\ Total(prio) /\ Transitive(prio)

(* Whenever some port requests, sel has exactly one bit set: no cycle of    *)
(* the matrix leaves every requester blocked by another, and no two ports   *)
(* are granted together, which is what the one-hot muxes behind every       *)
(* ct_prio instance rely on (ct_prio.v:54-58).                              *)
OneGrant == valid # {} => \E w \in valid : Sel(valid, prio) = {w}

(* The matrix is of its type and an order, and so it grants one requester.  *)
MatrixInv == TypeOK /\ RankOrder /\ OneGrant
=============================================================================
