----------------------------- MODULE CtPrioWait -----------------------------
(***************************************************************************)
(* CtPrio with a history variable: passed[i] is the set of ports that were *)
(* consumed while port i has been requesting without a break.  The history *)
(* never influences the arbiter; it states how long a request can wait.    *)
(***************************************************************************)
EXTENDS CtPrio, Sequences

VARIABLE passed

waitVars == <<prio, valid, passed>>

WaitInit == Init /\ passed = [i \in Port |-> {}]

WaitClock(clr) ==
  /\ Clock(clr)
  /\ passed' = [i \in Port |->
                  IF i \in valid /\ i \in valid' /\ i \notin ClrBus(clr)
                  THEN passed[i] \cup ClrBus(clr) ELSE {}]

WaitNext == \E clr \in BOOLEAN : WaitClock(clr)

WaitSpec == WaitInit /\ [][WaitNext]_waitVars

-----------------------------------------------------------------------------
(* The port that sel names was not already consumed while another port has  *)
(* been waiting: a request that does not withdraw sees every other port     *)
(* consumed at most once before its own turn (ct_prio.v:45-48).  A turn is  *)
(* a consumption by clr, with or without service: where clr does not wait   *)
(* for the grant (ct_ciu_snb_arb.v:1287) a port may use up its turns        *)
(* unserved, and nothing is said of when it is served.                      *)
NoSecondPass == \A i \in valid : \A w \in Sel(valid, prio) \ {i} : w \notin passed[i]

(* Why it holds: whoever was served while i waits is ranked behind i.       *)
ServedIsBehind == \A i \in valid : passed[i] \cap prio[i] = {}

-----------------------------------------------------------------------------
(* The matrix read as a queue: the port with k - 1 ports ahead of it stands *)
(* at position k.                                                           *)
OrderOf(p) == [k \in 1 .. NUM |-> CHOOSE i \in Port : Cardinality(p[i]) = k - 1]

Lru == INSTANCE LruArbiter WITH Ports <- Port, order <- OrderOf(prio), request <- valid

(* The matrix implements the least-recently-served queue: every edge serves *)
(* the first request of the queue, or leaves the queue alone.               *)
ImplementsLru == Lru!LruSpec
=============================================================================
