------------------------------ MODULE SabWrite ------------------------------
(***************************************************************************)
(* The write half of the snoop buffer: how ct_ciu_snb_arb.v puts a ct_prio *)
(* in front of the write entries of the sab and a ct_fifo, wd_sel, behind  *)
(* them.  The fifo remembers whose write data is to be taken next.  The    *)
(* address of a granted request is registered (sab_aw_crt_entry) and only  *)
(* a cycle later creates its entry and its item: the fifo that was asked   *)
(* for room is not the fifo that is written.                               *)
(*                                                                         *)
(* One step is one edge of forever_cpuclk.  The last port is bmbif, which  *)
(* sends barriers; the others are the piu.                                 *)
(***************************************************************************)
EXTENDS CtPrioWait, CtFifo

CONSTANT WDEPTH     \* SAB_WDEPTH, the number of write entries

ASSUME WdepthAssumption == WDEPTH \in Nat \ {0}

(* wd_sel has a slot for every write entry (.DEPTH(8) at line 1441 and      *)
(* SAB_WDEPTH 8 in cpu_cfig.h) and holds the number of a port.              *)
ASSUME SelAssumption == WDEPTH <= DEPTH /\ Port \subseteq Data

VARIABLES
  entry,    \* sab entries: the step of the entry and whose data it awaits
  crt,      \* sab_aw_crt_entry: {} or one request that will be created
  wcd       \* sab_wcd_crt_entry: {} or the entry whose data was taken

sabVars == <<prio, valid, passed, fifo, entry, crt, wcd>>

Bmbif == NUM - 1
Wid   == 0 .. WDEPTH - 1

(* What a port may ask for: WNS/WB/WC, a write of a shared domain, an evict.*)
Kind(p) == IF p = Bmbif THEN {"bar"} ELSE {"wns", "shared", "evict"}

Busy == {e \in Wid : entry[e].state # "idle"}

(* Mutant: the request in the register is forgotten. *)
WentryVldBusy == Busy

WentryVld == Busy \cup {r.sid : r \in crt}

(* sab_wentry_full: the last entry is kept for writes that never snoop. *)
WentryFull(p, kind) ==
  IF kind \in {"wns", "evict"} THEN WentryVld = Wid ELSE Wid \ {WDEPTH - 1} \subseteq WentryVld

(* sab_create1_sel: the lowest entry that is free. *)
Create1Sel == CHOOSE e \in Wid \ WentryVld : \A f \in Wid \ WentryVld : e <= f

(* Mutant: a barrier is put into the fifo, too. *)
WdSelFifoCreateEnBar(r) == r.kind # "evict"

(* wd_sel_fifo_create_en: barriers and evicts have no data. *)
WdSelFifoCreateEn(r) == r.kind \notin {"bar", "evict"}

(* The entry decides for itself what it waits for (sab_entry, DEPD and BAR). *)
AwaitsData(r) == r.kind \notin {"bar", "evict"}

(* The arbiter moves with every request (clr = aw_bar_vld), also when       *)
(* aw_bar_clr withholds the grant.  A request stays until it is granted.    *)
Arbitrate ==
  \E p \in Sel(valid, prio) : \E kind \in Kind(p) :
    LET grant == ~WentryFull(p, kind) /\ ~Full(fifo) IN
    /\ WaitClock(TRUE)
    /\ valid \ {q \in {p} : grant} \subseteq valid'
    /\ crt' = IF grant THEN {[sid |-> Create1Sel, mid |-> p, kind |-> kind]} ELSE {}

Idle == valid = {} /\ WaitClock(FALSE) /\ crt' = {}

(* The write data of one piu is taken, if snoop data does not go first; it  *)
(* carries the entry it is for.                                             *)
Waiting(m) == {e \in Wid : entry[e] = [state |-> "depd", mid |-> m]} \ wcd

TakeData == ~Empty(fifo) /\ \E e \in Waiting(PopData(fifo)) : wcd' = {e}

IdleEntry == [state |-> "idle", mid |-> 0]

(* The entries: created from the register, served with data, freed.         *)
EntryNext(e, freed) ==
  IF \E r \in crt : r.sid = e
  THEN LET r == CHOOSE x \in crt : TRUE
       IN  IF AwaitsData(r) THEN [state |-> "depd", mid |-> r.mid]
           ELSE [state |-> "run", mid |-> 0]
  ELSE IF e \in wcd THEN [state |-> "run", mid |-> 0]
  ELSE IF e \in freed THEN IdleEntry
  ELSE entry[e]

Entries == \E freed \in SUBSET {e \in Wid : entry[e].state = "run"} :
             entry' = [e \in Wid |-> EntryNext(e, freed)]

(* The fifo at the edge; with no request the created data does not matter.  *)
Select(pop) ==
  LET items == {r \in crt : WdSelFifoCreateEn(r)} IN
  IF items = {} THEN fifo' = FifoEdge(fifo, FALSE, FALSE, pop, PopData(fifo))
  ELSE \E r \in items : fifo' = FifoEdge(fifo, TRUE, TRUE, pop, r.mid)

SabInit == /\ WaitInit /\ fifo = ResetFifo(0)
           /\ entry = [e \in Wid |-> IdleEntry] /\ crt = {} /\ wcd = {}

SabNext == /\ Arbitrate \/ Idle
           /\ \/ TakeData /\ Select(TRUE)
              \/ wcd' = {} /\ Select(FALSE)
           /\ Entries

SabSpec == SabInit /\ [][SabNext]_sabVars

-----------------------------------------------------------------------------
(* Although room was asked for a cycle before, a request always finds it:   *)
(* its entry is idle and the fifo is not full, since whatever is in the     *)
(* fifo has an entry of its own (ct_ciu_snb_arb.v:1282, 1355).              *)
CreateFindsRoom ==
  \A r \in crt : entry[r.sid].state = "idle" /\ (WdSelFifoCreateEn(r) => ~Full(fifo))

(* The fifo asks each port for exactly the data its entries wait for: no    *)
(* item is left that nobody will answer, which would block all others, and  *)
(* no entry waits for data that nobody asks for.                            *)
AskedIsAwaited ==
  \A p \in Port :
    Cardinality({k \in 1 .. Count(fifo) : Contents(fifo)[k] = p}) = Cardinality(Waiting(p))
=============================================================================
