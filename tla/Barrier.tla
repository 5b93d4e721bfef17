------------------------------ MODULE Barrier ------------------------------
(***************************************************************************)
(* The barrier network of the ciu: the barrier merging buffer of every PIU  *)
(* (piu_top), the arbiter and queue in front of every target (bmbif_kid),   *)
(* and the targets that finish barriers (snb0, snb1, ncq, ctcq).            *)
(*                                                                         *)
(* A barrier reaches a PIU as a read half and a write half, in any order or *)
(* together, and one beat of write data after the write half.  When all     *)
(* three are there the PIU asks every target; a kid grants one PIU in each  *)
(* cycle and queues it; the target takes the head of the queue, finishes    *)
(* the barrier later, and the PIU answers when all targets have finished.   *)
(*                                                                         *)
(* One step is one clock edge of all of them.  What the surroundings do in  *)
(* the cycle is the record in: see Inputs.                                  *)
(***************************************************************************)
EXTENDS Integers, FiniteSets

CONSTANTS
  NPIU,       \* number of PIUs, and DEPTH of the kid queues (4 in the code)
  Target,     \* the targets
  Serial,     \* those that hold one barrier at a time (ctcq)
  BarReq,     \* the values of {bar_type, bar_id, bar_domain}
  Narrow,     \* those with bar_domain[0] = 0
  BarDis      \* ciu_chr2_bar_dis

ASSUME NPIUAssumption == NPIU \in Nat \ {0}
ASSUME TargetAssumption == Target # {}
ASSUME NarrowAssumption == Narrow # {} /\ Narrow \subseteq BarReq

PIU == 0 .. NPIU - 1

VARIABLES
  state,      \* bar_cur_state
  grant,      \* bar_grant: the targets whose kid has granted the barrier
  cmplt,      \* bar_cmplt: the targets that have finished it
  answered,   \* bar_resp_grant: the responses that were taken
  wd,         \* bar_wd_recevied
  req,        \* {bar_type, bar_id, bar_domain}
  sent,       \* the parts of the barrier the master has sent
  arb,        \* the priority matrix of each kid
  queue,      \* the fifo of each kid
  pending     \* the PIUs whose barrier each target has taken and not finished

piuVars == <<state, grant, cmplt, answered, wd, req>>
vars    == <<piuVars, sent, arb, queue, pending>>

(* The kid's fifo holds the one-hot vector xx_bar_sel. *)
Arb(t)   == INSTANCE CtPrio WITH NUM <- NPIU, prio <- arb[t], valid <- {}
Queue(t) == INSTANCE CtFifo WITH DEPTH <- NPIU, Data <- SUBSET PIU, fifo <- queue[t]

-----------------------------------------------------------------------------
(* Mutants: a PIU asks until the target has finished; a kid listens only    *)
(* when its queue is empty.                                                 *)
RequestsUntilDone(t) == {p \in PIU : state[p] \in {"REQ", "CMPLT"} /\ wd[p] /\ t \notin cmplt[p]}
RequestsIfEmpty(t) ==
  {p \in PIU : state[p] = "REQ" /\ wd[p] /\ t \notin grant[p] /\ queue[t].vld = {}}

(* piu_bmbif_*_req: the PIUs that ask target t, and the one the kid grants. *)
Requests(t) == {p \in PIU : state[p] = "REQ" /\ wd[p] /\ t \notin grant[p]}
Granted(t)  == Arb(t)!Sel(Requests(t), arb[t])

(* bmbif_*_bar_req with its mid: the PIU at the head of the queue. *)
Head(t) == IF Queue(t)!Empty(queue[t]) THEN {} ELSE Queue(t)!PopData(queue[t])

(* A target may take what it is offered: at once (ncq), or when its own     *)
(* arbiter lets it (snb), which it need never do; one that holds a single   *)
(* barrier (ctcq) is busy until the cycle after it has finished.            *)
MayTake(t) == Head(t) # {} /\ (t \in Serial => pending[t] = {})

(* The two halves, the write data and the responses a PIU may see next.  A  *)
(* master sends the parts of one barrier once each, the data after the      *)
(* write half, and begins a barrier when the one before it was answered.    *)
Half(p)  == IF state[p] \in {"IDLE", "WAIT"} THEN {"R", "W"} \ sent[p] ELSE {}
Owed(p)  == "W" \in sent[p] /\ "D" \notin sent[p]
Reply(p) == IF state[p] = "RESP" THEN {"R", "B"} \ answered[p] ELSE {}

(* half: ar/aw_dfifo_bmb_req; data: pkb_bmb_wcd_req; take: *_bmbif_bar_grant;*)
(* done: *_piu_bar_cmplt; noOp: ebiu_piu_no_op; reply: upkb/b_dfifo_bmb_grant*)
Inputs ==
  [half  : {h \in [PIU -> SUBSET {"R", "W"}] : \A p \in PIU : h[p] \subseteq Half(p)},
   data  : SUBSET {p \in PIU : Owed(p)},
   take  : SUBSET {t \in Target : MayTake(t)},
   done  : {d \in [Target -> SUBSET PIU] : \A t \in Target : d[t] \subseteq pending[t]},
   noOp  : SUBSET {p \in PIU : state[p] = "CMPLT"},
   reply : {r \in [PIU -> SUBSET {"R", "B"}] : \A p \in PIU : r[p] \subseteq Reply(p)}]

-----------------------------------------------------------------------------
(* The one-cycle pulses a PIU sees. *)
GrantBus(p)     == {t \in Target : p \in Granted(t)}
CmpltBus(in, p) == {t \in Target : p \in in.done[t]}

(* Mutant: one finished target is enough for the response. *)
NextStateAnyCmplt(in, p) ==
  LET h == in.half[p] IN
  CASE state[p] = "IDLE" -> IF h = {"R", "W"} THEN "REQ"
                            ELSE IF h # {} THEN "WAIT" ELSE "IDLE"
    [] state[p] = "WAIT" -> IF Cardinality(h) = 1 THEN "REQ" ELSE "WAIT"
    [] state[p] = "REQ"  -> IF grant[p] \cup GrantBus(p) = Target THEN "CMPLT" ELSE "REQ"
    [] state[p] = "CMPLT" -> IF cmplt[p] \cup CmpltBus(in, p) # {} /\ p \in in.noOp
                             THEN "RESP" ELSE "CMPLT"
    [] state[p] = "RESP" -> IF answered[p] \cup in.reply[p] = {"R", "B"}
                            THEN "IDLE" ELSE "RESP"

(* Mutant: leaving BAR_REQ sets bit 2 of the state and keeps bit 0, which   *)
(* gives 3'b101, none of the five codes.                                    *)
NextStateUncoded(in, p) ==
  CASE state[p] = "IDLE" -> IF in.half[p] = {"R", "W"} THEN "REQ"
                            ELSE IF in.half[p] # {} THEN "WAIT" ELSE "IDLE"
    [] state[p] = "WAIT" -> IF in.half[p] # {} THEN "REQ" ELSE "WAIT"
    [] OTHER             -> IF grant[p] \cup GrantBus(p) = Target THEN "101" ELSE "REQ"

(* bar_next_state, for the halves h that arrive in this cycle. *)
NextState(in, p) ==
  LET h == in.half[p] IN
  CASE state[p] = "IDLE" -> IF h = {"R", "W"} THEN "REQ"
                            ELSE IF h # {} THEN "WAIT" ELSE "IDLE"
    [] state[p] = "WAIT" -> IF Cardinality(h) = 1 THEN "REQ" ELSE "WAIT"
    [] state[p] = "REQ"  -> IF grant[p] \cup GrantBus(p) = Target THEN "CMPLT" ELSE "REQ"
    [] state[p] = "CMPLT" -> IF /\ cmplt[p] \cup CmpltBus(in, p) = Target
                                /\ (BarDis /\ req[p] \in Narrow) \/ p \in in.noOp
                             THEN "RESP" ELSE "CMPLT"
    [] state[p] = "RESP" -> IF answered[p] \cup in.reply[p] = {"R", "B"}
                            THEN "IDLE" ELSE "RESP"

(* Mutant: the bits of the previous barrier are not cleared. *)
GatherStale(in, p, bits, bus) == bits \cup bus

(* bar_grant, bar_cmplt and bar_resp_grant: a half clears, else bits gather.*)
Gather(in, p, bits, bus) == IF in.half[p] # {} THEN {} ELSE bits \cup bus

(* Mutant: either half clears bar_wd_recevied. *)
NextWdAnyHalf(in, p) == in.half[p] = {} /\ (wd[p] \/ p \in in.data)

(* bar_wd_recevied: the write half clears, with priority. *)
NextWd(in, p) == "W" \notin in.half[p] /\ (wd[p] \/ p \in in.data)

(* One clock edge of all merging buffers. *)
PiuEdge(in) ==
  /\ state'    = [p \in PIU |-> NextState(in, p)]
  /\ grant'    = [p \in PIU |-> Gather(in, p, grant[p], GrantBus(p))]
  /\ cmplt'    = [p \in PIU |-> Gather(in, p, cmplt[p], CmpltBus(in, p))]
  /\ answered' = [p \in PIU |-> Gather(in, p, answered[p], in.reply[p])]
  /\ wd'       = [p \in PIU |-> NextWd(in, p)]
  /\ req'     \in {r \in [PIU -> BarReq] : \A p \in PIU : "R" \notin in.half[p] => r[p] = req[p]}

(* One clock edge of the kids: the winner leaves the arbiter in the cycle   *)
(* in which it asks, and goes into the queue.                               *)
KidEdge(in) ==
  /\ arb'   = [t \in Target |-> Arb(t)!NextPrio(arb[t], Granted(t))]
  /\ queue' = [t \in Target |->
                 Queue(t)!FifoEdge(queue[t], Requests(t) # {}, Requests(t) # {},
                                   t \in in.take, Granted(t))]

(* Mutant: a barrier that is taken displaces the one that is pending. *)
TargetEdgeOverwrite(in) ==
  pending' = [t \in Target |-> IF t \in in.take THEN Head(t) ELSE pending[t] \ in.done[t]]

(* The targets: a barrier that is taken waits to be finished, as bar_mid    *)
(* does in the ctcq; the others may hold several and finish them in any     *)
(* order, which is more than each of them does.                             *)
TargetEdge(in) ==
  pending' = [t \in Target |->
                (pending[t] \ in.done[t]) \cup IF t \in in.take THEN Head(t) ELSE {}]

(* What the master still owes to the barrier it has begun: any order of the *)
(* parts that the ports of the PIU let through.                             *)
MasterEdge(in) ==
  sent' = [p \in PIU |-> IF NextState(in, p) = "IDLE" THEN {}
                         ELSE sent[p] \cup in.half[p] \cup IF p \in in.data THEN {"D"} ELSE {}]

Edge(in) == PiuEdge(in) /\ KidEdge(in) /\ TargetEdge(in) /\ MasterEdge(in)

ResetReq == CHOOSE r \in Narrow : TRUE

Init == /\ state = [p \in PIU |-> "IDLE"]
        /\ grant = [p \in PIU |-> {}]
        /\ cmplt = [p \in PIU |-> {}]
        /\ answered = [p \in PIU |-> {}]
        /\ wd = [p \in PIU |-> FALSE]
        /\ req = [p \in PIU |-> ResetReq]
        /\ sent = [p \in PIU |-> {}]
        /\ arb = [t \in Target |-> Arb(t)!ResetPrio]
        /\ queue = [t \in Target |-> Queue(t)!ResetFifo({})]
        /\ pending = [t \in Target |-> {}]

Next == \E in \in Inputs : Edge(in)

Spec == Init /\ [][Next]_vars

-----------------------------------------------------------------------------
(* Fairness.  The clock runs; the master sends the rest of a barrier it has *)
(* begun; a target that holds one barrier takes the next when it is free    *)
(* (ct_ciu_ctcq.v:616) and every target finishes what it took; the writes   *)
(* of the PIU drain out of the ebiu (they were sent before the barrier);    *)
(* responses are taken.  Of the other targets nothing is assumed: the snb   *)
(* may refuse the same barrier for ever, for its arbiter moves on also when *)
(* it grants nothing (ct_ciu_snb_arb.v:1282-1290).                          *)
SomeEdge(Wish(_)) == \E in \in Inputs : Wish(in) /\ Edge(in)

Fairness ==
  /\ WF_vars(Next)
  /\ \A p \in PIU :
       /\ WF_vars(state[p] = "WAIT" /\ SomeEdge(LAMBDA in : in.half[p] # {}))
       /\ WF_vars(Owed(p) /\ SomeEdge(LAMBDA in : p \in in.data))
       /\ WF_vars(state[p] = "CMPLT" /\ SomeEdge(LAMBDA in : p \in in.noOp))
       /\ \A b \in {"R", "B"} : WF_vars(b \in Reply(p) /\ SomeEdge(LAMBDA in : b \in in.reply[p]))
       /\ \A t \in Target : WF_vars(p \in pending[t] /\ SomeEdge(LAMBDA in : p \in in.done[t]))
  /\ \A t \in Serial : WF_vars(MayTake(t) /\ SomeEdge(LAMBDA in : t \in in.take))

FairSpec == Spec /\ Fairness

-----------------------------------------------------------------------------
(* Type invariant. *)
TypeOK == /\ state \in [PIU -> {"IDLE", "WAIT", "REQ", "CMPLT", "RESP"}]
          /\ grant \in [PIU -> SUBSET Target] /\ cmplt \in [PIU -> SUBSET Target]
          /\ answered \in [PIU -> SUBSET {"R", "B"}]
          /\ wd \in [PIU -> BOOLEAN] /\ req \in [PIU -> BarReq]
          /\ sent \in [PIU -> SUBSET {"R", "W", "D"}]
          /\ \A t \in Target : /\ arb[t] \in [PIU -> SUBSET PIU]
                               /\ queue[t] \in Queue(t)!FifoState
                               /\ pending[t] \subseteq PIU

(* The valid entries of the queue of target t that hold PIU p. *)
Entries(t, p) == {s \in queue[t].vld : queue[t].cont[s] = {p}}

Active(p) == state[p] \in {"REQ", "CMPLT"}

(* A barrier that is in progress is, for each target, in exactly one place: *)
(* still to be granted, in one entry of the kid's queue, taken by the       *)
(* target, or finished; and no place holds anything of a PIU that has no    *)
(* barrier in progress (ct_piu_top.v:2161-2193, ct_ciu_bmbif_kid.v:129-166).*)
InOnePlace ==
  \A p \in PIU, t \in Target :
    LET places == Cardinality(Entries(t, p)) + (IF p \in pending[t] THEN 1 ELSE 0)
                    + (IF t \in cmplt[p] THEN 1 ELSE 0)
    IN  IF Active(p) THEN places = IF t \in grant[p] THEN 1 ELSE 0
        ELSE Entries(t, p) = {} /\ p \notin pending[t]

(* The kid creates an entry whenever a PIU asks and never looks at          *)
(* fifo_full: the queue has one entry for each PIU, and that must always be *)
(* enough (ct_ciu_bmbif_kid.v:147, 153-166).                                *)
NeverOverflows ==
  \A t \in Target : Requests(t) # {} => ~Queue(t)!Full(queue[t])

(* Where the barriers are, and that there is always room for them.          *)
BarrierInv == TypeOK /\ InOnePlace /\ NeverOverflows

(* The kids of all targets have arbiters of their own and yet put barriers  *)
(* into their queues in the same order: a PIU is granted by all of them in  *)
(* the same cycle, whatever the targets have taken so far.  Otherwise two   *)
(* barriers could wait for each other at two targets that hold one barrier  *)
(* at a time (ct_ciu_bmbif_kid.v:129-145, ct_piu_top.v:2117-2126).          *)
KidsAgree == /\ \A t, u \in Target : arb[t] = arb[u]
             /\ \A p \in PIU : grant[p] \in {{}, Target}

(* The queue holds only which PIU asked; the target reads type, id and      *)
(* domain from that PIU's registers when it takes the barrier.  They must   *)
(* be what they were when the PIU was granted (ct_ciu_bmbif_kid.v:168-177). *)
RequestBusStable ==
  [][\A p \in PIU : (\E t \in Target : Entries(t, p) # {}) => req'[p] = req[p]]_vars

(* Mutant: the enable leaves out bar_vld. *)
BarCtrlClkEnBusy(in, p) == state[p] # "IDLE"

(* bar_ctrl_clk_en of a merging buffer. *)
BarCtrlClkEn(in, p) == in.half[p] # {} \/ state[p] # "IDLE"

(* bmbif_xx_clk_en of a kid's arbiter. *)
BmbifClkEn(t) == Granted(t) # {}

(* No clock gate of the network hides an edge on which one of its registers *)
(* changes: nothing that a merging buffer has to record arrives while it is *)
(* idle and sees no half, the matrix of a kid moves only when it grants,    *)
(* and the queue of a kid is neither written nor popped while its own       *)
(* enable is low (ct_piu_top.v:2003, ct_ciu_bmbif_kid.v:109, ct_fifo.v:68). *)
GatingTransparent ==
  \A in \in Inputs :
    /\ \A p \in PIU : ~BarCtrlClkEn(in, p) =>
         /\ NextState(in, p) = state[p]
         /\ Gather(in, p, grant[p], GrantBus(p)) = grant[p]
         /\ Gather(in, p, cmplt[p], CmpltBus(in, p)) = cmplt[p]
         /\ Gather(in, p, answered[p], in.reply[p]) = answered[p]
         /\ NextWd(in, p) = wd[p]
    /\ \A t \in Target :
         /\ ~BmbifClkEn(t) => Arb(t)!NextPrio(arb[t], Granted(t)) = arb[t]
         /\ LET asked == Requests(t) # {}
             IN  Queue(t)!GatedEdge(queue[t], asked, asked, t \in in.take, Granted(t))
                   = Queue(t)!FifoEdge(queue[t], asked, asked, t \in in.take, Granted(t))

(* The barrier as each PIU sees it, and what the network promises: every    *)
(* target receives and finishes this barrier before it is answered.         *)
Phase(p) == IF Active(p) THEN "open" ELSE IF state[p] = "RESP" THEN "answer" ELSE "idle"
InService(p, targets) == IF state[p] \in {"IDLE", "WAIT"} THEN {} ELSE targets

Service == INSTANCE BarrierService WITH
  phase    <- [p \in PIU |-> Phase(p)],
  finished <- [p \in PIU |-> InService(p, cmplt[p])],
  visited  <- [p \in PIU |-> InService(p, cmplt[p] \cup {t \in Target : p \in pending[t]})]

ImplementsService == Service!ServiceSpec

(* The target is offered the barrier of PIU q and does not take it. *)
Refused(t, q) == Head(t) = {q}

(* Every barrier that a PIU has begun to receive is answered and its        *)
(* merging buffer becomes free again, unless a target that may refuse is    *)
(* offered one and the same barrier and refuses it for ever: no PIU, kid or *)
(* serial target keeps another waiting (ct_piu_top.v:2071-2106).            *)
BarrierAnswered ==
  \A p \in PIU : \/ []<>(state[p] = "IDLE")
                 \/ \E t \in Target \ Serial, q \in PIU : <>[]Refused(t, q)
=============================================================================
