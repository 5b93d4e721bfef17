------------------------------ MODULE NcqRoute ------------------------------
(***************************************************************************)
(* How the non-cacheable queue (ct_ciu_ncq.v) brings reads and writes of    *)
(* the PIUs to the two places that serve them: the apb bridge (ct_ciu_apbif) *)
(* and the external bus (ebiu).                                             *)
(*                                                                         *)
(* A write address goes into waq and woq; when it leaves waq, its           *)
(* destination goes into dsq.  Write data come later, from the PIU that is  *)
(* at the head of woq, into wdq, and leave to the destination at the head   *)
(* of dsq.  Nothing but the order of the four queues ties a write's data to *)
(* its address.  waq, woq and wdq are ct_fifos and modelled as sequences    *)
(* (see CtFifo!ImplementsQueue); dsq is a ring of its own, without a full   *)
(* flag.  One step is one clock edge.                                       *)
(***************************************************************************)
EXTENDS Integers, Sequences

CONSTANTS
  NPIU,         \* number of PIUs
  QueueDepth,   \* depth of raq, waq and wdq (2)
  WoqDepth,     \* WOQ_DEPTH (16)
  DsqDepth,     \* DSQ_DEPTH (16)
  SidDepth,     \* depth of the wd_sid_fifo of a PIU (2)
  ReadCap,      \* largest value of ncq_total_ar_ostd_cnt (31)
  WriteCap      \* largest value of ncq_total_aw_ostd_cnt (31)

ASSUME DepthsAssumption ==
  /\ {NPIU, QueueDepth, WoqDepth, DsqDepth, SidDepth, ReadCap, WriteCap}
       \subseteq Nat \ {0}
  /\ NPIU * (SidDepth + 1) + QueueDepth <= DsqDepth

PIU  == 0 .. NPIU - 1
Dest == {"apb", "ebiu"}     \* raq_apbif_sel and waq_apbif_sel
None == "none"

VARIABLES
  raq,       \* destinations of the read addresses
  arApb,     \* ncq_ar_apbif_sel
  arEbiu,    \* ncq_ar_ebiu_ostd_cnt
  waq, woq,  \* write addresses [piu, dest]; the code's woq holds only the id
  wdq,       \* write data; dest is that of its address, unknown to the code
  dsq,       \* dsq_create_ptr, dsq_pop_ptr, dsq_vld, dsq_apb
  awApb,     \* ncq_aw_apbif_sel
  awEbiu,    \* ncq_aw_ebiu_ostd_cnt
  apb,       \* the apb bridge: apb_cur_state, apbif_write, resp_vld
  sid, pkb,  \* per PIU: entries of wd_sid_fifo, pkb_vld
  owed       \* writes whose data the ebiu has not got yet

vars == <<raq, arApb, arEbiu, waq, woq, wdq, dsq, awApb, awEbiu, apb, sid, pkb, owed>>

Dsq == INSTANCE CtFifo WITH DEPTH <- DsqDepth, Data <- Dest, fifo <- dsq

-----------------------------------------------------------------------------
(* Mutant: the destination is read without its valid bit. *)
DataDestUnqualified == Dsq!PopData(dsq)

(* dsq_pop_apb and dsq_pop_ebiu *)
DataDest == IF dsq.pop \in dsq.vld THEN Dsq!PopData(dsq) ELSE None

(* ncq_apbif_arvalid and ncq_ebiu_arvalid, then the same for writes.        *)
(* ciu_so_ostd_dis, which only holds back some of what is offered to the    *)
(* ebiu, is covered by an ebiu that is not ready.                           *)
ReadOffer == IF raq = << >> THEN None
             ELSE IF Head(raq) = "apb" THEN IF arEbiu = 0 /\ ~awApb THEN "apb" ELSE None
             ELSE IF ~arApb THEN "ebiu" ELSE None

(* Mutant: a write does not wait for the writes on the external bus. *)
WriteOfferEager == IF waq = << >> THEN None
              ELSE IF Head(waq).dest = "apb" THEN IF ~arApb THEN "apb" ELSE None
              ELSE IF ~awApb THEN "ebiu" ELSE None

WriteOffer == IF waq = << >> THEN None
              ELSE IF Head(waq).dest = "apb" THEN IF awEbiu = 0 /\ ~arApb THEN "apb" ELSE None
              ELSE IF ~awApb THEN "ebiu" ELSE None

(* The transactions that are outstanding: total_{ar,aw}_ostd_full stops at  *)
(* the limit.  What waits in rdq or wbq for its PIU is not counted here.    *)
Reads  == Len(raq) + arEbiu + IF arApb THEN 1 ELSE 0
Writes == Len(waq) + awEbiu + IF awApb THEN 1 ELSE 0

(* raq_create_en *)
MayRead == Len(raq) < QueueDepth /\ Reads < ReadCap

(* Mutant: a full wd_sid_fifo does not hold the write address back. *)
MayWriteNoSid(p) == Len(waq) < QueueDepth /\ Len(woq) < WoqDepth /\ Writes < WriteCap

(* waq_create_en, at a PIU that asks: its wd_sid_fifo must have room too. *)
MayWrite(p) == /\ Len(waq) < QueueDepth /\ Len(woq) < WoqDepth
               /\ Writes < WriteCap /\ sid[p] < SidDepth

(* wdq_create_en: the data of the PIU whose write is at the head of woq. *)
DataFrom == IF woq # << >> /\ pkb[Head(woq).piu] /\ Len(wdq) < QueueDepth
            THEN {Head(woq).piu} ELSE {}

(* The bridge takes an address when it is idle and has no response to give, *)
(* a read before a write.                                                   *)
BridgeFree == apb.state = "IDLE" /\ ~apb.resp

ApbRead(in)   == "clk" \in in.go /\ BridgeFree /\ ReadOffer = "apb"
ApbWrite(in)  == "clk" \in in.go /\ BridgeFree /\ WriteOffer = "apb" /\ ReadOffer # "apb"
ApbData(in)   == "clk" \in in.go /\ apb.state = "WADDR" /\ wdq # << >> /\ DataDest = "apb"
EbiuRead(in)  == "ar" \in in.go /\ ReadOffer = "ebiu"
EbiuWrite(in) == "aw" \in in.go /\ WriteOffer = "ebiu"
EbiuData(in)  == "w" \in in.go /\ wdq # << >> /\ DataDest = "ebiu"

(* Responses: the bridge goes first. *)
ApbR(in)  == "r" \in in.go /\ apb.resp /\ ~apb.write
ApbB(in)  == "b" \in in.go /\ apb.resp /\ apb.write
EbiuR(in) == "r" \in in.go /\ ~(apb.resp /\ ~apb.write) /\ arEbiu > 0
EbiuB(in) == "b" \in in.go /\ ~(apb.resp /\ apb.write) /\ awEbiu > owed

(* A flag that is set and cleared; a counter that goes up and down. *)
Flag(f, set, clear) == IF set = clear THEN f ELSE set
Count(n, up, down)  == n + (IF up THEN 1 ELSE 0) - (IF down THEN 1 ELSE 0)

Pop(q, pop) == IF pop THEN Tail(q) ELSE q
Push(q, s)  == q \o s

(* The bridge's registers: they move only in cycles of the apb clock, but   *)
(* for resp_vld, which the response clears.                                 *)
NextBridge(in) ==
  LET done == apb.state = "PEND" /\ {"clk", "cmplt"} \subseteq in.go IN
  [state |-> CASE ApbWrite(in) -> "WADDR"
               [] ApbRead(in) \/ ApbData(in) -> "REQ"
               [] apb.state = "REQ" /\ "clk" \in in.go -> "PEND"
               [] done -> "IDLE"
               [] OTHER -> apb.state,
   write |-> IF ApbRead(in) THEN FALSE ELSE ApbWrite(in) \/ apb.write,
   resp  |-> done \/ (apb.resp /\ ~ApbR(in) /\ ~ApbB(in))]

(* The ready signals that have somebody to answer in this cycle (the others *)
(* change nothing): apb_clk_en and pready of the bridge; the ebiu for a     *)
(* read, a write, data; rdq and wbq with a response to take.                *)
Heard == [clk   |-> apb.state # "IDLE" \/ (~apb.resp /\ "apb" \in {ReadOffer, WriteOffer}),
          cmplt |-> apb.state = "PEND",
          ar    |-> ReadOffer = "ebiu",
          aw    |-> WriteOffer = "ebiu",
          w     |-> wdq # << >> /\ DataDest = "ebiu",
          r     |-> arEbiu > 0 \/ (apb.resp /\ ~apb.write),
          b     |-> awEbiu > owed \/ (apb.resp /\ apb.write)]

(* What the surroundings do in a cycle: a read and a write are asked for,   *)
(* PIUs fill their pkb with write data, and go names who is ready.          *)
Inputs ==
  [ar   : {None} \cup IF MayRead THEN Dest ELSE {},
   aw   : {<< >>} \cup {<<[piu |-> p, dest |-> d]>> : p \in {q \in PIU : MayWrite(q)}, d \in Dest},
   fill : SUBSET {p \in PIU : sid[p] > 0 /\ (~pkb[p] \/ p \in DataFrom)},
   go   : SUBSET {e \in DOMAIN Heard : Heard[e]}]

ReadEdge(in) ==
  /\ raq'    = Push(Pop(raq, ApbRead(in) \/ EbiuRead(in)), IF in.ar = None THEN << >> ELSE <<in.ar>>)
  /\ arApb'  = (ApbRead(in) \/ (arApb /\ ~ApbR(in)))
  /\ arEbiu' = Count(arEbiu, EbiuRead(in), EbiuR(in))

AddressEdge(in) ==
  LET pop == ApbWrite(in) \/ EbiuWrite(in) IN
  /\ waq'    = Push(Pop(waq, pop), in.aw)
  /\ awApb'  = Flag(awApb, ApbWrite(in), ApbB(in))
  /\ awEbiu' = Count(awEbiu, EbiuWrite(in), EbiuB(in))
  /\ dsq'    = Dsq!FifoEdge(dsq, pop, pop, ApbData(in) \/ EbiuData(in),
                            IF pop THEN Head(waq).dest ELSE "ebiu")

DataEdge(in) ==
  /\ woq'  = Push(Pop(woq, DataFrom # {}), in.aw)
  /\ wdq'  = Push(Pop(wdq, ApbData(in) \/ EbiuData(in)), IF DataFrom = {} THEN << >> ELSE <<Head(woq)>>)
  /\ sid'  = [p \in PIU |-> Count(sid[p], in.aw # << >> /\ in.aw[1].piu = p, p \in in.fill)]
  /\ pkb'  = [p \in PIU |-> p \in in.fill \/ (pkb[p] /\ p \notin DataFrom)]
  /\ owed' = Count(owed, EbiuWrite(in), EbiuData(in))

Edge(in) == ReadEdge(in) /\ AddressEdge(in) /\ DataEdge(in) /\ apb' = NextBridge(in)

Init == /\ raq = << >> /\ arApb = FALSE /\ arEbiu = 0
        /\ waq = << >> /\ woq = << >> /\ wdq = << >> /\ dsq = Dsq!ResetFifo("ebiu")
        /\ awApb = FALSE /\ awEbiu = 0 /\ owed = 0
        /\ apb = [state |-> "IDLE", write |-> FALSE, resp |-> FALSE]
        /\ sid = [p \in PIU |-> 0] /\ pkb = [p \in PIU |-> FALSE]

Next == \E in \in Inputs : Edge(in)

Spec == Init /\ [][Next]_vars

-----------------------------------------------------------------------------
(* dsq has no full flag: the entries it needs are bounded by what the PIUs  *)
(* may have asked for without sending data, and by the depth of wdq         *)
(* (ct_ciu_ncq.v:1410-1474, ct_piu_top.v:1143).                             *)
DsqNeverOverflows ==
  [][\A s \in dsq.vld : dsq'.create # dsq.create => s # dsq.create]_vars

(* The data at the head of wdq go where their own address went, although    *)
(* only the order of four queues relates them; and to nobody while the      *)
(* address is still in waq (ct_ciu_ncq.v:1402-1403, 1473-1474).             *)
DataFollowsAddress == wdq # << >> => DataDest \in {None, Head(wdq).dest}

(* The bridge and the external bus never hold reads at the same time, nor   *)
(* writes, though the bridge is guarded by flags that do not count: strongly*)
(* ordered accesses cannot overtake each other on two paths                 *)
(* (ct_ciu_ncq.v:793-829, 1191-1218).                                       *)
OnePathAtATime ==
  /\ (arApb => arEbiu = 0) /\ (awApb => awEbiu = 0)
  /\ ~(arApb /\ awApb)
  /\ (apb.state # "IDLE" \/ apb.resp) <=> (arApb \/ awApb)
=============================================================================
