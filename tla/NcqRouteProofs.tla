--------------------------- MODULE NcqRouteProofs ---------------------------
(****************************************************************************)
(* Proofs about the routing of the non-cacheable queue, for every number of *)
(* PIUs and every depth of the queues that DepthsAssumption allows.         *)
(*                                                                          *)
(* The inductive invariant RouteIInv ties the four queues together.  A      *)
(* write stands once in the row dsq, waq and once in the row wdq, woq, and  *)
(* both rows name the same destinations in the same order (OrderInv).  How  *)
(* many writes of a PIU stand in woq is what its wd_sid_fifo and its pkb    *)
(* still hold (CountInv): so the second row is bounded, and with it dsq,    *)
(* which has no full flag.                                                  *)
(****************************************************************************)
EXTENDS NcqRoute, SeqLemmas

(* The lemmas about one ring, which name no variable. *)
F == INSTANCE CtFifoProofs WITH DEPTH <- DsqDepth, Data <- Dest, fifo <- dsq

Address == [piu : PIU, dest : Dest]
DestOf  == [w \in Address |-> w.dest]
OwnerOf == [w \in Address |-> w.piu]

RouteTypeOK ==
  /\ raq \in Seq(Dest) /\ waq \in Seq(Address) /\ woq \in Seq(Address) /\ wdq \in Seq(Address)
  /\ Len(wdq) <= QueueDepth
  /\ arApb \in BOOLEAN /\ awApb \in BOOLEAN
  /\ arEbiu \in Nat /\ awEbiu \in Nat /\ owed \in Nat
  /\ dsq \in F!FifoState /\ F!IsRing(dsq)
  /\ apb \in [state : {"IDLE", "WADDR", "REQ", "PEND"}, write : BOOLEAN, resp : BOOLEAN]
  /\ sid \in [PIU -> 0 .. SidDepth] /\ pkb \in [PIU -> BOOLEAN]

(* The bridge, and the two flags that say what it is busy with. *)
PathInv ==
  /\ OnePathAtATime
  /\ apb.resp => apb.state = "IDLE"
  /\ arApb \/ awApb => (apb.write <=> awApb)

(* The destinations in the two rows, and what the ebiu is owed. *)
OrderInv ==
  /\ Row(F!Contents(dsq), Mapped(waq, DestOf)) = Row(Mapped(wdq, DestOf), Mapped(woq, DestOf))
  /\ Cardinality(Places(F!Contents(dsq), "ebiu")) = owed

(* The writes of each PIU whose data have not been taken. *)
CountInv ==
  \A p \in PIU : Cardinality(Places(Mapped(woq, OwnerOf), p)) = sid[p] + (IF pkb[p] THEN 1 ELSE 0)

RouteIInv == RouteTypeOK /\ PathInv /\ OrderInv /\ CountInv

-----------------------------------------------------------------------------
(* dsq is the ring the lemmas are about. *)
LEMMA SameDsq ==
  ASSUME NEW f, NEW create, NEW pop, NEW d
  PROVE  /\ Dsq!FifoEdge(f, create, create, pop, d) = F!FifoEdge(f, create, create, pop, d)
         /\ Dsq!ResetFifo(d) = F!ResetFifo(d)
         /\ Dsq!PopData(f) = F!PopData(f)
<1>1. Dsq!FifoEdge(f, create, create, pop, d) = F!FifoEdge(f, create, create, pop, d)
  BY DEF Dsq!FifoEdge, F!FifoEdge, Dsq!NextVld, F!NextVld, Dsq!Succ, F!Succ
<1>2. Dsq!ResetFifo(d) = F!ResetFifo(d)
  BY DEF Dsq!ResetFifo, F!ResetFifo, Dsq!Slot, F!Slot
<1>3. Dsq!PopData(f) = F!PopData(f)
  BY DEF Dsq!PopData, F!PopData
<1>. QED BY <1>1, <1>2, <1>3

LEMMA DsqInstance == F!DepthAssumption /\ F!DataAssumption
BY DepthsAssumption DEF F!DepthAssumption, F!DataAssumption, Dest

(* What dsq holds, and its head, in terms of its valid bits. *)
LEMMA DsqFacts ==
  ASSUME RouteTypeOK
  PROVE  /\ F!Contents(dsq) \in Seq(Dest)
         /\ Len(F!Contents(dsq)) = F!Count(dsq)
         /\ F!Count(dsq) \in 0 .. DsqDepth
         /\ F!Count(dsq) = DsqDepth <=> F!Full(dsq)
         /\ dsq.pop \in dsq.vld => /\ ~F!Empty(dsq) /\ F!Contents(dsq) # << >>
                                   /\ F!PopData(dsq) = Head(F!Contents(dsq))
         /\ ~F!Full(dsq) => dsq.create \notin dsq.vld
<1>0. dsq \in F!FifoState /\ F!IsRing(dsq)
  BY DEF RouteTypeOK
<1>1. /\ F!Contents(dsq) \in Seq(Dest)
      /\ Len(F!Contents(dsq)) = F!Count(dsq)
      /\ F!Count(dsq) \in 0 .. DsqDepth
      /\ F!Count(dsq) = DsqDepth <=> F!Full(dsq)
  BY <1>0, DsqInstance, F!CountFacts
<1>2. dsq.pop \in dsq.vld => ~F!Empty(dsq)
  BY DEF F!Empty
<1>3. ~F!Empty(dsq) => F!Contents(dsq) # << >> /\ F!PopData(dsq) = Head(F!Contents(dsq))
  BY <1>0, DsqInstance, F!HeadIsPopData
<1>4. ~F!Full(dsq) => dsq.create \notin dsq.vld
  <2>1. /\ dsq.create # dsq.pop => dsq.create \notin dsq.vld
        /\ dsq.create = dsq.pop => F!Empty(dsq) \/ F!Full(dsq)
    BY <1>0, DsqInstance, F!RingFacts
  <2>. QED BY <2>1 DEF F!Empty
<1>. QED BY <1>1, <1>2, <1>3, <1>4

LEMMA MapTypes == DestOf \in [Address -> Dest] /\ OwnerOf \in [Address -> PIU]
BY DEF DestOf, OwnerOf, Address

LEMMA DestSeq ==
  \A q \in Seq(Address) :
    /\ Mapped(q, DestOf) \in Seq(Dest)
    /\ Len(Mapped(q, DestOf)) = Len(q)
    /\ \A k \in 1 .. Len(q) : Mapped(q, DestOf)[k] = DestOf[q[k]]
    /\ q # << >> => Mapped(q, DestOf) # << >> /\ Head(Mapped(q, DestOf)) = DestOf[Head(q)]
    /\ q = << >> => Mapped(q, DestOf) = << >>
<1>1. DestOf \in [Address -> Dest]
  BY MapTypes
<1>2. MapsSeqs(DestOf, Address, Dest)
  BY <1>1, MappedType
<1>. QED BY <1>2 DEF MapsSeqs

LEMMA OwnerSeq ==
  \A q \in Seq(Address) :
    /\ Mapped(q, OwnerOf) \in Seq(PIU)
    /\ Len(Mapped(q, OwnerOf)) = Len(q)
    /\ \A k \in 1 .. Len(q) : Mapped(q, OwnerOf)[k] = OwnerOf[q[k]]
    /\ q # << >> => Mapped(q, OwnerOf) # << >> /\ Head(Mapped(q, OwnerOf)) = OwnerOf[Head(q)]
    /\ q = << >> => Mapped(q, OwnerOf) = << >>
<1>1. OwnerOf \in [Address -> PIU]
  BY MapTypes
<1>2. MapsSeqs(OwnerOf, Address, PIU)
  BY <1>1, MappedType
<1>. QED BY <1>2 DEF MapsSeqs

-----------------------------------------------------------------------------
(* An address is offered to the bridge or to the ebiu only when the other   *)
(* path is free of its kind.                                                *)
LEMMA OfferFacts ==
  /\ ReadOffer = "apb"   => raq # << >> /\ arEbiu = 0 /\ ~awApb
  /\ ReadOffer = "ebiu"  => raq # << >> /\ ~arApb
  /\ WriteOffer = "apb"  => waq # << >> /\ Head(waq).dest = "apb" /\ awEbiu = 0 /\ ~arApb
  /\ WriteOffer = "ebiu" => waq # << >> /\ Head(waq).dest # "apb" /\ ~awApb
BY DEF ReadOffer, WriteOffer, None

(* The bridge takes one address at a time, and only when it is free. *)
LEMMA BridgeFacts ==
  ASSUME NEW in
  PROVE  /\ ApbRead(in)  => BridgeFree /\ ReadOffer = "apb"
         /\ ApbWrite(in) => BridgeFree /\ WriteOffer = "apb" /\ ~ApbRead(in)
         /\ EbiuRead(in)  => ReadOffer = "ebiu"
         /\ EbiuWrite(in) => WriteOffer = "ebiu"
         /\ ApbData(in)  => apb.state = "WADDR"
         /\ ApbR(in) => apb.resp /\ ~apb.write
         /\ ApbB(in) => apb.resp /\ apb.write
         /\ EbiuR(in) => arEbiu > 0
         /\ EbiuB(in) => awEbiu > owed
BY DEF ApbRead, ApbWrite, EbiuRead, EbiuWrite, ApbData, ApbR, ApbB, EbiuR, EbiuB

LEMMA PathStep ==
  ASSUME RouteTypeOK, PathInv, NEW in \in Inputs, Edge(in)
  PROVE  /\ PathInv'
         /\ arApb' \in BOOLEAN /\ awApb' \in BOOLEAN /\ arEbiu' \in Nat /\ awEbiu' \in Nat
         /\ apb' \in [state : {"IDLE", "WADDR", "REQ", "PEND"}, write : BOOLEAN, resp : BOOLEAN]
<1>. DEFINE rd == ApbRead(in)
            wr == ApbWrite(in)
            er == EbiuRead(in)
            ew == EbiuWrite(in)
            da == ApbData(in)
            r  == ApbR(in)
            b  == ApbB(in)
            rr == EbiuR(in)
            bb == EbiuB(in)
            done == apb.state = "PEND" /\ {"clk", "cmplt"} \subseteq in.go
<1>1. /\ arApb' = (rd \/ (arApb /\ ~r))
      /\ arEbiu' = Count(arEbiu, er, rr)
      /\ awApb' = Flag(awApb, wr, b)
      /\ awEbiu' = Count(awEbiu, ew, bb)
  BY DEF Edge, ReadEdge, AddressEdge
<1>2. /\ apb'.state = CASE wr -> "WADDR"
                       [] rd \/ da -> "REQ"
                       [] apb.state = "REQ" /\ "clk" \in in.go -> "PEND"
                       [] done -> "IDLE"
                       [] OTHER -> apb.state
      /\ apb'.write = IF rd THEN FALSE ELSE wr \/ apb.write
      /\ apb'.resp = (done \/ (apb.resp /\ ~r /\ ~b))
      /\ apb' = [state |-> apb'.state, write |-> apb'.write, resp |-> apb'.resp]
  BY DEF Edge, NextBridge
<1>3. /\ apb.state \in {"IDLE", "WADDR", "REQ", "PEND"}
      /\ apb.write \in BOOLEAN /\ apb.resp \in BOOLEAN
      /\ arApb \in BOOLEAN /\ awApb \in BOOLEAN /\ arEbiu \in Nat /\ awEbiu \in Nat /\ owed \in Nat
  BY DEF RouteTypeOK
<1>4. /\ rd \in BOOLEAN /\ wr \in BOOLEAN /\ er \in BOOLEAN /\ ew \in BOOLEAN /\ da \in BOOLEAN
      /\ r \in BOOLEAN /\ b \in BOOLEAN /\ rr \in BOOLEAN /\ bb \in BOOLEAN /\ done \in BOOLEAN
  BY DEF ApbRead, ApbWrite, EbiuRead, EbiuWrite, ApbData, ApbR, ApbB, EbiuR, EbiuB
<1>5. /\ rd => apb.state = "IDLE" /\ ~apb.resp /\ arEbiu = 0 /\ ~awApb /\ ~er
      /\ wr => apb.state = "IDLE" /\ ~apb.resp /\ awEbiu = 0 /\ ~arApb /\ ~rd /\ ~ew
      /\ er => ~arApb /\ ~rd
      /\ ew => ~awApb /\ ~wr
      /\ da => apb.state = "WADDR"
      /\ r => apb.resp /\ ~apb.write
      /\ b => apb.resp /\ apb.write
      /\ rr => arEbiu > 0
      /\ bb => awEbiu > owed
      /\ done => apb.state = "PEND"
  BY BridgeFacts, OfferFacts DEF BridgeFree
<1>6. /\ arApb => arEbiu = 0
      /\ awApb => awEbiu = 0
      /\ ~(arApb /\ awApb)
      /\ (apb.state # "IDLE" \/ apb.resp) <=> (arApb \/ awApb)
      /\ apb.resp => apb.state = "IDLE"
      /\ arApb \/ awApb => (apb.write <=> awApb)
  BY DEF PathInv, OnePathAtATime
<1>. HIDE DEF rd, wr, er, ew, da, r, b, rr, bb, done
<1>7. arApb' \in BOOLEAN /\ awApb' \in BOOLEAN
  BY <1>1, <1>3, <1>4 DEF Flag
<1>8. arEbiu' \in Nat /\ awEbiu' \in Nat
  BY <1>1, <1>3, <1>4, <1>5 DEF Count
<1>9. /\ apb'.state \in {"IDLE", "WADDR", "REQ", "PEND"}
      /\ apb'.write \in BOOLEAN /\ apb'.resp \in BOOLEAN
  BY <1>2, <1>3, <1>4
<1>10. (arApb' => arEbiu' = 0) /\ (awApb' => awEbiu' = 0)
  BY <1>1, <1>3, <1>4, <1>5, <1>6 DEF Count, Flag
<1>11. ~(arApb' /\ awApb')
  BY <1>1, <1>3, <1>4, <1>5, <1>6 DEF Flag
<1>12. (apb'.state # "IDLE" \/ apb'.resp) <=> (arApb' \/ awApb')
  BY <1>1, <1>2, <1>3, <1>4, <1>5, <1>6 DEF Flag
<1>13. apb'.resp => apb'.state = "IDLE"
  BY <1>2, <1>3, <1>4, <1>5, <1>6
<1>14. arApb' \/ awApb' => (apb'.write <=> awApb')
  BY <1>1, <1>2, <1>3, <1>4, <1>5, <1>6 DEF Flag
<1>15. PathInv'
  BY <1>10, <1>11, <1>12, <1>13, <1>14 DEF PathInv, OnePathAtATime
<1>16. apb' \in [state : {"IDLE", "WADDR", "REQ", "PEND"}, write : BOOLEAN, resp : BOOLEAN]
  BY <1>2, <1>9
<1>. QED BY <1>7, <1>8, <1>15, <1>16

-----------------------------------------------------------------------------
(* The room in dsq: while an address is in waq, the first row is longer than *)
(* dsq, and the second row is bounded by what the PIUs hold and by wdq.     *)
LEMMA RoomForDestination ==
  ASSUME RouteIInv, waq # << >>
  PROVE  ~F!Full(dsq)
<1>. DEFINE a == F!Contents(dsq)
            b == Mapped(waq, DestOf)
            c == Mapped(wdq, DestOf)
            e == Mapped(woq, DestOf)
            o == Mapped(woq, OwnerOf)
            k == SidDepth + 1
<1>1. /\ waq \in Seq(Address) /\ woq \in Seq(Address) /\ wdq \in Seq(Address)
      /\ Len(wdq) <= QueueDepth
  BY DEF RouteIInv, RouteTypeOK
<1>2. NPIU \in Nat \ {0} /\ SidDepth \in Nat /\ QueueDepth \in Nat /\ DsqDepth \in Nat
      /\ NPIU * k + QueueDepth <= DsqDepth
  BY DepthsAssumption
<1>3. IsFiniteSet(PIU) /\ Cardinality(PIU) = NPIU
  BY <1>2, FS_Interval DEF PIU
<1>4. \A q \in Seq(Address) : Mapped(q, DestOf) \in Seq(Dest) /\ Len(Mapped(q, DestOf)) = Len(q)
  BY DestSeq
<1>5. o \in Seq(PIU) /\ Len(o) = Len(woq)
  BY <1>1, OwnerSeq
<1>6. Len(woq) <= NPIU * k
  <2>1. \A p \in PIU : Cardinality(Places(o, p)) <= k
    <3>. TAKE p \in PIU
    <3>1. Cardinality(Places(o, p)) = sid[p] + (IF pkb[p] THEN 1 ELSE 0)
      BY DEF RouteIInv, CountInv
    <3>2. sid[p] \in 0 .. SidDepth
      BY DEF RouteIInv, RouteTypeOK
    <3>. QED BY <1>2, <3>1, <3>2
  <2>2. k \in Nat
    BY <1>2
  <2>. HIDE DEF k, o
  <2>3. Len(o) <= Cardinality(PIU) * k
    BY <1>3, <1>5, <2>1, <2>2, LengthBound
  <2>. QED BY <1>3, <1>5, <2>3
<1>7. a \in Seq(Dest) /\ Len(a) = F!Count(dsq) /\ (F!Full(dsq) => F!Count(dsq) = DsqDepth)
  BY DsqFacts DEF RouteIInv
<1>8. b \in Seq(Dest) /\ c \in Seq(Dest) /\ e \in Seq(Dest)
      /\ Len(b) = Len(waq) /\ Len(c) = Len(wdq) /\ Len(e) = Len(woq)
  BY <1>1, <1>4
<1>9. Row(a, b) = Row(c, e)
  BY DEF RouteIInv, OrderInv
<1>10. Len(waq) \in Nat \ {0} /\ Len(woq) \in Nat /\ Len(wdq) \in Nat
  BY <1>1, EmptySeq, LenProperties
<1>11. Len(a) + Len(b) = Len(c) + Len(e)
  <2>. HIDE DEF a, b, c, e
  <2>1. Len(Row(a, b)) = Len(a) + Len(b)
    BY <1>7, <1>8, RowType
  <2>2. Len(Row(c, e)) = Len(c) + Len(e)
    BY <1>8, RowType
  <2>. QED BY <1>9, <2>1, <2>2
<1>12. NPIU * k \in Nat
  BY <1>2
<1>. DEFINE max == NPIU * k
<1>13. /\ Len(woq) <= max /\ max \in Nat /\ max + QueueDepth <= DsqDepth
       /\ F!Full(dsq) => Len(a) = DsqDepth
  BY <1>2, <1>6, <1>7, <1>12
<1>. HIDE DEF a, b, c, e, max
<1>. QED BY <1>1, <1>2, <1>8, <1>10, <1>11, <1>13

(* What the queues lose and gain at an edge. *)
LEMMA QueueStep ==
  ASSUME RouteIInv, NEW in \in Inputs, Edge(in)
  PROVE  LET popw == ApbWrite(in) \/ EbiuWrite(in)
             popd == ApbData(in) \/ EbiuData(in)
             move == DataFrom # {}
         IN  /\ popw => waq # << >>
             /\ popd => wdq # << >> /\ F!Contents(dsq) # << >>
             /\ move => woq # << >>
             /\ in.aw \in Seq(Address)
             /\ waq' = Row(Rest(waq, popw), in.aw)
             /\ woq' = Row(Rest(woq, move), in.aw)
             /\ wdq' = Row(Rest(wdq, popd), First(woq, move))
             /\ F!Contents(dsq') = Row(Rest(F!Contents(dsq), popd), First(Mapped(waq, DestOf), popw))
             /\ dsq' \in F!FifoState /\ F!IsRing(dsq')
             /\ popw => dsq.create \notin dsq.vld
             /\ dsq'.create # dsq.create => popw
<1>. DEFINE popw == ApbWrite(in) \/ EbiuWrite(in)
            popd == ApbData(in) \/ EbiuData(in)
            move == DataFrom # {}
            dest == IF popw THEN Head(waq).dest ELSE "ebiu"
            a == F!Contents(dsq)
<1>1. popw \in BOOLEAN /\ popd \in BOOLEAN /\ move \in BOOLEAN
  BY DEF ApbWrite, EbiuWrite, ApbData, EbiuData
<1>2. popw => waq # << >>
  BY BridgeFacts, OfferFacts
<1>3. popd => wdq # << >> /\ dsq.pop \in dsq.vld
  BY DEF ApbData, EbiuData, DataDest, None
<1>4. move => woq # << >>
  BY DEF DataFrom
<1>5. in.aw \in Seq(Address)
  <2>1. in.aw \in {<< >>} \cup {<<[piu |-> p, dest |-> d]>> : p \in {q \in PIU : MayWrite(q)}, d \in Dest}
    BY DEF Inputs
  <2>2. CASE in.aw = << >>
    BY <2>2, EmptySeq
  <2>3. ASSUME NEW p \in PIU, NEW d \in Dest, in.aw = <<[piu |-> p, dest |-> d]>>
        PROVE  in.aw \in Seq(Address)
    <3>1. [piu |-> p, dest |-> d] \in Address
      BY DEF Address
    <3>. QED BY <2>3, <3>1
  <2>. QED BY <2>1, <2>2, <2>3
<1>6. /\ waq \in Seq(Address) /\ woq \in Seq(Address) /\ wdq \in Seq(Address)
      /\ dsq \in F!FifoState /\ F!IsRing(dsq)
  BY DEF RouteIInv, RouteTypeOK
<1>7. dest \in Dest
  <2>1. popw => Head(waq) \in Address
    BY <1>2, <1>6, HeadTailProperties
  <2>. QED BY <2>1 DEF Address, Dest
<1>8. /\ waq' = Row(Rest(waq, popw), in.aw)
      /\ woq' = Row(Rest(woq, move), in.aw)
  BY DEF Edge, AddressEdge, DataEdge, Pop, Push, Rest, Row
<1>9. wdq' = Row(Rest(wdq, popd), First(woq, move))
  <2>1. (IF DataFrom = {} THEN << >> ELSE <<Head(woq)>>) = First(woq, move)
    BY DEF First
  <2>. QED BY <2>1 DEF Edge, DataEdge, Pop, Push, Rest, Row
<1>10. dsq' = F!FifoEdge(dsq, popw, popw, popd, dest)
  <2>1. dsq' = Dsq!FifoEdge(dsq, popw, popw, popd, dest)
    BY DEF Edge, AddressEdge
  <2>. QED BY <2>1, SameDsq
<1>11. /\ popd => ~F!Empty(dsq) /\ a # << >>
       /\ ~F!Full(dsq) => dsq.create \notin dsq.vld
       /\ a \in Seq(Dest)
  BY <1>3, DsqFacts DEF RouteIInv
<1>12. popw => ~F!Full(dsq)
  BY <1>2, RoomForDestination
<1>13. F!Legal(dsq, popw, popw, popd)
  BY <1>11, <1>12 DEF F!Legal
<1>14. dsq'.create # dsq.create => popw
  BY <1>10 DEF F!FifoEdge
<1>. HIDE DEF popw, popd, dest, a
<1>15. dsq' \in F!FifoState /\ F!IsRing(dsq')
  BY <1>1, <1>6, <1>7, <1>10, <1>13, DsqInstance, F!EdgeKeepsRing
<1>16. F!Contents(dsq') = IF popw THEN Append(Rest(a, popd), dest) ELSE Rest(a, popd)
  BY <1>1, <1>6, <1>7, <1>10, <1>13, DsqInstance, F!ContentsStep DEF Rest, a
<1>17. F!Contents(dsq') = Row(Rest(a, popd), First(Mapped(waq, DestOf), popw))
  <2>1. Rest(a, popd) \in Seq(Dest)
    BY <1>1, <1>11, RestType
  <2>2. CASE popw
    <3>1. Head(waq) \in Address /\ dest = Head(waq).dest
      BY <1>2, <1>6, <2>2, HeadTailProperties DEF dest
    <3>2. Head(Mapped(waq, DestOf)) = dest
      <4>1. Head(Mapped(waq, DestOf)) = DestOf[Head(waq)]
        BY <1>2, <1>6, <2>2, DestSeq
      <4>. QED BY <3>1, <4>1 DEF DestOf
    <3>. DEFINE r == Rest(a, popd)
    <3>. HIDE DEF r
    <3>3. Append(r, dest) = r \o <<dest>>
      BY <1>7, <2>1, AppendIsConcat DEF r
    <3>. QED BY <1>16, <2>2, <3>2, <3>3 DEF First, r, Row
  <2>3. CASE ~popw
    <3>. DEFINE r == Rest(a, popd)
    <3>. HIDE DEF r
    <3>1. r \o << >> = r
      BY <2>1, ConcatEmptySeq DEF r
    <3>. QED BY <1>16, <2>3, <3>1 DEF First, r, Row
  <2>. QED BY <2>2, <2>3
<1>. QED BY <1>2, <1>3, <1>4, <1>5, <1>8, <1>9, <1>11, <1>12, <1>14, <1>15, <1>17 DEF popw, popd, a

-----------------------------------------------------------------------------
(* What is mapped moves as the addresses do. *)
LEMMA DestMoves ==
  ASSUME NEW s \in Seq(Address), NEW t \in Seq(Address), NEW pop \in BOOLEAN, pop => s # << >>
  PROVE  Mapped(Row(Rest(s, pop), t), DestOf) = Row(Rest(Mapped(s, DestOf), pop), Mapped(t, DestOf))
<1>1. DestOf \in [Address -> Dest]
  BY MapTypes
<1>2. MovesAlong(s, t, DestOf)
  BY <1>1, MappedRow
<1>. QED BY <1>2 DEF MovesAlong, Rest

LEMMA OwnerMoves ==
  ASSUME NEW s \in Seq(Address), NEW t \in Seq(Address), NEW pop \in BOOLEAN, pop => s # << >>
  PROVE  Mapped(Row(Rest(s, pop), t), OwnerOf) = Row(Rest(Mapped(s, OwnerOf), pop), Mapped(t, OwnerOf))
<1>1. OwnerOf \in [Address -> PIU]
  BY MapTypes
<1>2. MovesAlong(s, t, OwnerOf)
  BY <1>1, MappedRow
<1>. QED BY <1>2 DEF MovesAlong, Rest

(* Both rows lose and gain the same, so they go on naming the same          *)
(* destinations in the same order.                                          *)
LEMMA OrderStep ==
  ASSUME RouteIInv, NEW in \in Inputs, Edge(in)
  PROVE  OrderInv' /\ owed' \in Nat
<1>. DEFINE popw == ApbWrite(in) \/ EbiuWrite(in)
            popd == ApbData(in) \/ EbiuData(in)
            move == DataFrom # {}
            a == F!Contents(dsq)
            b == Mapped(waq, DestOf)
            c == Mapped(wdq, DestOf)
            e == Mapped(woq, DestOf)
            y == Mapped(in.aw, DestOf)
            f == First(woq, move)
<1>1. popw \in BOOLEAN /\ popd \in BOOLEAN /\ move \in BOOLEAN
  BY DEF ApbWrite, EbiuWrite, ApbData, EbiuData
<1>2. /\ popw => waq # << >>
      /\ popd => wdq # << >> /\ a # << >>
      /\ move => woq # << >>
      /\ in.aw \in Seq(Address)
      /\ waq' = Row(Rest(waq, popw), in.aw)
      /\ woq' = Row(Rest(woq, move), in.aw)
      /\ wdq' = Row(Rest(wdq, popd), f)
      /\ F!Contents(dsq') = Row(Rest(a, popd), First(b, popw))
      /\ dsq' \in F!FifoState /\ F!IsRing(dsq')
  BY QueueStep
<1>3. /\ waq \in Seq(Address) /\ woq \in Seq(Address) /\ wdq \in Seq(Address)
      /\ owed \in Nat
  BY DEF RouteIInv, RouteTypeOK
<1>4. /\ b \in Seq(Dest) /\ c \in Seq(Dest) /\ e \in Seq(Dest) /\ y \in Seq(Dest)
      /\ waq # << >> => b # << >> /\ Head(b) = DestOf[Head(waq)]
      /\ wdq # << >> => c # << >>
      /\ woq # << >> => e # << >>
  BY <1>2, <1>3, DestSeq
<1>5. a \in Seq(Dest)
  BY DsqFacts DEF RouteIInv
<1>6. Row(a, b) = Row(c, e) /\ Cardinality(Places(a, "ebiu")) = owed
  BY DEF RouteIInv, OrderInv
<1>7. /\ popw => b # << >>
      /\ popd => a # << >> /\ c # << >>
      /\ move => e # << >>
  BY <1>2, <1>4
<1>8. f \in Seq(Address) /\ Mapped(f, DestOf) = First(e, move)
  <2>1. f \in Seq(Address)
    BY <1>1, <1>2, <1>3, RestType
  <2>2. Mapped(First(woq, move), DestOf) = First(Mapped(woq, DestOf), move)
    BY <1>1, <1>2, <1>3, MapTypes, MappedFirst
  <2>. QED BY <2>1, <2>2
<1>9. Mapped(waq', DestOf) = Row(Rest(b, popw), y)
  <2>. HIDE DEF popw
  <2>1. Mapped(Row(Rest(waq, popw), in.aw), DestOf) = Row(Rest(b, popw), y)
    BY <1>1, <1>2, <1>3, DestMoves
  <2>. QED BY <1>2, <2>1
<1>10. Mapped(woq', DestOf) = Row(Rest(e, move), y)
  <2>. HIDE DEF move
  <2>1. Mapped(Row(Rest(woq, move), in.aw), DestOf) = Row(Rest(e, move), y)
    BY <1>1, <1>2, <1>3, DestMoves
  <2>. QED BY <1>2, <2>1
<1>11. Mapped(wdq', DestOf) = Row(Rest(c, popd), First(e, move))
  <2>. HIDE DEF popd, f
  <2>1. Mapped(Row(Rest(wdq, popd), f), DestOf) = Row(Rest(c, popd), Mapped(f, DestOf))
    BY <1>1, <1>2, <1>3, <1>8, DestMoves
  <2>. QED BY <1>2, <1>8, <2>1
<1>12. Row(F!Contents(dsq'), Mapped(waq', DestOf)) = Row(Mapped(wdq', DestOf), Mapped(woq', DestOf))
  <2>. HIDE DEF popw, popd, move, a, b, c, e, y
  <2>1. Row(Row(Rest(a, popd), First(b, popw)), Row(Rest(b, popw), y)) = Row(Rest(Row(a, b), popd), y)
    BY <1>1, <1>4, <1>5, <1>7, RowStep
  <2>2. Row(Row(Rest(c, popd), First(e, move)), Row(Rest(e, move), y)) = Row(Rest(Row(c, e), popd), y)
    BY <1>1, <1>4, <1>7, RowStep
  <2>. QED BY <1>2, <1>6, <1>9, <1>10, <1>11, <2>1, <2>2
<1>13. owed' = owed - (IF popd /\ "ebiu" = Head(a) THEN 1 ELSE 0)
                    + (IF popw /\ "ebiu" = Head(b) THEN 1 ELSE 0)
  <2>1. owed' = Count(owed, EbiuWrite(in), EbiuData(in))
    BY DEF Edge, DataEdge
  <2>2. EbiuWrite(in) <=> popw /\ "ebiu" = Head(b)
    <3>1. popw => Head(waq) \in Address
      BY <1>2, <1>3, HeadTailProperties
    <3>2. popw => Head(b) = Head(waq).dest /\ Head(b) \in {"apb", "ebiu"}
      BY <1>2, <1>4, <3>1 DEF DestOf, Address, Dest
    <3>3. EbiuWrite(in) => Head(waq).dest # "apb"
      BY BridgeFacts, OfferFacts
    <3>4. ApbWrite(in) => Head(waq).dest = "apb"
      BY BridgeFacts, OfferFacts
    <3>. QED BY <3>2, <3>3, <3>4
  <2>3. EbiuData(in) <=> popd /\ "ebiu" = Head(a)
    <3>1. popd => dsq.pop \in dsq.vld
      BY DEF ApbData, EbiuData, DataDest, None
    <3>2. popd => DataDest = Head(a)
      BY <3>1, DsqFacts, SameDsq DEF DataDest, RouteIInv
    <3>. QED BY <3>2 DEF ApbData, EbiuData
  <2>. QED BY <1>3, <2>1, <2>2, <2>3 DEF Count
<1>14. Cardinality(Places(F!Contents(dsq'), "ebiu")) = owed'
  <2>. DEFINE h == IF popw THEN Head(b) ELSE "ebiu"
  <2>1. h \in Dest
    <3>. HIDE DEF b, popw
    <3>. QED BY <1>4, <1>7, HeadTailProperties DEF Dest
  <2>2. First(b, popw) = IF popw THEN <<h>> ELSE << >>
    BY DEF First
  <2>. HIDE DEF popw, popd, a, b, h
  <2>3. Cardinality(Places(Row(Rest(a, popd), IF popw THEN <<h>> ELSE << >>), "ebiu"))
          = Cardinality(Places(a, "ebiu")) - (IF popd /\ "ebiu" = Head(a) THEN 1 ELSE 0)
                                           + (IF popw /\ "ebiu" = h THEN 1 ELSE 0)
    BY <1>1, <1>5, <1>7, <2>1, PlacesStep
  <2>4. (IF popw /\ "ebiu" = h THEN 1 ELSE 0) = (IF popw /\ "ebiu" = Head(b) THEN 1 ELSE 0)
    BY DEF h
  <2>. QED BY <1>2, <1>6, <1>13, <2>2, <2>3, <2>4
<1>15. owed' \in Nat
  <2>1. F!Contents(dsq') \in Seq(Dest)
    BY <1>2, DsqInstance, F!CountFacts
  <2>. DEFINE q == F!Contents(dsq')
  <2>. HIDE DEF q
  <2>2. Cardinality(Places(q, "ebiu")) \in Nat
    BY <2>1, PlacesFinite, FS_CardinalityType DEF q
  <2>. QED BY <1>14, <2>2 DEF q
<1>. QED BY <1>12, <1>14, <1>15 DEF OrderInv

-----------------------------------------------------------------------------
(* The address that is created, if there is one, is of a PIU with room in   *)
(* its wd_sid_fifo; pkb is filled from wd_sid_fifo, when it is free or is   *)
(* just being taken.                                                        *)
LEMMA InputFacts ==
  ASSUME NEW in \in Inputs
  PROVE  /\ in.ar \in Dest \cup {None}
         /\ in.aw # << >> => /\ in.aw = <<in.aw[1]>> /\ in.aw[1] \in Address
                             /\ MayWrite(in.aw[1].piu)
         /\ \A p \in in.fill : sid[p] > 0 /\ (~pkb[p] \/ p \in DataFrom)
<1>1. /\ in.ar \in {None} \cup IF MayRead THEN Dest ELSE {}
      /\ in.aw \in {<< >>} \cup {<<[piu |-> p, dest |-> d]>> : p \in {q \in PIU : MayWrite(q)}, d \in Dest}
      /\ in.fill \in SUBSET {p \in PIU : sid[p] > 0 /\ (~pkb[p] \/ p \in DataFrom)}
  BY DEF Inputs
<1>2. ASSUME in.aw # << >>
      PROVE  in.aw = <<in.aw[1]>> /\ in.aw[1] \in Address /\ MayWrite(in.aw[1].piu)
  <2>1. PICK p \in {q \in PIU : MayWrite(q)}, d \in Dest : in.aw = <<[piu |-> p, dest |-> d]>>
    BY <1>1, <1>2
  <2>2. in.aw[1] = [piu |-> p, dest |-> d]
    BY <2>1
  <2>. QED BY <2>1, <2>2 DEF Address
<1>. QED BY <1>1, <1>2

LEMMA CountStep ==
  ASSUME RouteIInv, NEW in \in Inputs, Edge(in)
  PROVE  CountInv' /\ sid' \in [PIU -> 0 .. SidDepth] /\ pkb' \in [PIU -> BOOLEAN]
<1>. DEFINE move == DataFrom # {}
            push == in.aw # << >>
            owner == IF push THEN in.aw[1].piu ELSE 0
            o == Mapped(woq, OwnerOf)
            x == IF push THEN <<owner>> ELSE << >>
<1>1. /\ woq \in Seq(Address)
      /\ sid \in [PIU -> 0 .. SidDepth] /\ pkb \in [PIU -> BOOLEAN] /\ SidDepth \in Nat
  BY DepthsAssumption DEF RouteIInv, RouteTypeOK
<1>2. owner \in PIU /\ (push => sid[owner] < SidDepth)
  <2>1. push => in.aw[1] \in Address /\ MayWrite(in.aw[1].piu)
    BY InputFacts
  <2>2. 0 \in PIU
    BY DepthsAssumption DEF PIU
  <2>. QED BY <2>1, <2>2 DEF Address, MayWrite
<1>3. move => woq # << >> /\ DataFrom = {Head(woq).piu} /\ pkb[Head(woq).piu]
  BY DEF DataFrom
<1>4. /\ woq' = Row(Rest(woq, move), in.aw)
      /\ in.aw \in Seq(Address)
  BY QueueStep
<1>5. Mapped(in.aw, OwnerOf) = x
  <2>1. CASE push
    <3>1. in.aw = <<in.aw[1]>> /\ in.aw[1] \in Address
      BY <2>1, InputFacts
    <3>. DEFINE w == in.aw[1]
    <3>2. Mapped(<<w>>, OwnerOf) = <<OwnerOf[w]>>
      BY DEF Mapped
    <3>3. OwnerOf[w] = owner
      BY <2>1, <3>1 DEF OwnerOf
    <3>. QED BY <2>1, <3>1, <3>2, <3>3
  <2>2. CASE ~push
    BY <1>4, <2>2, OwnerSeq
  <2>. QED BY <2>1, <2>2
<1>6. o \in Seq(PIU) /\ (woq # << >> => o # << >> /\ Head(o) = Head(woq).piu)
  <2>1. woq # << >> => Head(woq) \in Address
    BY <1>1, HeadTailProperties
  <2>2. o \in Seq(PIU) /\ (woq # << >> => o # << >> /\ Head(o) = OwnerOf[Head(woq)])
    BY <1>1, OwnerSeq
  <2>. QED BY <2>1, <2>2 DEF OwnerOf
<1>7. Mapped(woq', OwnerOf) = Row(Rest(o, move), x)
  <2>1. move \in BOOLEAN
    OBVIOUS
  <2>. HIDE DEF move
  <2>2. Mapped(Row(Rest(woq, move), in.aw), OwnerOf) = Row(Rest(o, move), Mapped(in.aw, OwnerOf))
    BY <1>1, <1>3, <1>4, <2>1, OwnerMoves
  <2>. QED BY <1>4, <1>5, <2>2
<1>8. ASSUME NEW p \in PIU
      PROVE  /\ Cardinality(Places(Mapped(woq', OwnerOf), p)) = sid'[p] + (IF pkb'[p] THEN 1 ELSE 0)
             /\ sid'[p] \in 0 .. SidDepth /\ pkb'[p] \in BOOLEAN
  <2>. DEFINE taken == p \in DataFrom
              new == push /\ p = owner
              fill == p \in in.fill
  <2>1. /\ sid'[p] = sid[p] + (IF new THEN 1 ELSE 0) - (IF fill THEN 1 ELSE 0)
        /\ pkb'[p] = (fill \/ (pkb[p] /\ ~taken))
    <3>1. sid'[p] = Count(sid[p], in.aw # << >> /\ in.aw[1].piu = p, p \in in.fill)
      BY DEF Edge, DataEdge
    <3>2. (in.aw # << >> /\ in.aw[1].piu = p) <=> new
      OBVIOUS
    <3>3. pkb'[p] = (fill \/ (pkb[p] /\ ~taken))
      BY DEF Edge, DataEdge
    <3>. QED BY <3>1, <3>2, <3>3 DEF Count
  <2>2. /\ taken => pkb[p]
        /\ fill => sid[p] > 0 /\ (~pkb[p] \/ taken)
        /\ new => sid[p] < SidDepth
    BY <1>2, <1>3, InputFacts
  <2>3. taken <=> move /\ p = Head(o)
    BY <1>3, <1>6
  <2>4. Cardinality(Places(Mapped(woq', OwnerOf), p))
          = Cardinality(Places(o, p)) - (IF taken THEN 1 ELSE 0) + (IF new THEN 1 ELSE 0)
    <3>1. move \in BOOLEAN /\ push \in BOOLEAN /\ (move => o # << >>)
      BY <1>3, <1>6
    <3>. HIDE DEF move, push, owner, o, taken
    <3>2. Cardinality(Places(Row(Rest(o, move), IF push THEN <<owner>> ELSE << >>), p))
            = Cardinality(Places(o, p)) - (IF move /\ p = Head(o) THEN 1 ELSE 0)
                                        + (IF push /\ p = owner THEN 1 ELSE 0)
      BY <1>2, <1>6, <3>1, PlacesStep
    <3>. QED BY <1>7, <2>3, <3>2
  <2>5. Cardinality(Places(o, p)) = sid[p] + (IF pkb[p] THEN 1 ELSE 0)
    BY DEF RouteIInv, CountInv
  <2>6. sid[p] \in 0 .. SidDepth /\ pkb[p] \in BOOLEAN
    BY <1>1
  <2>. DEFINE n == Cardinality(Places(Mapped(woq', OwnerOf), p))
  <2>. taken \in BOOLEAN /\ new \in BOOLEAN /\ fill \in BOOLEAN
    OBVIOUS
  <2>. HIDE DEF n, o, taken, new, fill
  <2>7. n = sid[p] + (IF pkb[p] THEN 1 ELSE 0) - (IF taken THEN 1 ELSE 0) + (IF new THEN 1 ELSE 0)
    BY <1>1, <2>4, <2>5, <2>6 DEF n
  <2>8. sid'[p] \in 0 .. SidDepth /\ pkb'[p] \in BOOLEAN
    BY <1>1, <2>1, <2>2, <2>6
  <2>9. n = sid'[p] + (IF pkb'[p] THEN 1 ELSE 0)
    <3>1. CASE taken
      BY <2>1, <2>2, <2>6, <2>7, <3>1
    <3>2. CASE ~taken
      BY <2>1, <2>2, <2>6, <2>7, <3>2
    <3>. QED BY <3>1, <3>2
  <2>. QED BY <2>8, <2>9 DEF n
<1>9. sid' \in [PIU -> 0 .. SidDepth] /\ pkb' \in [PIU -> BOOLEAN]
  <2>1. /\ sid' = [p \in PIU |-> sid'[p]]
        /\ pkb' = [p \in PIU |-> pkb'[p]]
    BY DEF Edge, DataEdge
  <2>. QED BY <1>8, <2>1
<1>. QED BY <1>8, <1>9 DEF CountInv

LEMMA TypeStep ==
  ASSUME RouteIInv, NEW in \in Inputs, Edge(in)
  PROVE  RouteTypeOK'
<1>. DEFINE popr == ApbRead(in) \/ EbiuRead(in)
            popw == ApbWrite(in) \/ EbiuWrite(in)
            popd == ApbData(in) \/ EbiuData(in)
            move == DataFrom # {}
            new == IF in.ar = None THEN << >> ELSE <<in.ar>>
            f == First(woq, move)
<1>0. /\ popr \in BOOLEAN /\ popw \in BOOLEAN /\ popd \in BOOLEAN /\ move \in BOOLEAN
  BY DEF ApbRead, EbiuRead, ApbWrite, EbiuWrite, ApbData, EbiuData
<1>1. /\ raq \in Seq(Dest) /\ waq \in Seq(Address) /\ woq \in Seq(Address)
      /\ wdq \in Seq(Address) /\ Len(wdq) <= QueueDepth /\ QueueDepth \in Nat
  BY DepthsAssumption DEF RouteIInv, RouteTypeOK
<1>2. /\ popw => waq # << >>
      /\ popd => wdq # << >>
      /\ move => woq # << >>
      /\ in.aw \in Seq(Address)
      /\ waq' = Row(Rest(waq, popw), in.aw)
      /\ woq' = Row(Rest(woq, move), in.aw)
      /\ wdq' = Row(Rest(wdq, popd), f)
      /\ dsq' \in F!FifoState /\ F!IsRing(dsq')
  BY QueueStep
<1>3. raq' = Row(Rest(raq, popr), new)
  BY DEF Edge, ReadEdge, Pop, Push, Rest, Row
<1>4. popr => raq # << >>
  BY BridgeFacts, OfferFacts
<1>5. new \in Seq(Dest)
  <2>1. in.ar \in Dest \cup {None}
    BY InputFacts
  <2>. QED BY <2>1, EmptySeq
<1>6. move => Len(wdq) < QueueDepth
  BY DEF DataFrom
<1>7. f \in Seq(Address) /\ Len(f) = IF move THEN 1 ELSE 0
  BY <1>0, <1>1, <1>2, RestType, RestLength
<1>. HIDE DEF popr, popw, popd, move, new, f
<1>8. raq' \in Seq(Dest)
  BY <1>0, <1>1, <1>3, <1>4, <1>5, RestType, RowType
<1>9. waq' \in Seq(Address)
  BY <1>0, <1>1, <1>2, RestType, RowType
<1>10. woq' \in Seq(Address)
  BY <1>0, <1>1, <1>2, RestType, RowType
<1>11. wdq' \in Seq(Address) /\ Len(wdq') <= QueueDepth
  <2>. DEFINE r == Rest(wdq, popd)
  <2>1. r \in Seq(Address) /\ Len(r) = Len(wdq) - (IF popd THEN 1 ELSE 0)
    BY <1>0, <1>1, <1>2, RestType, RestLength
  <2>2. Len(wdq) \in Nat
    BY <1>1, LenProperties
  <2>. HIDE DEF r
  <2>3. Row(r, f) \in Seq(Address) /\ Len(Row(r, f)) = Len(r) + Len(f)
    BY <1>7, <2>1, RowType
  <2>4. wdq' = Row(r, f)
    BY <1>2 DEF r
  <2>. QED BY <1>0, <1>1, <1>6, <1>7, <2>1, <2>2, <2>3, <2>4
<1>12. /\ arApb' \in BOOLEAN /\ awApb' \in BOOLEAN /\ arEbiu' \in Nat /\ awEbiu' \in Nat
       /\ apb' \in [state : {"IDLE", "WADDR", "REQ", "PEND"}, write : BOOLEAN, resp : BOOLEAN]
  BY PathStep DEF RouteIInv
<1>13. owed' \in Nat
  BY OrderStep
<1>14. sid' \in [PIU -> 0 .. SidDepth] /\ pkb' \in [PIU -> BOOLEAN]
  BY CountStep
<1>. QED BY <1>2, <1>8, <1>9, <1>10, <1>11, <1>12, <1>13, <1>14 DEF RouteTypeOK

-----------------------------------------------------------------------------
LEMMA RouteInit == Init => RouteIInv
<1>. SUFFICES ASSUME Init PROVE RouteIInv
  OBVIOUS
<1>1. /\ NPIU \in Nat \ {0} /\ SidDepth \in Nat /\ QueueDepth \in Nat /\ DsqDepth \in Nat \ {0}
  BY DepthsAssumption
<1>2. dsq = F!ResetFifo("ebiu")
  BY SameDsq DEF Init
<1>3. dsq \in F!FifoState /\ F!IsRing(dsq) /\ F!Contents(dsq) = << >>
  BY <1>1, <1>2 DEF F!ResetFifo, F!FifoState, F!IsRing, F!Empty, F!Slot, F!Contents, F!Count, Dest
<1>4. << >> \in Seq(Address) /\ << >> \in Seq(Dest) /\ << >> \in Seq(PIU) /\ Len(<< >>) = 0
  BY EmptySeq
<1>5. Mapped(<< >>, DestOf) = << >> /\ Mapped(<< >>, OwnerOf) = << >>
  BY <1>4, DestSeq, OwnerSeq
<1>6. \A x : Cardinality(Places(<< >>, x)) = 0
  <2>1. \A x : Places(<< >>, x) = {}
    BY DEF Places
  <2>. QED BY <2>1, FS_EmptySet
<1>7. RouteTypeOK
  <2>1. /\ raq \in Seq(Dest) /\ waq \in Seq(Address) /\ woq \in Seq(Address) /\ wdq \in Seq(Address)
        /\ Len(wdq) <= QueueDepth
    BY <1>1, <1>4 DEF Init
  <2>2. /\ arApb \in BOOLEAN /\ awApb \in BOOLEAN
        /\ arEbiu \in Nat /\ awEbiu \in Nat /\ owed \in Nat
        /\ apb \in [state : {"IDLE", "WADDR", "REQ", "PEND"}, write : BOOLEAN, resp : BOOLEAN]
    BY DEF Init
  <2>3. sid \in [PIU -> 0 .. SidDepth] /\ pkb \in [PIU -> BOOLEAN]
    BY <1>1 DEF Init
  <2>. QED BY <1>3, <2>1, <2>2, <2>3 DEF RouteTypeOK
<1>8. PathInv
  BY DEF Init, PathInv, OnePathAtATime
<1>9. OrderInv
  BY <1>3, <1>5, <1>6 DEF Init, OrderInv
<1>10. CountInv
  BY <1>5, <1>6 DEF Init, CountInv
<1>. QED BY <1>7, <1>8, <1>9, <1>10 DEF RouteIInv

LEMMA RouteStep == RouteIInv /\ [Next]_vars => RouteIInv'
<1>1. ASSUME RouteIInv, UNCHANGED vars PROVE RouteIInv'
  BY <1>1 DEF vars, RouteIInv, RouteTypeOK, PathInv, OnePathAtATime, OrderInv, CountInv
<1>2. ASSUME RouteIInv, NEW in \in Inputs, Edge(in) PROVE RouteIInv'
  <2>1. RouteTypeOK'
    BY <1>2, TypeStep
  <2>2. PathInv'
    BY <1>2, PathStep DEF RouteIInv
  <2>3. OrderInv'
    BY <1>2, OrderStep
  <2>4. CountInv'
    BY <1>2, CountStep
  <2>. QED BY <2>1, <2>2, <2>3, <2>4 DEF RouteIInv
<1>. QED BY <1>1, <1>2 DEF Next

(* The registers keep their types, and the four queues, the pkbs and the    *)
(* bridge their relation, in every cycle (ct_ciu_ncq.v:690-1500).           *)
THEOREM RouteInvariant == Spec => []RouteIInv
BY RouteInit, RouteStep, PTL DEF Spec

(* Strongly ordered accesses are never on both paths at once, although the  *)
(* bridge is guarded by flags and the external bus by counters              *)
(* (ct_ciu_ncq.v:793-829, 1191-1218).                                       *)
THEOREM PathsExclude == Spec => []OnePathAtATime
<1>1. RouteIInv => OnePathAtATime
  BY DEF RouteIInv, PathInv
<1>. QED BY <1>1, RouteInvariant, PTL

(* Write data go where their address went, with nothing but the order of    *)
(* the queues to tie them together (ct_ciu_ncq.v:1402-1403, 1473-1474).     *)
THEOREM DataFindsItsPath == Spec => []DataFollowsAddress
<1>1. RouteIInv => DataFollowsAddress
  <2>. SUFFICES ASSUME RouteIInv, wdq # << >>, dsq.pop \in dsq.vld
                PROVE  Dsq!PopData(dsq) = Head(wdq).dest
    BY DEF DataFollowsAddress, DataDest
  <2>. DEFINE a == F!Contents(dsq)
              b == Mapped(waq, DestOf)
              c == Mapped(wdq, DestOf)
              e == Mapped(woq, DestOf)
  <2>1. /\ a \in Seq(Dest) /\ a # << >>
        /\ Dsq!PopData(dsq) = Head(a)
    BY DsqFacts, SameDsq DEF RouteIInv
  <2>2. /\ waq \in Seq(Address) /\ woq \in Seq(Address) /\ wdq \in Seq(Address)
    BY DEF RouteIInv, RouteTypeOK
  <2>3. /\ b \in Seq(Dest) /\ c \in Seq(Dest) /\ e \in Seq(Dest)
        /\ c # << >> /\ Head(c) = DestOf[Head(wdq)]
    BY <2>2, DestSeq
  <2>4. DestOf[Head(wdq)] = Head(wdq).dest
    BY <2>2, HeadTailProperties DEF DestOf
  <2>5. Row(a, b) = Row(c, e)
    BY DEF RouteIInv, OrderInv
  <2>. HIDE DEF a, b, c, e
  <2>6. Head(a) = Head(c)
    BY <2>1, <2>3, <2>5, RowHeads
  <2>. QED BY <2>1, <2>3, <2>4, <2>6
<1>. QED BY <1>1, RouteInvariant, PTL

(* dsq, which nothing keeps from overflowing but the depths of the other    *)
(* queues, never writes a slot that is in use (ct_ciu_ncq.v:1410-1474).     *)
THEOREM DsqHasRoom == Spec => DsqNeverOverflows
<1>1. RouteIInv /\ [Next]_vars
      => [\A s \in dsq.vld : dsq'.create # dsq.create => s # dsq.create]_vars
  <2>1. ASSUME RouteIInv, NEW in \in Inputs, Edge(in), dsq'.create # dsq.create
        PROVE  dsq.create \notin dsq.vld
    BY <2>1, QueueStep
  <2>. QED BY <2>1 DEF Next
<1>. QED BY <1>1, RouteInvariant, PTL DEF Spec, DsqNeverOverflows
=============================================================================
