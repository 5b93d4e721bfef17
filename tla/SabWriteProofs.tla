--------------------------- MODULE SabWriteProofs ---------------------------
(****************************************************************************)
(* Proofs about the write half of the snoop buffer, for every number of     *)
(* ports and of write entries.  Whatever drives ct_prio and ct_fifo here    *)
(* drives them legally, so the theorems about the two carry over.           *)
(*                                                                          *)
(* The inductive invariant SabIInv is about the entries whose data was      *)
(* asked for and not yet taken (Asked): there are as many of them as items  *)
(* in wd_sel, for each port and in all, and the register holds a request    *)
(* for an idle entry.  The room that was asked for a cycle before is still  *)
(* there because the new entry is not one of the Asked.                     *)
(****************************************************************************)
EXTENDS SabWrite, CtPrioProofs, CtFifoProofs

USE WdepthAssumption, SelAssumption

AnyKind == {"bar", "wns", "shared", "evict"}

(* The entries whose data is asked for and was not taken yet. *)
Asked == {e \in Wid : entry[e].state = "depd"} \ wcd

(* The type of the snoop buffer's own registers. *)
SabTypeOK == /\ entry \in [Wid -> [state : {"idle", "depd", "run"}, mid : Port]]
             /\ crt \in SUBSET [sid : Wid, mid : Port, kind : AnyKind]
             /\ \A r, s \in crt : r = s
             /\ \A r \in crt : entry[r.sid].state = "idle"
             /\ wcd \in SUBSET {e \in Wid : entry[e].state = "depd"}

(* wd_sel and the entries agree. *)
SelAgrees == /\ Count(fifo) = Cardinality(Asked)
             /\ \A p \in Port : Cardinality(Places(Contents(fifo), p)) = Cardinality(Waiting(p))

SabIInv == SabTypeOK /\ FifoTypeOK /\ RingConsistent /\ SelAgrees

-----------------------------------------------------------------------------
(* The ports of the snoop buffer drive ct_prio as CtPrioWait allows. *)
LEMMA SabIsWait == SabSpec => WaitSpec
<1>1. SabInit => WaitInit
  BY DEF SabInit
<1>2. [SabNext]_sabVars => [WaitNext]_waitVars
  BY DEF SabNext, Arbitrate, Idle, WaitNext, sabVars, waitVars
<1>. QED BY <1>1, <1>2, PTL DEF SabSpec, WaitSpec

LEMMA WidFinite == IsFiniteSet(Wid) /\ Cardinality(Wid) = WDEPTH
BY FS_Interval DEF Wid

LEMMA AskedFinite ==
  ASSUME NEW A \in SUBSET Wid
  PROVE  IsFiniteSet(A) /\ Cardinality(A) \in 0 .. WDEPTH
<1>1. IsFiniteSet(A) /\ Cardinality(A) <= WDEPTH
  BY WidFinite, FS_Subset
<1>2. Cardinality(A) \in Nat
  BY <1>1, FS_CardinalityType
<1>. QED BY <1>1, <1>2

(* The lowest free entry is an entry, and free. *)
LEMMA CreateIsFree ==
  ASSUME SabTypeOK, NEW p \in Port, NEW kind, ~WentryFull(p, kind)
  PROVE  Create1Sel \in Wid \ WentryVld
<1>. DEFINE free == Wid \ WentryVld
<1>1. free \in SUBSET Nat
  BY DEF Wid
<1>2. free # {}
  <2>1. WentryVld \subseteq Wid
    BY DEF WentryVld, Busy, SabTypeOK
  <2>. QED BY <2>1 DEF WentryFull
<1>3. \E e \in free : \A f \in free : e <= f
  <2>. HIDE DEF free
  <2>. QED BY <1>1, <1>2, LeastNat
<1>. QED BY <1>3 DEF Create1Sel

(* The register after an edge: at most one request, for an entry that is    *)
(* neither busy nor about to be created.                                    *)
LEMMA CrtStep ==
  ASSUME SabTypeOK, TypeOK, Arbitrate \/ Idle
  PROVE  /\ crt' \in SUBSET [sid : Wid, mid : Port, kind : AnyKind]
         /\ \A r, s \in crt' : r = s
         /\ \A r \in crt' : r.sid \in Wid \ WentryVld
<1>1. CASE Idle
  BY <1>1 DEF Idle
<1>2. CASE Arbitrate
  <2>0. PICK p \in Sel(valid, prio) : \E kind \in Kind(p) :
          crt' = IF ~WentryFull(p, kind) /\ ~Full(fifo)
                 THEN {[sid |-> Create1Sel, mid |-> p, kind |-> kind]} ELSE {}
    BY <1>2 DEF Arbitrate
  <2>1. PICK kind \in Kind(p) :
          crt' = IF ~WentryFull(p, kind) /\ ~Full(fifo)
                 THEN {[sid |-> Create1Sel, mid |-> p, kind |-> kind]} ELSE {}
    BY <2>0
  <2>2. p \in Port /\ kind \in AnyKind
    BY DEF Sel, TypeOK, Kind, AnyKind
  <2>3. CASE ~WentryFull(p, kind) /\ ~Full(fifo)
    <3>1. Create1Sel \in Wid \ WentryVld
      BY <2>2, <2>3, CreateIsFree
    <3>. QED BY <2>1, <2>2, <2>3, <3>1
  <2>4. CASE ~(~WentryFull(p, kind) /\ ~Full(fifo))
    BY <2>1, <2>4
  <2>. QED BY <2>3, <2>4
<1>. QED BY <1>1, <1>2

(* The request that becomes an item of wd_sel, if there is one. *)
Items == {r \in crt : WdSelFifoCreateEn(r)}

(* An item finds room, because its entry is idle and all items have another.*)
LEMMA RoomForItem ==
  ASSUME SabIInv
  PROVE  CreateFindsRoom
<1>. SUFFICES ASSUME NEW r \in crt
              PROVE  entry[r.sid].state = "idle" /\ ~Full(fifo)
  BY DEF CreateFindsRoom
<1>1. r.sid \in Wid /\ entry[r.sid].state = "idle"
  BY DEF SabIInv, SabTypeOK
<1>2. Asked \in SUBSET (Wid \ {r.sid})
  BY <1>1 DEF Asked
<1>3. IsFiniteSet(Wid \ {r.sid}) /\ Cardinality(Wid \ {r.sid}) = WDEPTH - 1
  BY <1>1, WidFinite, FS_RemoveElement
<1>4. Cardinality(Asked) <= WDEPTH - 1
  BY <1>2, <1>3, FS_Subset
<1>5. Count(fifo) <= WDEPTH - 1
  BY <1>4 DEF SabIInv, SelAgrees
<1>6. Count(fifo) # DEPTH
  <2>1. Count(fifo) \in 0 .. DEPTH
    BY CountFacts DEF SabIInv, FifoTypeOK, RingConsistent
  <2>. QED BY <1>5, <2>1
<1>. QED BY <1>1, <1>6, CountFacts DEF SabIInv, FifoTypeOK, RingConsistent

(* Data is taken for an entry that asked for it and that is served next.    *)
LEMMA TakenStep ==
  ASSUME SabIInv, TakeData
  PROVE  /\ ~Empty(fifo) /\ PopData(fifo) = Head(Contents(fifo))
         /\ \E e \in Waiting(PopData(fifo)) : wcd' = {e}
<1>1. ~Empty(fifo) /\ \E e \in Waiting(PopData(fifo)) : wcd' = {e}
  BY DEF TakeData
<1>2. PopData(fifo) = Head(Contents(fifo))
  BY <1>1, HeadIsPopData DEF SabIInv, FifoTypeOK, RingConsistent
<1>. QED BY <1>1, <1>2

(* The edge of wd_sel is a legal one. *)
LEMMA SelectIsEdge ==
  ASSUME SabIInv, NEW pop \in BOOLEAN, Select(pop), pop => ~Empty(fifo)
  PROVE  \E create \in BOOLEAN, d \in Data :
           /\ create <=> Items # {}
           /\ \A r \in Items : d = r.mid
           /\ Legal(fifo, create, create, pop)
           /\ fifo' = FifoEdge(fifo, create, create, pop, d)
<1>1. fifo \in FifoState
  BY DEF SabIInv, FifoTypeOK
<1>2. CASE Items = {}
  <2>1. fifo' = FifoEdge(fifo, FALSE, FALSE, pop, PopData(fifo))
    BY <1>2 DEF Select, Items
  <2>2. PopData(fifo) \in Data
    BY <1>1 DEF PopData, FifoState
  <2>3. Legal(fifo, FALSE, FALSE, pop)
    BY DEF Legal
  <2>. QED BY <1>2, <2>1, <2>2, <2>3
<1>3. CASE Items # {}
  <2>1. PICK r \in Items : fifo' = FifoEdge(fifo, TRUE, TRUE, pop, r.mid)
    BY <1>3 DEF Select, Items
  <2>2. r.mid \in Data /\ \A s \in Items : r.mid = s.mid
    BY DEF Items, SabIInv, SabTypeOK
  <2>3. Legal(fifo, TRUE, TRUE, pop)
    BY RoomForItem DEF CreateFindsRoom, Items, Legal
  <2>. QED BY <1>3, <2>1, <2>2, <2>3
<1>. QED BY <1>2, <1>3

(* Which entries wait for data after an edge. *)
LEMMA DepdStep ==
  ASSUME SabTypeOK, Entries
  PROVE  /\ entry' \in [Wid -> [state : {"idle", "depd", "run"}, mid : Port]]
         /\ \A e \in Wid : \A m \in Port :
              entry'[e] = [state |-> "depd", mid |-> m] <=>
                \/ \E r \in Items : r.sid = e /\ r.mid = m
                \/ entry[e] = [state |-> "depd", mid |-> m] /\ e \notin wcd
         /\ \A e \in Wid : entry[e].state = "idle" /\ e \notin {r.sid : r \in crt}
                             => entry'[e].state = "idle"
<1>1. PICK freed \in SUBSET {e \in Wid : entry[e].state = "run"} :
        entry' = [e \in Wid |-> EntryNext(e, freed)]
  BY DEF Entries
<1>2. 0 \in Port
  BY NumAssumption DEF Port
<1>3. \A e \in Wid : entry[e].state \in {"idle", "depd", "run"} /\ entry[e].mid \in Port
  BY DEF SabTypeOK
<1>4. ASSUME NEW e \in Wid, NEW r \in crt, r.sid = e
      PROVE  /\ entry'[e] = IF WdSelFifoCreateEn(r) THEN [state |-> "depd", mid |-> r.mid]
                            ELSE [state |-> "run", mid |-> 0]
             /\ entry[e].state = "idle" /\ r.mid \in Port
  <2>1. (CHOOSE x \in crt : TRUE) = r
    BY DEF SabTypeOK
  <2>2. AwaitsData(r) <=> WdSelFifoCreateEn(r)
    BY DEF AwaitsData, WdSelFifoCreateEn
  <2>3. entry'[e] = EntryNext(e, freed)
    BY <1>1
  <2>4. \E x \in crt : x.sid = e
    BY <1>4
  <2>5. entry'[e] = IF AwaitsData(r) THEN [state |-> "depd", mid |-> r.mid]
                    ELSE [state |-> "run", mid |-> 0]
    BY <2>1, <2>3, <2>4 DEF EntryNext
  <2>. QED BY <1>4, <2>2, <2>5 DEF SabTypeOK
<1>5. ASSUME NEW e \in Wid, \A r \in crt : r.sid # e
      PROVE  entry'[e] = IF e \in wcd THEN [state |-> "run", mid |-> 0]
                         ELSE IF e \in freed THEN IdleEntry ELSE entry[e]
  BY <1>1, <1>5 DEF EntryNext
<1>6. ASSUME NEW e \in Wid PROVE entry'[e] \in [state : {"idle", "depd", "run"}, mid : Port]
  <2>1. CASE \E r \in crt : r.sid = e
    <3>1. PICK r \in crt : r.sid = e
      BY <2>1
    <3>2. /\ entry'[e] = IF WdSelFifoCreateEn(r) THEN [state |-> "depd", mid |-> r.mid]
                         ELSE [state |-> "run", mid |-> 0]
          /\ r.mid \in Port
      BY <1>4, <3>1
    <3>. QED BY <1>2, <3>2
  <2>2. CASE \A r \in crt : r.sid # e
    BY <1>2, <1>5, <2>2 DEF SabTypeOK, IdleEntry
  <2>. QED BY <2>1, <2>2
<1>7. entry' \in [Wid -> [state : {"idle", "depd", "run"}, mid : Port]]
  BY <1>1, <1>6
<1>8. ASSUME NEW e \in Wid, NEW m \in Port
      PROVE  entry'[e] = [state |-> "depd", mid |-> m] <=>
               \/ \E r \in Items : r.sid = e /\ r.mid = m
               \/ entry[e] = [state |-> "depd", mid |-> m] /\ e \notin wcd
  <2>1. CASE \E r \in crt : r.sid = e
    <3>1. PICK r \in crt : r.sid = e
      BY <2>1
    <3>2. \A s \in crt : s = r
      BY DEF SabTypeOK
    <3>3. /\ entry'[e] = IF WdSelFifoCreateEn(r) THEN [state |-> "depd", mid |-> r.mid]
                         ELSE [state |-> "run", mid |-> 0]
          /\ entry[e].state = "idle"
      BY <1>4, <3>1
    <3>4. entry[e] # [state |-> "depd", mid |-> m]
      BY <3>3
    <3>5. (\E s \in Items : s.sid = e /\ s.mid = m) <=> WdSelFifoCreateEn(r) /\ r.mid = m
      BY <3>1, <3>2 DEF Items
    <3>6. entry'[e] = [state |-> "depd", mid |-> m] <=> WdSelFifoCreateEn(r) /\ r.mid = m
      BY <3>3
    <3>. QED BY <3>4, <3>5, <3>6
  <2>2. CASE \A r \in crt : r.sid # e
    <3>1. ~\E r \in Items : r.sid = e /\ r.mid = m
      BY <2>2 DEF Items
    <3>2. e \in freed => entry[e].state = "run"
      OBVIOUS
    <3>. QED BY <1>5, <2>2, <3>1, <3>2 DEF IdleEntry
  <2>. QED BY <2>1, <2>2
<1>9. ASSUME NEW e \in Wid, entry[e].state = "idle", e \notin {r.sid : r \in crt}
      PROVE  entry'[e].state = "idle"
  <2>1. e \notin wcd
    BY <1>9 DEF SabTypeOK
  <2>. QED BY <1>5, <1>9, <2>1 DEF IdleEntry
<1>. QED BY <1>7, <1>8, <1>9

(* The sets that are counted, after an edge. *)
LEMMA SetsStep ==
  ASSUME SabTypeOK, Entries
  PROVE  /\ Asked' = (Asked \cup {r.sid : r \in Items}) \ wcd'
         /\ \A m \in Port :
              Waiting(m)' = (Waiting(m) \cup {r.sid : r \in {i \in Items : i.mid = m}}) \ wcd'
<1>1. \A r \in Items : r.sid \in Wid /\ r.mid \in Port
  BY DEF Items, SabTypeOK
<1>2. ASSUME NEW m \in Port
      PROVE  Waiting(m)' = (Waiting(m) \cup {r.sid : r \in {i \in Items : i.mid = m}}) \ wcd'
  BY <1>1, DepdStep DEF Waiting
<1>3. ASSUME NEW e \in Wid
      PROVE  entry'[e].state = "depd" <=>
               \/ \E r \in Items : r.sid = e
               \/ entry[e].state = "depd" /\ e \notin wcd
  <2>1. entry[e].state = "depd" <=> \E m \in Port : entry[e] = [state |-> "depd", mid |-> m]
    <3>1. entry[e] = [state |-> entry[e].state, mid |-> entry[e].mid] /\ entry[e].mid \in Port
      BY DEF SabTypeOK
    <3>2. entry[e].state = "depd" => entry[e] = [state |-> "depd", mid |-> entry[e].mid]
      BY <3>1
    <3>3. \A m \in Port : entry[e] = [state |-> "depd", mid |-> m] => entry[e].state = "depd"
      OBVIOUS
    <3>. QED BY <3>1, <3>2, <3>3, Zenon
  <2>2. entry'[e].state = "depd" <=> \E m \in Port : entry'[e] = [state |-> "depd", mid |-> m]
    <3>1. entry'[e] \in [state : {"idle", "depd", "run"}, mid : Port]
      BY DepdStep
    <3>2. entry'[e] = [state |-> entry'[e].state, mid |-> entry'[e].mid] /\ entry'[e].mid \in Port
      BY <3>1
    <3>3. entry'[e].state = "depd" => entry'[e] = [state |-> "depd", mid |-> entry'[e].mid]
      BY <3>2
    <3>4. \A m \in Port : entry'[e] = [state |-> "depd", mid |-> m] => entry'[e].state = "depd"
      OBVIOUS
    <3>. QED BY <3>2, <3>3, <3>4, Zenon
  <2>3. \A m \in Port : entry'[e] = [state |-> "depd", mid |-> m] <=>
                \/ \E r \in Items : r.sid = e /\ r.mid = m
                \/ entry[e] = [state |-> "depd", mid |-> m] /\ e \notin wcd
    BY DepdStep
  <2>4. (\E m \in Port : entry'[e] = [state |-> "depd", mid |-> m]) <=>
               \/ \E r \in Items : r.sid = e
               \/ (\E m \in Port : entry[e] = [state |-> "depd", mid |-> m]) /\ e \notin wcd
    BY <1>1, <2>3
  <2>. QED BY <2>1, <2>2, <2>4
<1>4. Asked' = (Asked \cup {r.sid : r \in Items}) \ wcd'
  BY <1>1, <1>3 DEF Asked
<1>. QED BY <1>2, <1>4

(* One edge keeps wd_sel and the entries in agreement. *)
LEMMA AgreeStep ==
  ASSUME SabIInv, Entries, NEW pop \in BOOLEAN, Select(pop),
         pop => TakeData, ~pop => wcd' = {}
  PROVE  FifoTypeOK' /\ RingConsistent' /\ SelAgrees'
<1>1. SabTypeOK /\ fifo \in FifoState /\ IsRing(fifo) /\ SelAgrees
  BY DEF SabIInv, FifoTypeOK, RingConsistent
<1>2. pop => ~Empty(fifo)
  BY DEF TakeData
<1>3. PICK create \in BOOLEAN, d \in Data :
        /\ create <=> Items # {}
        /\ \A r \in Items : d = r.mid
        /\ Legal(fifo, create, create, pop)
        /\ fifo' = FifoEdge(fifo, create, create, pop, d)
  BY <1>2, SelectIsEdge
<1>4. fifo' \in FifoState /\ IsRing(fifo')
  <2>1. /\ FifoEdge(fifo, create, create, pop, d) \in FifoState
        /\ IsRing(FifoEdge(fifo, create, create, pop, d))
    BY <1>1, <1>3, EdgeKeepsRing
  <2>. QED BY <1>3, <2>1, Zenon
<1>5. Count(fifo') = Count(fifo) + (IF create THEN 1 ELSE 0) - (IF pop THEN 1 ELSE 0)
  <2>1. Count(FifoEdge(fifo, create, create, pop, d))
          = Count(fifo) + (IF create THEN 1 ELSE 0) - (IF pop THEN 1 ELSE 0)
    BY <1>1, <1>3, CountStep
  <2>. QED BY <1>3, <2>1, Zenon
<1>. DEFINE q == Contents(fifo)
            rest == IF pop THEN Tail(q) ELSE q
<1>6. Contents(fifo') = IF create THEN Append(rest, d) ELSE rest
  <2>1. Contents(FifoEdge(fifo, create, create, pop, d)) = IF create THEN Append(rest, d) ELSE rest
    BY <1>1, <1>3, ContentsStep
  <2>. QED BY <1>3, <2>1, Zenon
<1>7. q \in Seq(Data) /\ (pop => q # << >>)
  BY <1>1, <1>2, CountFacts, HeadIsPopData
<1>. HIDE DEF q
<1>8. rest \in Seq(Data)
  BY <1>7, HeadTailProperties
<1>9. ASSUME NEW p \in Port
      PROVE  Cardinality(Places(Contents(fifo'), p))
               = Cardinality(Places(q, p)) + (IF create /\ d = p THEN 1 ELSE 0)
                                           - (IF pop /\ Head(q) = p THEN 1 ELSE 0)
  <2>1. Cardinality(Places(rest, p)) = Cardinality(Places(q, p)) - (IF pop /\ Head(q) = p THEN 1 ELSE 0)
    <3>0. Cardinality(Places(q, p)) \in Nat
      BY <1>7, PlacesFinite, FS_CardinalityType
    <3>1. CASE pop
      <4>1. Cardinality(Places(Tail(q), p)) = Cardinality(Places(q, p)) - (IF p = Head(q) THEN 1 ELSE 0)
        BY <1>7, <3>1, PlacesTail
      <4>. QED BY <3>1, <4>1
    <3>2. CASE ~pop
      BY <3>0, <3>2
    <3>. QED BY <3>1, <3>2
  <2>. HIDE DEF rest
  <2>2. Cardinality(Places(rest, p)) \in Nat /\ Cardinality(Places(q, p)) \in Nat
    BY <1>7, <1>8, PlacesFinite, FS_CardinalityType
  <2>3. CASE create
    <3>1. Cardinality(Places(Append(rest, d), p)) = Cardinality(Places(rest, p)) + (IF p = d THEN 1 ELSE 0)
      BY <1>8, PlacesAppend
    <3>. QED BY <1>6, <2>1, <2>2, <2>3, <3>1
  <2>4. CASE ~create
    BY <1>6, <2>1, <2>2, <2>4
  <2>. QED BY <2>3, <2>4
<1>10. PICK w \in Int : /\ wcd' = IF pop THEN {w} ELSE {}
                        /\ IF pop THEN w \in Waiting(Head(q)) ELSE w = -2
  <2>1. CASE pop
    <3>1. PICK e \in Waiting(PopData(fifo)) : wcd' = {e}
      BY <2>1, TakenStep
    <3>2. PopData(fifo) = Head(q)
      BY <2>1, TakenStep DEF q
    <3>3. e \in Int
      BY DEF Waiting, Wid
    <3>. QED BY <2>1, <3>1, <3>2, <3>3
  <2>2. CASE ~pop
    BY <2>2
  <2>. QED BY <2>1, <2>2
<1>11. PICK x \in Int : /\ {r.sid : r \in Items} \in {{}, {x}}
                        /\ create <=> {r.sid : r \in Items} # {}
                        /\ x \notin Asked /\ x # w
                        /\ \A m \in Port : {r.sid : r \in {i \in Items : i.mid = m}}
                                             = IF create /\ d = m THEN {x} ELSE {}
  <2>1. CASE create
    <3>1. PICK r \in Items : TRUE
      BY <1>3, <2>1
    <3>2. Items = {r} /\ d = r.mid
      BY <1>1, <1>3, <3>1 DEF Items, SabTypeOK
    <3>3. r.sid \in Wid /\ entry[r.sid].state = "idle"
      BY <1>1, <3>1 DEF Items, SabTypeOK
    <3>4. r.sid \notin Asked /\ r.sid \notin Waiting(Head(q)) /\ r.sid \in Nat
      BY <3>3 DEF Asked, Waiting, Wid
    <3>5. r.sid # w
      BY <1>10, <3>4
    <3>. QED BY <2>1, <3>2, <3>4, <3>5
  <2>2. CASE ~create
    <3>1. Items = {} /\ -1 \in Int /\ -1 \notin Wid
      BY <1>3, <2>2 DEF Wid
    <3>2. -1 \notin Asked
      BY <3>1 DEF Asked
    <3>3. -1 # w
      BY <1>10, <3>1 DEF Waiting
    <3>. QED BY <2>2, <3>1, <3>2, <3>3
  <2>. QED BY <2>1, <2>2
<1>12. /\ Asked' = (Asked \cup {r.sid : r \in Items}) \ wcd'
       /\ \A m \in Port :
            Waiting(m)' = (Waiting(m) \cup {r.sid : r \in {i \in Items : i.mid = m}}) \ wcd'
  BY <1>1, SetsStep
<1>13. Cardinality(Asked') = Cardinality(Asked) + (IF create THEN 1 ELSE 0) - (IF pop THEN 1 ELSE 0)
  <2>. DEFINE N == {r.sid : r \in Items}
  <2>1. IsFiniteSet(Asked) /\ Cardinality(Asked) \in Nat
    BY AskedFinite DEF Asked
  <2>2. N \cap Asked = {} /\ wcd' \cap N = {}
        /\ (\A u, v \in N : u = v) /\ (\A u, v \in wcd' : u = v)
    <3>1. (N = {} \/ N = {x}) /\ x \notin Asked /\ x # w
      BY <1>11
    <3>2. wcd' = {} \/ wcd' = {w}
      BY <1>10
    <3>. HIDE DEF N
    <3>. QED BY <3>1, <3>2
  <2>3. Cardinality((Asked \cup N) \ wcd')
          = Cardinality(Asked) + (IF N = {} THEN 0 ELSE 1) - (IF wcd' \cap Asked = {} THEN 0 ELSE 1)
    <3>. HIDE DEF N
    <3>. QED BY <2>1, <2>2, GainAndLose
  <2>4. (N = {} <=> ~create) /\ (wcd' \cap Asked = {} <=> ~pop)
    BY <1>10, <1>11 DEF Asked, Waiting
  <2>5. Asked' = (Asked \cup N) \ wcd'
    BY <1>12
  <2>. HIDE DEF N
  <2>. QED BY <2>1, <2>3, <2>4, <2>5
<1>14. ASSUME NEW p \in Port
       PROVE  Cardinality(Waiting(p)')
                = Cardinality(Waiting(p)) + (IF create /\ d = p THEN 1 ELSE 0)
                                          - (IF pop /\ Head(q) = p THEN 1 ELSE 0)
  <2>. DEFINE N == {r.sid : r \in {i \in Items : i.mid = p}}
              W == wcd' \cap Waiting(p)
  <2>1. IsFiniteSet(Waiting(p)) /\ Cardinality(Waiting(p)) \in Nat
    BY AskedFinite DEF Waiting
  <2>2. N = IF create /\ d = p THEN {x} ELSE {}
    BY <1>11
  <2>3. x \notin Waiting(p)
    BY <1>11 DEF Asked, Waiting
  <2>4. wcd' \cap Waiting(p) = {} <=> ~(pop /\ Head(q) = p)
    BY <1>10 DEF Waiting
  <2>5. Waiting(p)' = (Waiting(p) \cup N) \ wcd'
    BY <1>12
  <2>. HIDE DEF N
  <2>6. N \cap Waiting(p) = {} /\ wcd' \cap N = {}
        /\ (\A u, v \in N : u = v) /\ (\A u, v \in wcd' : u = v)
    BY <1>10, <1>11, <2>2, <2>3
  <2>7. Cardinality((Waiting(p) \cup N) \ wcd')
          = Cardinality(Waiting(p)) + (IF N = {} THEN 0 ELSE 1)
                                    - (IF wcd' \cap Waiting(p) = {} THEN 0 ELSE 1)
    <3>. DEFINE V == Waiting(p)
                L == wcd'
    <3>1. IsFiniteSet(V) /\ N \cap V = {} /\ L \cap N = {}
          /\ (\A u, v \in N : u = v) /\ (\A u, v \in L : u = v)
      BY <2>1, <2>6
    <3>. HIDE DEF V, L
    <3>2. Cardinality((V \cup N) \ L)
            = Cardinality(V) + (IF N = {} THEN 0 ELSE 1) - (IF L \cap V = {} THEN 0 ELSE 1)
      BY <3>1, GainAndLose
    <3>. QED BY <3>2 DEF V, L
  <2>8. N = {} <=> ~(create /\ d = p)
    BY <2>2
  <2>. QED BY <2>1, <2>4, <2>5, <2>7, <2>8
<1>15. Count(fifo') = Cardinality(Asked')
  <2>1. Count(fifo) = Cardinality(Asked)
    BY <1>1 DEF SelAgrees
  <2>. QED BY <1>5, <1>13, <2>1
<1>16. ASSUME NEW p \in Port
       PROVE  Cardinality(Places(Contents(fifo'), p)) = Cardinality(Waiting(p)')
  <2>1. Cardinality(Places(q, p)) = Cardinality(Waiting(p))
    BY <1>1 DEF SelAgrees, q
  <2>. QED BY <1>9, <1>14, <2>1
<1>. QED BY <1>4, <1>15, <1>16 DEF FifoTypeOK, RingConsistent, SelAgrees

(* The snoop buffer's own registers keep their type. *)
LEMMA TypeStep ==
  ASSUME SabIInv, TypeOK, Arbitrate \/ Idle, Entries, TakeData \/ wcd' = {}
  PROVE  SabTypeOK'
<1>1. SabTypeOK
  BY DEF SabIInv
<1>2. \A r \in crt' : entry'[r.sid].state = "idle"
  <2>. TAKE r \in crt'
  <2>1. r.sid \in Wid \ WentryVld
    BY <1>1, CrtStep
  <2>. QED BY <1>1, <2>1, DepdStep DEF WentryVld, Busy
<1>3. wcd' \in SUBSET {e \in Wid : entry'[e].state = "depd"}
  <2>1. CASE TakeData
    <3>1. PICK e \in Wid : wcd' = {e} /\ e \notin wcd /\ entry[e] = [state |-> "depd", mid |-> PopData(fifo)]
      BY <2>1 DEF TakeData, Waiting
    <3>2. entry[e].mid \in Port /\ entry[e].mid = PopData(fifo)
      BY <1>1, <3>1 DEF SabTypeOK
    <3>3. entry'[e] = [state |-> "depd", mid |-> PopData(fifo)]
      BY <1>1, <3>1, <3>2, DepdStep
    <3>. QED BY <3>1, <3>3
  <2>. QED BY <2>1
<1>. QED BY <1>1, <1>2, <1>3, CrtStep, DepdStep DEF SabTypeOK

-----------------------------------------------------------------------------
(* wd_sel, the entries and the registers between them agree in every        *)
(* reachable state.                                                         *)
THEOREM SabInvariant == SabSpec => []SabIInv
<1>1. SabInit => SabIInv
  <2>. SUFFICES ASSUME SabInit PROVE SabIInv
    OBVIOUS
  <2>1. fifo = ResetFifo(0) /\ 0 \in Port /\ 0 \in Data
    BY NumAssumption DEF SabInit, Port
  <2>2. SabTypeOK
    BY <2>1 DEF SabInit, SabTypeOK, IdleEntry
  <2>3. FifoTypeOK /\ RingConsistent
    BY <2>1, DepthAssumption DEF ResetFifo, FifoTypeOK, FifoState, RingConsistent, IsRing, Empty, Slot
  <2>4. Count(fifo) = 0
    BY <2>1 DEF ResetFifo, Count, Empty
  <2>5. Asked = {} /\ \A p \in Port : Waiting(p) = {}
    BY DEF SabInit, IdleEntry, Asked, Waiting
  <2>6. \A p \in Port : Places(Contents(fifo), p) = {}
    <3>1. Len(Contents(fifo)) = 0
      BY <2>3, <2>4, CountFacts DEF FifoTypeOK, RingConsistent
    <3>. QED BY <3>1 DEF Places
  <2>7. SelAgrees
    BY <2>4, <2>5, <2>6, FS_EmptySet DEF SelAgrees
  <2>. QED BY <2>2, <2>3, <2>7 DEF SabIInv
<1>2. SabIInv /\ TypeOK /\ [SabNext]_sabVars => SabIInv'
  <2>. SUFFICES ASSUME SabIInv, TypeOK, [SabNext]_sabVars PROVE SabIInv'
    OBVIOUS
  <2>1. CASE UNCHANGED sabVars
    BY <2>1 DEF sabVars, SabIInv, SabTypeOK, FifoTypeOK, RingConsistent, SelAgrees, Asked, Waiting
  <2>2. CASE SabNext
    <3>1. PICK pop \in BOOLEAN : (pop => TakeData) /\ (~pop => wcd' = {}) /\ Select(pop)
      BY <2>2 DEF SabNext
    <3>2. FifoTypeOK' /\ RingConsistent' /\ SelAgrees'
      BY <2>2, <3>1, AgreeStep DEF SabNext
    <3>3. SabTypeOK'
      BY <2>2, <3>1, TypeStep DEF SabNext
    <3>. QED BY <3>2, <3>3 DEF SabIInv
  <2>. QED BY <2>1, <2>2
<1>. QED BY <1>1, <1>2, SabIsWait, WaitIsPrio, MatrixIsOrder, PTL DEF SabSpec

(* Room that was asked for a cycle before is still there when the entry and *)
(* its item are created (ct_ciu_snb_arb.v:1282, 1355).                      *)
THEOREM RoomIsFound == SabSpec => []CreateFindsRoom
BY SabInvariant, RoomForItem, PTL

(* wd_sel asks every port for exactly the data its entries wait for.        *)
THEOREM AskedMeansAwaited == SabSpec => []AskedIsAwaited
<1>1. SabIInv => AskedIsAwaited
  <2>. SUFFICES ASSUME SabIInv PROVE AskedIsAwaited
    OBVIOUS
  <2>1. Len(Contents(fifo)) = Count(fifo)
    BY CountFacts DEF SabIInv, FifoTypeOK, RingConsistent
  <2>. QED BY <2>1 DEF SabIInv, SelAgrees, AskedIsAwaited, Places
<1>. QED BY <1>1, SabInvariant, PTL

(* The snoop buffer drives wd_sel as its contract asks, so that wd_sel is a *)
(* bounded queue here too: no item is lost although the room for it was     *)
(* asked for a cycle earlier.                                               *)
THEOREM SabUsesQueue == SabSpec => ImplementsQueue
<1>1. SabInit => FifoInit
  BY NumAssumption DEF SabInit, FifoInit, Port
<1>2. SabIInv /\ [SabNext]_sabVars => [FifoNext]_fifo
  <2>. SUFFICES ASSUME SabIInv, SabNext PROVE FifoNext
    BY DEF sabVars
  <2>1. PICK pop \in BOOLEAN : (pop => TakeData) /\ Select(pop)
    BY DEF SabNext
  <2>2. PICK create \in BOOLEAN, d \in Data :
          /\ Legal(fifo, create, create, pop)
          /\ fifo' = FifoEdge(fifo, create, create, pop, d)
    BY <2>1, SelectIsEdge DEF TakeData
  <2>. QED BY <2>2 DEF FifoNext, FifoClock
<1>3. SabSpec => FifoSpec
  BY <1>1, <1>2, SabInvariant, PTL DEF SabSpec, FifoSpec
<1>. QED BY <1>3, FifoIsQueue, PTL

(* As the snoop buffer drives the arbiter no port has two turns while a write *)
(* request of another one stays.  It is turns that are counted: one in which *)
(* a full buffer withholds the grant counts as well, so nothing is said of   *)
(* service (ct_ciu_snb_arb.v:1282-1290).                                     *)
THEOREM SabOvertaking == SabSpec => []NoSecondPass
BY SabIsWait, BoundedOvertaking, PTL
=============================================================================
