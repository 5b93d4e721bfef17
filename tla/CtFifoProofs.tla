---------------------------- MODULE CtFifoProofs ----------------------------
(****************************************************************************)
(* Proofs about ct_fifo for every depth and every data type: the ring of    *)
(* registers is consistent, and it implements a bounded queue.  The         *)
(* inductive invariant is FifoTypeOK /\ RingConsistent.                     *)
(****************************************************************************)
EXTENDS CtFifo, SeqLemmas

USE DepthAssumption

LEMMA SuccType == ASSUME NEW s \in Slot PROVE Succ(s) \in Slot
BY DEF Succ, Slot

(* What the two pointers say about the valid bits. *)
LEMMA RingFacts ==
  ASSUME NEW f \in FifoState, IsRing(f)
  PROVE  /\ f.create \in Slot /\ f.pop \in Slot
         /\ f.create # f.pop => f.create \notin f.vld /\ f.pop \in f.vld
         /\ f.create = f.pop => Empty(f) \/ Full(f)
         /\ Full(f) => f.create = f.pop
         /\ Empty(f) => f.create = f.pop /\ ~Full(f)
<1>1. f.create \in Slot /\ f.pop \in Slot
  BY DEF FifoState
<1>2. f.create # f.pop => f.create \notin f.vld /\ f.pop \in f.vld
  BY <1>1 DEF IsRing, Slot
<1>3. f.create = f.pop => Empty(f) \/ Full(f)
  BY <1>1 DEF IsRing, Empty, Full, Slot
<1>. QED BY <1>1, <1>2, <1>3 DEF Empty, Full

(* The same ring slot by slot, so that a leaf is about numbers only. *)
LEMMA RingSlots ==
  ASSUME NEW f \in FifoState
  PROVE  IsRing(f) <=> \A s \in Slot : s \in f.vld <=>
           \/ f.pop < f.create /\ f.pop =< s /\ s < f.create
           \/ f.create < f.pop /\ (f.pop =< s \/ s < f.create)
           \/ f.create = f.pop /\ ~Empty(f)
<1>1. f.create \in Slot /\ f.pop \in Slot /\ f.vld \subseteq Slot
  BY DEF FifoState
<1>. DEFINE R == IF f.pop < f.create THEN f.pop .. f.create - 1
                 ELSE IF f.create < f.pop THEN (f.pop .. DEPTH - 1) \cup (0 .. f.create - 1)
                 ELSE IF Empty(f) THEN {} ELSE Slot
<1>2. R \subseteq Slot
  BY <1>1 DEF Slot
<1>3. \A s \in Slot : s \in R <=>
        \/ f.pop < f.create /\ f.pop =< s /\ s < f.create
        \/ f.create < f.pop /\ (f.pop =< s \/ s < f.create)
        \/ f.create = f.pop /\ ~Empty(f)
  BY <1>1 DEF Slot
<1>4. IsRing(f) <=> f.vld = R
  BY Zenon DEF IsRing
<1>. HIDE DEF R
<1>5. f.vld = R <=> \A s \in Slot : s \in f.vld <=> s \in R
  BY <1>1, <1>2, Zenon
<1>. QED BY <1>3, <1>4, <1>5, Zenon

(* A legal edge leads from a ring to a ring. *)
LEMMA EdgeKeepsRing ==
  ASSUME NEW f \in FifoState, IsRing(f), NEW create \in BOOLEAN, NEW dp \in BOOLEAN,
         NEW pop \in BOOLEAN, NEW d \in Data, Legal(f, create, dp, pop)
  PROVE  /\ FifoEdge(f, create, dp, pop, d) \in FifoState
         /\ IsRing(FifoEdge(f, create, dp, pop, d))
<1>. DEFINE g == FifoEdge(f, create, dp, pop, d)
            InRing(h, s) == \/ h.pop < h.create /\ h.pop =< s /\ s < h.create
                            \/ h.create < h.pop /\ (h.pop =< s \/ s < h.create)
                            \/ h.create = h.pop /\ ~Empty(h)
<1>1. /\ g.create = IF create THEN Succ(f.create) ELSE f.create
      /\ g.pop = IF pop THEN Succ(f.pop) ELSE f.pop
      /\ g.vld = NextVld(f, create, pop)
      /\ g.cont = IF dp THEN [f.cont EXCEPT ![f.create] = d] ELSE f.cont
  BY DEF FifoEdge
<1>2. g \in FifoState
  BY SuccType DEF FifoState, FifoEdge, NextVld
<1>. HIDE DEF g
<1>3. f.create \in Slot /\ f.pop \in Slot
  BY DEF FifoState
<1>4. \A s \in Slot : s \in f.vld <=> InRing(f, s)
  BY RingSlots
<1>5. \A s \in Slot : s \in g.vld <=>
        \/ s \in f.vld /\ ~(pop /\ s = f.pop)
        \/ create /\ s = f.create
  BY <1>1 DEF NextVld
<1>6. /\ f.create = f.pop => Empty(f) \/ Full(f)
      /\ Full(f) => f.create = f.pop
      /\ f.create # f.pop => ~Empty(f)
      /\ create => ~Full(f) \/ pop
      /\ pop => ~Empty(f)
  BY RingFacts DEF Legal
<1>7. create => ~Empty(g)
  BY <1>1 DEF NextVld, Empty
<1>8. \A s \in Slot : s \in g.vld <=> InRing(g, s)
  <2>. TAKE s \in Slot
  <2>. USE <1>3 DEF Slot
  <2>1. CASE create /\ pop
    <3>1. g.create = Succ(f.create) /\ g.pop = Succ(f.pop) /\ ~Empty(g) /\ ~Empty(f)
      BY <1>1, <1>6, <1>7, <2>1
    <3>2. s \in g.vld <=> (InRing(f, s) /\ s # f.pop) \/ s = f.create
      BY <1>4, <1>5, <2>1
    <3>. HIDE DEF InRing
    <3>3. CASE f.pop < f.create
      <4>1. InRing(f, s) <=> f.pop =< s /\ s < f.create
        BY <3>3 DEF InRing
      <4>2. CASE f.create = DEPTH - 1
        <5>1. g.create = 0 /\ g.pop = f.pop + 1
          BY <3>1, <3>3, <4>2 DEF Succ
        <5>. QED BY <3>2, <3>3, <4>1, <4>2, <5>1 DEF InRing
      <4>3. CASE f.create # DEPTH - 1
        <5>1. g.create = f.create + 1 /\ g.pop = f.pop + 1
          BY <3>1, <3>3, <4>3 DEF Succ
        <5>. QED BY <3>2, <3>3, <4>1, <4>3, <5>1 DEF InRing
      <4>. QED BY <4>2, <4>3
    <3>4. CASE f.create < f.pop
      <4>1. InRing(f, s) <=> f.pop =< s \/ s < f.create
        BY <3>4 DEF InRing
      <4>2. CASE f.pop = DEPTH - 1
        <5>1. g.create = f.create + 1 /\ g.pop = 0
          BY <3>1, <3>4, <4>2 DEF Succ
        <5>. QED BY <3>2, <3>4, <4>1, <4>2, <5>1 DEF InRing
      <4>3. CASE f.pop # DEPTH - 1
        <5>1. g.create = f.create + 1 /\ g.pop = f.pop + 1
          BY <3>1, <3>4, <4>3 DEF Succ
        <5>. QED BY <3>2, <3>4, <4>1, <4>3, <5>1 DEF InRing
      <4>. QED BY <4>2, <4>3
    <3>5. CASE f.create = f.pop
      <4>1. InRing(f, s)
        BY <3>1, <3>5 DEF InRing
      <4>2. g.create = g.pop
        BY <3>1, <3>5
      <4>. QED BY <3>1, <3>2, <3>5, <4>1, <4>2, SuccType DEF InRing
    <3>. QED BY <3>3, <3>4, <3>5
  <2>2. CASE create /\ ~pop
    <3>1. g.create = Succ(f.create) /\ g.pop = f.pop /\ ~Empty(g)
          /\ (f.create = f.pop => Empty(f))
      BY <1>1, <1>6, <1>7, <2>2
    <3>2. s \in g.vld <=> InRing(f, s) \/ s = f.create
      BY <1>4, <1>5, <2>2
    <3>3. CASE f.create = DEPTH - 1
      BY <3>1, <3>2, <3>3 DEF Succ
    <3>4. CASE f.create # DEPTH - 1
      BY <3>1, <3>2, <3>4 DEF Succ
    <3>. QED BY <3>3, <3>4
  <2>3. CASE ~create /\ pop
    <3>1. g.create = f.create /\ g.pop = Succ(f.pop) /\ ~Empty(f)
      BY <1>1, <1>6, <2>3
    <3>2. \A t \in Slot : t \in g.vld <=> InRing(f, t) /\ t # f.pop
      BY <1>4, <1>5, <2>3
    <3>3. CASE f.pop = DEPTH - 1
      <4>1. g.pop = 0
        BY <3>1, <3>3 DEF Succ
      <4>2. g.create = g.pop => Empty(g)
        <5>1. ASSUME g.create = g.pop, NEW t \in Slot PROVE t \notin g.vld
          BY <3>1, <3>2, <3>3, <4>1, <5>1
        <5>. QED BY <1>2, <5>1 DEF Empty, FifoState
      <4>. QED BY <3>1, <3>2, <3>3, <4>1, <4>2
    <3>4. CASE f.pop # DEPTH - 1
      <4>1. g.pop = f.pop + 1
        BY <3>1, <3>4 DEF Succ
      <4>2. g.create = g.pop => Empty(g)
        <5>1. ASSUME g.create = g.pop, NEW t \in Slot PROVE t \notin g.vld
          BY <3>1, <3>2, <3>4, <4>1, <5>1
        <5>. QED BY <1>2, <5>1 DEF Empty, FifoState
      <4>. QED BY <3>1, <3>2, <3>4, <4>1, <4>2
    <3>. QED BY <3>3, <3>4
  <2>4. CASE ~create /\ ~pop
    <3>1. g.create = f.create /\ g.pop = f.pop /\ g.vld = f.vld
      BY <1>1, <2>4 DEF NextVld
    <3>. QED BY <1>4, <3>1 DEF Empty
  <2>. QED BY <2>1, <2>2, <2>3, <2>4
<1>. QED BY <1>2, <1>8, RingSlots DEF g

(* The registers keep their types and the valid bits are the slots between  *)
(* the two pointers, whatever the depth (ct_fifo.v:79-119).                 *)
THEOREM RingAlwaysConsistent == FifoSpec => [](FifoTypeOK /\ RingConsistent)
<1>1. FifoInit => FifoTypeOK /\ RingConsistent
  BY DEF FifoInit, ResetFifo, FifoTypeOK, FifoState, RingConsistent, IsRing, Empty, Slot
<1>2. FifoTypeOK /\ RingConsistent /\ [FifoNext]_fifo => (FifoTypeOK /\ RingConsistent)'
  <2>1. CASE UNCHANGED fifo
    BY <2>1 DEF FifoTypeOK, RingConsistent
  <2>2. ASSUME FifoTypeOK, RingConsistent,
               NEW create \in BOOLEAN, NEW dp \in BOOLEAN, NEW pop \in BOOLEAN,
               FifoClock(create, dp, pop)
        PROVE  FifoTypeOK' /\ RingConsistent'
    <3>1. PICK d \in Data : fifo' = FifoEdge(fifo, create, dp, pop, d)
      BY <2>2, Zenon DEF FifoClock
    <3>2. FifoEdge(fifo, create, dp, pop, d) \in FifoState
          /\ IsRing(FifoEdge(fifo, create, dp, pop, d))
      BY <2>2, EdgeKeepsRing, Zenon DEF FifoClock, FifoTypeOK, RingConsistent
    <3>. QED BY <3>1, <3>2, Zenon DEF FifoTypeOK, RingConsistent
  <2>. QED BY <2>1, <2>2 DEF FifoNext
<1>. QED BY <1>1, <1>2, PTL DEF FifoSpec

(* The whole invariant of the queue, which the runs check on few slots.     *)
THEOREM FifoInvariant == FifoSpec => []FifoInv
<1>1. FifoTypeOK /\ RingConsistent => FifoInv
  BY DEF FifoInv
<1>. QED BY <1>1, RingAlwaysConsistent, PTL

-----------------------------------------------------------------------------
(* How many entries the ring holds. *)
LEMMA CountFacts ==
  ASSUME NEW f \in FifoState, IsRing(f)
  PROVE  /\ Count(f) \in 0 .. DEPTH
         /\ Count(f) = 0 <=> Empty(f)
         /\ Count(f) = DEPTH <=> Full(f)
         /\ \A k \in 1 .. Count(f) : SlotAt(f, k) \in Slot
         /\ Contents(f) \in Seq(Data)
         /\ Len(Contents(f)) = Count(f)
<1>1. /\ Count(f) \in 0 .. DEPTH
      /\ Count(f) = 0 <=> Empty(f)
      /\ Count(f) = DEPTH <=> Full(f)
  BY RingFacts DEF Count, Slot
<1>2. \A k \in 1 .. Count(f) : SlotAt(f, k) \in Slot
  BY <1>1, RingFacts DEF SlotAt, Slot
<1>3. \A k \in 1 .. Count(f) : f.cont[SlotAt(f, k)] \in Data
  BY <1>2 DEF FifoState
<1>. QED BY <1>1, <1>2, <1>3 DEF Contents

(* The slot to be created lies behind the last entry. *)
LEMMA CreateSlot ==
  ASSUME NEW f \in FifoState, IsRing(f)
  PROVE  /\ ~Full(f) => SlotAt(f, Count(f) + 1) = f.create
         /\ ~Full(f) => \A k \in 1 .. Count(f) : SlotAt(f, k) # f.create
         /\ Full(f) => f.create = f.pop
         /\ Full(f) => \A k \in 2 .. Count(f) : SlotAt(f, k) # f.create
<1>1. /\ f.create \in Slot /\ f.pop \in Slot
      /\ f.create = f.pop => Empty(f) \/ Full(f)
      /\ Full(f) => f.create = f.pop
      /\ Empty(f) => f.create = f.pop /\ ~Full(f)
  BY RingFacts
<1>2. CASE Full(f)
  BY <1>1, <1>2, CountFacts DEF SlotAt, Slot
<1>3. CASE ~Full(f)
  <2>1. SlotAt(f, Count(f) + 1) = f.create
    BY <1>1, <1>3 DEF SlotAt, Slot, Count
  <2>2. ASSUME NEW k \in 1 .. Count(f) PROVE SlotAt(f, k) # f.create
    BY <1>1, <1>3 DEF SlotAt, Slot, Count
  <2>. QED BY <1>3, <2>1, <2>2
<1>. QED BY <1>2, <1>3

(* How an edge changes the number of entries. *)
LEMMA CountStep ==
  ASSUME NEW f \in FifoState, IsRing(f), NEW create \in BOOLEAN, NEW dp \in BOOLEAN,
         NEW pop \in BOOLEAN, NEW d \in Data, Legal(f, create, dp, pop)
  PROVE  Count(FifoEdge(f, create, dp, pop, d))
           = Count(f) + (IF create THEN 1 ELSE 0) - (IF pop THEN 1 ELSE 0)
<1>. DEFINE g == FifoEdge(f, create, dp, pop, d)
<1>0. g \in FifoState /\ IsRing(g)
  BY EdgeKeepsRing, Zenon
<1>1. /\ g.create = IF create THEN Succ(f.create) ELSE f.create
      /\ g.pop = IF pop THEN Succ(f.pop) ELSE f.pop
      /\ g.vld = NextVld(f, create, pop)
  BY DEF FifoEdge
<1>. SUFFICES Count(g) = Count(f) + (IF create THEN 1 ELSE 0) - (IF pop THEN 1 ELSE 0)
  OBVIOUS
<1>. HIDE DEF g
<1>2. /\ f.create \in Slot /\ f.pop \in Slot
      /\ f.create = f.pop => Empty(f) \/ Full(f)
      /\ Full(f) => f.create = f.pop
      /\ Empty(f) => f.create = f.pop /\ ~Full(f)
  BY RingFacts
<1>3. CASE create
  <2>1. ~Empty(g)
    BY <1>1, <1>3 DEF NextVld, Empty
  <2>2. CASE Empty(f)
    BY <1>1, <1>2, <1>3, <2>1, <2>2 DEF Count, Succ, Slot, Legal
  <2>3. CASE ~Empty(f) /\ pop
    BY <1>1, <1>2, <1>3, <2>1, <2>3 DEF Count, Succ, Slot
  <2>4. CASE ~Empty(f) /\ ~pop
    BY <1>1, <1>2, <1>3, <2>1, <2>4 DEF Count, Succ, Slot, Legal
  <2>. QED BY <2>2, <2>3, <2>4
<1>4. CASE ~create /\ pop
  <2>1. g.vld = f.vld \ {f.pop}
    BY <1>1, <1>4 DEF NextVld
  <2>2. ~Full(g)
    BY <1>2, <2>1 DEF Full
  <2>3. Empty(g) <=> g.create = g.pop
    BY <1>0, <2>2, RingFacts
  <2>4. ~Empty(f)
    BY <1>4 DEF Legal
  <2>. QED BY <1>1, <1>2, <1>4, <2>3, <2>4 DEF Count, Succ, Slot
<1>5. CASE ~create /\ ~pop
  <2>1. g.vld = f.vld /\ g.create = f.create /\ g.pop = f.pop
    BY <1>1, <1>5 DEF NextVld
  <2>2. Count(g) = Count(f)
    BY <2>1 DEF Count, Empty
  <2>. QED BY <1>5, <2>2, CountFacts
<1>. QED BY <1>3, <1>4, <1>5

(* What an edge does to the queue that the ring holds. *)
LEMMA ContentsStep ==
  ASSUME NEW f \in FifoState, IsRing(f), NEW create \in BOOLEAN, NEW dp \in BOOLEAN,
         NEW pop \in BOOLEAN, NEW d \in Data, Legal(f, create, dp, pop)
  PROVE  LET rest == IF pop THEN Tail(Contents(f)) ELSE Contents(f)
         IN  Contents(FifoEdge(f, create, dp, pop, d)) = IF create THEN Append(rest, d) ELSE rest
<1>. DEFINE q == Contents(f)
            n == Count(f)
            g == FifoEdge(f, create, dp, pop, d)
<1>2. /\ g.create = IF create THEN Succ(f.create) ELSE f.create
      /\ g.pop = IF pop THEN Succ(f.pop) ELSE f.pop
      /\ g.vld = NextVld(f, create, pop)
      /\ g.cont = IF dp THEN [f.cont EXCEPT ![f.create] = d] ELSE f.cont
  BY DEF FifoEdge
<1>3. Count(g) = n + (IF create THEN 1 ELSE 0) - (IF pop THEN 1 ELSE 0)
  BY CountStep
<1>. HIDE DEF g
<1>4. q \in Seq(Data) /\ Len(q) = n /\ n \in 0 .. DEPTH
  BY CountFacts
<1>5. \A k \in 1 .. n : q[k] = f.cont[SlotAt(f, k)]
  BY DEF Contents
<1>6. ASSUME NEW k \in 1 .. DEPTH
      PROVE  SlotAt(g, k) = IF pop THEN SlotAt(f, k + 1) ELSE SlotAt(f, k)
  BY <1>2 DEF FifoState, SlotAt, Succ, Slot
<1>7. CASE ~create /\ ~pop
  <2>1. Count(g) = n
    BY <1>3, <1>7, <1>4
  <2>2. ASSUME NEW k \in 1 .. n
        PROVE  g.cont[SlotAt(g, k)] = f.cont[SlotAt(f, k)]
    <3>1. SlotAt(g, k) = SlotAt(f, k)
      BY <1>4, <1>6, <1>7
    <3>2. dp => SlotAt(f, k) # f.create
      BY <1>7, CreateSlot DEF Legal
    <3>3. SlotAt(f, k) \in Slot
      BY CountFacts
    <3>. QED BY <1>2, <3>1, <3>2, <3>3 DEF FifoState
  <2>3. Contents(g) = Contents(f)
    BY <2>1, <2>2 DEF Contents
  <2>. QED BY <1>7, <2>3 DEF g
<1>8. CASE create /\ ~pop
  <2>1. Count(g) = n + 1 /\ n < DEPTH /\ ~Full(f) /\ dp
    BY <1>3, <1>4, <1>8, CountFacts DEF Legal
  <2>2. ASSUME NEW k \in 1 .. n + 1
        PROVE  g.cont[SlotAt(g, k)] = IF k = n + 1 THEN d ELSE q[k]
    <3>1. SlotAt(g, k) = SlotAt(f, k)
      BY <1>4, <1>6, <1>8, <2>1
    <3>2. CASE k = n + 1
      BY <1>2, <2>1, <3>1, <3>2, CreateSlot DEF FifoState
    <3>3. CASE k # n + 1
      <4>1. k \in 1 .. n
        BY <1>4, <3>3
      <4>2. SlotAt(f, k) # f.create /\ SlotAt(f, k) \in Slot
        BY <2>1, <4>1, CreateSlot, CountFacts
      <4>. QED BY <1>2, <1>5, <2>1, <3>1, <3>3, <4>1, <4>2 DEF FifoState
    <3>. QED BY <3>2, <3>3
  <2>3. Contents(g) = [k \in 1 .. n + 1 |-> IF k = n + 1 THEN d ELSE q[k]]
    BY <2>1, <2>2 DEF Contents
  <2>4. Contents(g) = Append(q, d)
    <3>. HIDE DEF q, n
    <3>. QED BY <1>4, <2>3, AppendIs
  <2>. QED BY <1>8, <2>4 DEF g
<1>9. CASE pop
  <2>1. n >= 1
    BY <1>4, <1>9, CountFacts DEF Legal
  <2>2. q # << >>
    BY <1>4, <2>1
  <2>3. ASSUME NEW k \in 1 .. n - 1
        PROVE  g.cont[SlotAt(g, k)] = q[k + 1]
    <3>1. SlotAt(g, k) = SlotAt(f, k + 1) /\ k + 1 \in 2 .. n
      BY <1>4, <1>6, <1>9
    <3>2. SlotAt(f, k + 1) # f.create /\ SlotAt(f, k + 1) \in Slot
      BY <3>1, CreateSlot, CountFacts
    <3>. QED BY <1>2, <1>5, <3>1, <3>2 DEF FifoState
  <2>5. CASE ~create
    <3>1. Count(g) = n - 1
      BY <1>3, <1>4, <1>9, <2>5
    <3>2. Contents(g) = [k \in 1 .. n - 1 |-> q[k + 1]]
      BY <2>3, <3>1 DEF Contents
    <3>3. Tail(q) = [k \in 1 .. n - 1 |-> q[k + 1]]
      <4>. HIDE DEF q, n
      <4>. QED BY <1>4, <2>2, TailIs
    <3>. QED BY <1>9, <2>5, <3>2, <3>3 DEF g
  <2>6. CASE create
    <3>1. Count(g) = n /\ dp
      BY <1>3, <1>4, <1>9, <2>6 DEF Legal
    <3>2. g.cont[SlotAt(g, n)] = d
      <4>1. SlotAt(g, n) = SlotAt(f, n + 1)
        BY <1>4, <1>6, <1>9, <2>1
      <4>2. SlotAt(f, n + 1) = f.create
        <5>1. CASE Full(f)
          BY <5>1, CountFacts, CreateSlot DEF SlotAt, FifoState, Slot
        <5>2. CASE ~Full(f)
          BY <5>2, CreateSlot
        <5>. QED BY <5>1, <5>2
      <4>. QED BY <1>2, <3>1, <4>1, <4>2 DEF FifoState
    <3>3. Contents(g) = [k \in 1 .. n |-> IF k = n THEN d ELSE q[k + 1]]
      <4>1. ASSUME NEW k \in 1 .. n
            PROVE  g.cont[SlotAt(g, k)] = IF k = n THEN d ELSE q[k + 1]
        BY <1>4, <2>3, <3>2
      <4>. QED BY <3>1, <4>1 DEF Contents
    <3>4. Append(Tail(q), d) = [k \in 1 .. n |-> IF k = n THEN d ELSE q[k + 1]]
      <4>. HIDE DEF q, n
      <4>. QED BY <1>4, <2>2, TailAppendIs
    <3>. QED BY <1>9, <2>6, <3>3, <3>4 DEF g
  <2>. QED BY <2>5, <2>6
<1>. QED BY <1>7, <1>8, <1>9

(* The head of the queue is what the read port shows. *)
LEMMA HeadIsPopData ==
  ASSUME NEW f \in FifoState, IsRing(f), ~Empty(f)
  PROVE  /\ Contents(f) # << >> /\ Head(Contents(f)) = PopData(f)
         /\ PopData(f) \in Data
<1>1. Count(f) \in 1 .. DEPTH /\ Len(Contents(f)) = Count(f)
  BY CountFacts
<1>2. Contents(f)[1] = PopData(f)
  BY <1>1 DEF Contents, SlotAt, PopData, FifoState, Slot
<1>. QED BY <1>1, <1>2 DEF PopData, FifoState

(* Every legal edge is a step of the queue, or leaves the queue unchanged. *)
LEMMA EdgeIsQueueStep ==
  ASSUME FifoTypeOK, RingConsistent, NEW create \in BOOLEAN,
         NEW dp \in BOOLEAN, NEW pop \in BOOLEAN, FifoClock(create, dp, pop)
  PROVE  \/ Queue!Put \/ Queue!Take \/ Queue!TakeAndPut
         \/ UNCHANGED Contents(fifo)
<1>. DEFINE q == Contents(fifo)
<1>1. PICK d \in Data : fifo' = FifoEdge(fifo, create, dp, pop, d)
  BY DEF FifoClock
<1>. fifo \in FifoState /\ IsRing(fifo) /\ Legal(fifo, create, dp, pop)
  BY DEF FifoTypeOK, RingConsistent, FifoClock
<1>2. Contents(fifo') = IF create THEN Append(IF pop THEN Tail(q) ELSE q, d)
                                  ELSE IF pop THEN Tail(q) ELSE q
  <2>1. Contents(FifoEdge(fifo, create, dp, pop, d))
          = IF create THEN Append(IF pop THEN Tail(q) ELSE q, d) ELSE IF pop THEN Tail(q) ELSE q
    BY ContentsStep
  <2>. QED BY <1>1, <2>1, Zenon
<1>3. q \in Seq(Data) /\ Len(q) = Count(fifo)
  BY CountFacts
<1>4. CASE pop
  <2>1. q # << >>
    BY <1>4, HeadIsPopData DEF Legal
  <2>. QED BY <1>2, <1>4, <2>1 DEF Queue!Take, Queue!TakeAndPut
<1>5. CASE create /\ ~pop
  <2>1. Len(q) < DEPTH
    BY <1>3, <1>5, CountFacts DEF Legal
  <2>. QED BY <1>2, <1>5, <2>1 DEF Queue!Put
<1>6. CASE ~create /\ ~pop
  BY <1>2, <1>6
<1>. QED BY <1>4, <1>5, <1>6

(* ct_fifo implements a bounded queue of capacity DEPTH: nothing is lost,   *)
(* repeated, reordered or changed, for every depth and every pattern of     *)
(* legal create, write and pop enables.                                     *)
THEOREM FifoIsQueue == FifoSpec => ImplementsQueue
<1>1. FifoInit => Queue!QInit
  BY DEF FifoInit, ResetFifo, Queue!QInit, Contents, Count, Empty
<1>2. /\ FifoTypeOK /\ RingConsistent /\ [FifoNext]_fifo
      => [Queue!Put \/ Queue!Take \/ Queue!TakeAndPut]_(Contents(fifo))
  <2>1. CASE UNCHANGED fifo
    BY <2>1 DEF Contents, Count, SlotAt, Empty
  <2>2. CASE FifoNext
    BY <2>2, EdgeIsQueueStep DEF FifoNext
  <2>. QED BY <2>1, <2>2
<1>. QED BY <1>1, <1>2, RingAlwaysConsistent, PTL DEF FifoSpec, ImplementsQueue, Queue!QSpec

-----------------------------------------------------------------------------
(* A cycle in which the enable is low changes none of the gated registers,  *)
(* for any depth and any data (ct_fifo.v:68-77).                            *)
THEOREM FifoGating == FifoSpec => []GatingTransparent
<1>1. FifoTypeOK => GatingTransparent
  <2>. SUFFICES ASSUME FifoTypeOK, NEW create \in BOOLEAN, NEW dp \in BOOLEAN,
                       NEW pop \in BOOLEAN, NEW d \in Data,
                       Legal(fifo, create, dp, pop), ~CtrlClkEn(fifo, dp)
                PROVE  [fifo EXCEPT !.cont = FifoEdge(fifo, create, dp, pop, d).cont]
                         = FifoEdge(fifo, create, dp, pop, d)
    BY DEF GatingTransparent, GatedEdge
  <2>1. ~create /\ ~dp /\ ~pop
    BY DEF Legal, CtrlClkEn
  <2>2. FifoEdge(fifo, create, dp, pop, d)
          = [create |-> fifo.create, pop |-> fifo.pop, vld |-> fifo.vld, cont |-> fifo.cont]
    BY <2>1 DEF FifoEdge, NextVld
  <2>. QED BY <2>2 DEF FifoTypeOK, FifoState
<1>. QED BY <1>1, RingAlwaysConsistent, PTL
=============================================================================
