--------------------------- MODULE BarrierProofs ---------------------------
(****************************************************************************)
(* Proofs about the barrier network of the ciu, for every number of PIUs    *)
(* and every set of targets.                                                *)
(*                                                                          *)
(* The inductive invariant BarrierIInv says where the barrier of a PIU is   *)
(* for each target: nowhere before it was granted, then in one entry of the *)
(* kid's queue, then pending, then finished.  It rests on the kids making   *)
(* the same choice in every cycle (KidsInv, PhaseInv), and it bounds the    *)
(* queues: their entries belong to different PIUs, none of them to a PIU    *)
(* that still asks, so there is a free slot for the one that is granted.    *)
(****************************************************************************)
EXTENDS Barrier, FiniteSetTheorems, TLAPS

(* The lemmas about one matrix and about one ring, which name no variable.  *)
P == INSTANCE CtPrioProofs WITH NUM <- NPIU, prio <- arb, valid <- {}, passed <- arb
F == INSTANCE CtFifoProofs WITH DEPTH <- NPIU, Data <- SUBSET PIU, fifo <- queue

-----------------------------------------------------------------------------
(* Every kid has a matrix that is an order, the same as every other kid's,  *)
(* and a queue that is a ring.                                              *)
KidsInv ==
  \A t \in Target :
    /\ P!Irreflexive(arb[t]) /\ P!Total(arb[t]) /\ P!Transitive(arb[t])
    /\ F!IsRing(queue[t])
    /\ \A u \in Target : arb[t] = arb[u]

(* What the state of a PIU says about its bits. *)
PhaseInv ==
  \A p \in PIU :
    /\ grant[p] \in {{}, Target}
    /\ state[p] = "REQ" => grant[p] = {} /\ cmplt[p] = {}
    /\ state[p] = "CMPLT" => grant[p] = Target
    /\ state[p] = "IDLE" => sent[p] = {}

(* Every entry of a queue belongs to one PIU, and no two to the same.       *)
OwnEntries ==
  \A t \in Target :
    /\ \A s \in queue[t].vld : \E p \in PIU : queue[t].cont[s] = {p}
    /\ \A r, s \in queue[t].vld : queue[t].cont[r] = queue[t].cont[s] => r = s

InQueue(t, p) == \E s \in queue[t].vld : queue[t].cont[s] = {p}

(* Where the barrier of p is for target t. *)
PlaceOf(t, p) ==
  IF state[p] = "CMPLT"
  THEN \/ InQueue(t, p) /\ p \notin pending[t] /\ t \notin cmplt[p]
       \/ ~InQueue(t, p) /\ p \in pending[t] /\ t \notin cmplt[p]
       \/ ~InQueue(t, p) /\ p \notin pending[t] /\ t \in cmplt[p]
  ELSE ~InQueue(t, p) /\ p \notin pending[t]

Places == \A p \in PIU, t \in Target : PlaceOf(t, p)

BarrierIInv == TypeOK /\ KidsInv /\ PhaseInv /\ OwnEntries /\ Places

-----------------------------------------------------------------------------
(* The kids' matrices and rings are the ones the lemmas are about. *)
LEMMA SameMatrix ==
  ASSUME NEW t \in Target, NEW v, NEW m
  PROVE  /\ Arb(t)!Sel(v, m) = P!Sel(v, m)
         /\ Arb(t)!NextPrio(m, v) = P!NextPrio(m, v)
         /\ Arb(t)!ResetPrio = P!ResetPrio
         /\ P!Port = PIU
BY DEF P!Sel, Arb!Sel, P!NextPrio, Arb!NextPrio, P!ResetPrio, Arb!ResetPrio, P!Port, Arb!Port, PIU

LEMMA SameRing ==
  ASSUME NEW t \in Target, NEW f, NEW create, NEW pop, NEW d
  PROVE  /\ Queue(t)!FifoEdge(f, create, create, pop, d) = F!FifoEdge(f, create, create, pop, d)
         /\ Queue(t)!ResetFifo(d) = F!ResetFifo(d)
         /\ Queue(t)!FifoState = F!FifoState
         /\ Queue(t)!Full(f) <=> F!Full(f)
         /\ Queue(t)!Empty(f) <=> F!Empty(f)
         /\ Queue(t)!PopData(f) = F!PopData(f)
         /\ F!Slot = PIU
<1>1. Queue(t)!FifoEdge(f, create, create, pop, d) = F!FifoEdge(f, create, create, pop, d)
  BY DEF Queue!FifoEdge, F!FifoEdge, Queue!NextVld, F!NextVld, Queue!Succ, F!Succ
<1>2. Queue(t)!ResetFifo(d) = F!ResetFifo(d)
  BY DEF Queue!ResetFifo, F!ResetFifo, Queue!Slot, F!Slot
<1>3. Queue(t)!FifoState = F!FifoState
  BY DEF Queue!FifoState, F!FifoState, Queue!Slot, F!Slot
<1>4. /\ Queue(t)!Full(f) <=> F!Full(f)
      /\ Queue(t)!Empty(f) <=> F!Empty(f)
      /\ Queue(t)!PopData(f) = F!PopData(f)
  BY DEF Queue!Full, F!Full, Queue!Empty, F!Empty, Queue!PopData, F!PopData, Queue!Slot, F!Slot
<1>5. F!Slot = PIU
  BY DEF F!Slot, PIU
<1>. QED BY <1>1, <1>2, <1>3, <1>4, <1>5

LEMMA Instances == P!NumAssumption /\ F!DepthAssumption
BY NPIUAssumption DEF P!NumAssumption, F!DepthAssumption

-----------------------------------------------------------------------------
(* The PIUs that ask, the same for every target. *)
Asking == {p \in PIU : state[p] = "REQ" /\ wd[p]}

LEMMA AllAskAlike ==
  ASSUME PhaseInv, NEW t \in Target
  PROVE  Requests(t) = Asking
BY DEF PhaseInv, Requests, Asking

(* All kids grant the same PIU, one of those that ask. *)
LEMMA AllGrantAlike ==
  ASSUME TypeOK, KidsInv, PhaseInv
  PROVE  \E W \in SUBSET Asking :
           /\ \A t \in Target : Granted(t) = W
           /\ Asking = {} => W = {}
           /\ Asking # {} => \E w \in Asking : W = {w}
<1>1. PICK t \in Target : TRUE
  BY TargetAssumption
<1>2. \A u \in Target : Granted(u) = P!Sel(Asking, arb[t])
  <2>. TAKE u \in Target
  <2>1. arb[u] = arb[t] /\ Requests(u) = Asking
    BY AllAskAlike DEF KidsInv
  <2>. QED BY <2>1, SameMatrix DEF Granted
<1>3. CASE Asking = {}
  BY <1>2, <1>3 DEF P!Sel
<1>4. CASE Asking # {}
  <2>1. /\ arb[t] \in [P!Port -> SUBSET P!Port] /\ Asking \in SUBSET P!Port
        /\ P!Irreflexive(arb[t]) /\ P!Total(arb[t]) /\ P!Transitive(arb[t])
    BY SameMatrix DEF TypeOK, KidsInv, Asking
  <2>2. PICK w \in Asking : P!Sel(Asking, arb[t]) = {w}
    BY <1>4, <2>1, Instances, P!OrderGivesWinner
  <2>. QED BY <1>2, <1>4, <2>2
<1>. QED BY <1>3, <1>4

(* There is room for the PIU that is granted: the entries of a full queue   *)
(* would belong to all PIUs, also to one that still asks.                   *)
LEMMA RoomForGrant ==
  ASSUME BarrierIInv
  PROVE  NeverOverflows
<1>. SUFFICES ASSUME NEW t \in Target, Requests(t) # {}, Queue(t)!Full(queue[t])
              PROVE  FALSE
  BY DEF NeverOverflows
<1>1. PICK p \in PIU : state[p] = "REQ"
  BY DEF Requests
<1>2. queue[t].vld = PIU
  BY SameRing DEF F!Full
<1>3. ~InQueue(t, p)
  BY <1>1 DEF BarrierIInv, Places, PlaceOf
<1>4. \A s \in PIU : \E q \in PIU \ {p} : queue[t].cont[s] = {q}
  <2>. TAKE s \in PIU
  <2>1. PICK q \in PIU : queue[t].cont[s] = {q}
    BY <1>2 DEF BarrierIInv, OwnEntries
  <2>2. q # p
    BY <1>2, <1>3, <2>1 DEF InQueue
  <2>. QED BY <2>1, <2>2
<1>. DEFINE owner(s) == CHOOSE q \in PIU \ {p} : queue[t].cont[s] = {q}
            f == [s \in PIU |-> owner(s)]
<1>5. \A s \in PIU : owner(s) \in PIU \ {p} /\ queue[t].cont[s] = {owner(s)}
  BY <1>4, Zenon
<1>. HIDE DEF owner
<1>6. f \in [PIU -> PIU \ {p}] /\ \A s \in PIU : f[s] = owner(s)
  BY <1>5
<1>7. \A r, s \in PIU : f[r] = f[s] => r = s
  <2>. HIDE DEF f
  <2>1. \A r, s \in PIU : queue[t].cont[r] = queue[t].cont[s] => r = s
    BY <1>2 DEF BarrierIInv, OwnEntries
  <2>2. ASSUME NEW r \in PIU, NEW s \in PIU, f[r] = f[s] PROVE r = s
    <3>1. owner(r) = owner(s)
      BY <1>6, <2>2
    <3>2. queue[t].cont[r] = queue[t].cont[s]
      BY <1>5, <3>1
    <3>. QED BY <2>1, <3>2
  <2>. QED BY <2>2
<1>8. IsFiniteSet(PIU) /\ Cardinality(PIU) = NPIU
  BY NPIUAssumption, FS_Interval DEF PIU
<1>9. IsFiniteSet(PIU \ {p}) /\ Cardinality(PIU \ {p}) = NPIU - 1
  BY <1>8, FS_RemoveElement
<1>10. NPIU <= NPIU - 1
  <2>. HIDE DEF f
  <2>1. f \in Injection(PIU, PIU \ {p})
    BY <1>6, <1>7 DEF Injection, IsInjective
  <2>. QED BY <1>8, <1>9, <2>1, FS_Injection
<1>. QED BY <1>10, NPIUAssumption

-----------------------------------------------------------------------------
(* What the surroundings may do in a cycle. *)
LEMMA InputFacts ==
  ASSUME NEW in \in Inputs
  PROVE  /\ \A p \in PIU : /\ in.half[p] \subseteq Half(p) /\ in.half[p] \subseteq {"R", "W"}
                           /\ in.reply[p] \subseteq Reply(p)
                           /\ p \in in.data => Owed(p)
                           /\ p \in in.noOp => state[p] = "CMPLT"
         /\ \A t \in Target : /\ in.done[t] \subseteq pending[t]
                              /\ t \in in.take => MayTake(t)
BY DEF Inputs

(* What an edge does to the queue of one target: the head leaves it when it *)
(* is taken, the granted PIU enters it, and it stays a ring of own entries. *)
LEMMA QueueStep ==
  ASSUME BarrierIInv, NEW in \in Inputs, KidEdge(in), NEW t \in Target,
         NEW W \in SUBSET Asking, Granted(t) = W,
         Asking = {} => W = {}, Asking # {} => \E w \in Asking : W = {w}
  PROVE  /\ queue'[t] \in F!FifoState /\ F!IsRing(queue'[t])
         /\ \A s \in queue'[t].vld : \E p \in PIU : queue'[t].cont[s] = {p}
         /\ \A r, s \in queue'[t].vld : queue'[t].cont[r] = queue'[t].cont[s] => r = s
         /\ \A p \in PIU : InQueue(t, p)' <=>
              p \in W \/ (InQueue(t, p) /\ ~(t \in in.take /\ p \in Head(t)))
<1>. DEFINE f == queue[t]
            g == queue'[t]
            create == Asking # {}
            pop == t \in in.take
<1>1. f \in F!FifoState /\ F!IsRing(f) /\ Requests(t) = Asking
  BY SameRing, AllAskAlike DEF BarrierIInv, TypeOK, KidsInv
<1>2. W \in SUBSET PIU
  BY DEF Asking
<1>3. g = F!FifoEdge(f, create, create, pop, W)
  <2>1. g = Queue(t)!FifoEdge(queue[t], Requests(t) # {}, Requests(t) # {}, t \in in.take, Granted(t))
    BY DEF KidEdge
  <2>. QED BY <1>1, <2>1, SameRing
<1>4. pop => ~F!Empty(f)
  BY InputFacts, SameRing DEF MayTake, Head
<1>5. create => ~F!Full(f)
  BY <1>1, RoomForGrant, SameRing DEF NeverOverflows
<1>6. F!Legal(f, create, create, pop)
  BY <1>4, <1>5 DEF F!Legal
<1>7. g \in F!FifoState /\ F!IsRing(g)
  <2>1. /\ F!FifoEdge(f, create, create, pop, W) \in F!FifoState
        /\ F!IsRing(F!FifoEdge(f, create, create, pop, W))
    <3>. HIDE DEF f, create, pop
    <3>1. create \in BOOLEAN /\ pop \in BOOLEAN
      BY DEF create, pop
    <3>. QED BY <1>1, <1>2, <1>6, <3>1, Instances, F!EdgeKeepsRing
  <2>. QED BY <1>3, <2>1
<1>8. /\ g.vld = (f.vld \ (IF pop THEN {f.pop} ELSE {})) \cup (IF create THEN {f.create} ELSE {})
      /\ g.cont = IF create THEN [f.cont EXCEPT ![f.create] = W] ELSE f.cont
  BY <1>3 DEF F!FifoEdge, F!NextVld
<1>9. /\ f.vld \subseteq PIU /\ f.create \in PIU
      /\ create => f.create \notin f.vld
      /\ pop => f.pop \in f.vld
      /\ \A d : f.create \in PIU => [f.cont EXCEPT ![f.create] = d][f.create] = d
  <2>1. /\ f.create \in F!Slot /\ f.pop \in F!Slot
        /\ f.create # f.pop => f.create \notin f.vld /\ f.pop \in f.vld
        /\ f.create = f.pop => F!Empty(f) \/ F!Full(f)
    <3>. HIDE DEF f
    <3>. QED BY <1>1, Instances, F!RingFacts
  <2>2. f.vld \subseteq F!Slot /\ f.cont \in [F!Slot -> SUBSET PIU]
    BY <1>1 DEF F!FifoState
  <2>3. F!Slot = PIU
    BY SameRing
  <2>. QED BY <1>4, <1>5, <2>1, <2>2, <2>3 DEF F!Empty, F!Full
<1>10. \A s \in f.vld : \E p \in PIU : f.cont[s] = {p}
  BY DEF BarrierIInv, OwnEntries
<1>11. \A r, s \in f.vld : f.cont[r] = f.cont[s] => r = s
  BY DEF BarrierIInv, OwnEntries
<1>12. \A s \in f.vld : f.cont[s] # W
  <2>. SUFFICES ASSUME NEW s \in f.vld, f.cont[s] = W PROVE FALSE
    OBVIOUS
  <2>1. PICK p \in PIU : W = {p}
    BY <1>10
  <2>2. state[p] = "REQ" /\ ~InQueue(t, p)
    BY <2>1 DEF Asking, BarrierIInv, Places, PlaceOf
  <2>. QED BY <2>1, <2>2 DEF InQueue
<1>13. Head(t) = IF f.vld = {} THEN {} ELSE f.cont[f.pop]
  BY SameRing DEF Head, F!Empty, F!PopData
<1>. HIDE DEF f, g, create, pop
<1>14. \A s \in f.vld : s # f.create \/ ~create
  BY <1>9
<1>15. /\ \A s \in g.vld : \/ create /\ s = f.create /\ g.cont[s] = W
                           \/ s \in f.vld /\ ~(pop /\ s = f.pop) /\ g.cont[s] = f.cont[s]
       /\ \A s \in f.vld : ~(pop /\ s = f.pop) => s \in g.vld /\ g.cont[s] = f.cont[s]
       /\ create => f.create \in g.vld /\ g.cont[f.create] = W
  BY <1>8, <1>9, <1>14
<1>16. \A s \in g.vld : \E p \in PIU : g.cont[s] = {p}
  <2>. TAKE s \in g.vld
  <2>1. CASE create /\ g.cont[s] = W
    BY <1>2, <2>1 DEF create
  <2>2. CASE s \in f.vld /\ g.cont[s] = f.cont[s]
    BY <1>10, <2>2
  <2>. QED BY <1>15, <2>1, <2>2
<1>17. \A r, s \in g.vld : g.cont[r] = g.cont[s] => r = s
  BY <1>11, <1>12, <1>15
<1>18. ASSUME NEW p \in PIU
       PROVE  (\E s \in g.vld : g.cont[s] = {p}) <=>
                p \in W \/ ((\E s \in f.vld : f.cont[s] = {p}) /\ ~(pop /\ p \in Head(t)))
  <2>1. pop => (\A s \in f.vld : f.cont[s] = {p} => (p \in Head(t) <=> s = f.pop))
    <3>1. ASSUME pop, NEW s \in f.vld, f.cont[s] = {p} PROVE p \in Head(t) <=> s = f.pop
      <4>1. Head(t) = f.cont[f.pop] /\ f.pop \in f.vld
        BY <1>9, <1>13, <3>1
      <4>2. PICK q \in PIU : f.cont[f.pop] = {q}
        BY <1>10, <4>1
      <4>3. CASE q = p
        BY <1>11, <3>1, <4>1, <4>2, <4>3
      <4>4. CASE q # p
        BY <3>1, <4>1, <4>2, <4>4
      <4>. QED BY <4>3, <4>4
    <3>. QED BY <3>1
  <2>2. p \in W <=> create /\ W = {p}
    BY DEF create
  <2>3. ASSUME NEW s \in g.vld, g.cont[s] = {p}
        PROVE  p \in W \/ ((\E x \in f.vld : f.cont[x] = {p}) /\ ~(pop /\ p \in Head(t)))
    <3>1. CASE create /\ g.cont[s] = W
      BY <2>3, <3>1
    <3>2. CASE s \in f.vld /\ ~(pop /\ s = f.pop) /\ g.cont[s] = f.cont[s]
      BY <2>1, <2>3, <3>2
    <3>. QED BY <1>15, <3>1, <3>2
  <2>4. ASSUME p \in W PROVE \E s \in g.vld : g.cont[s] = {p}
    BY <1>15, <2>2, <2>4
  <2>5. ASSUME NEW s \in f.vld, f.cont[s] = {p}, ~(pop /\ p \in Head(t))
        PROVE  \E x \in g.vld : g.cont[x] = {p}
    <3>1. ~(pop /\ s = f.pop)
      BY <2>1, <2>5
    <3>. QED BY <1>15, <2>5, <3>1
  <2>. QED BY <2>3, <2>4, <2>5
<1>19. \A p \in PIU : InQueue(t, p)' <=>
              p \in W \/ (InQueue(t, p) /\ ~(t \in in.take /\ p \in Head(t)))
  BY <1>18 DEF InQueue, f, g, pop
<1>. QED BY <1>7, <1>16, <1>17, <1>19 DEF g

(* The matrices stay orders, and alike. *)
LEMMA MatrixStep ==
  ASSUME TypeOK, KidsInv, NEW in \in Inputs, KidEdge(in),
         NEW W \in SUBSET Asking, \A t \in Target : Granted(t) = W,
         Asking = {} => W = {}, Asking # {} => \E w \in Asking : W = {w}
  PROVE  \A t \in Target :
           /\ arb'[t] \in [PIU -> SUBSET PIU]
           /\ P!Irreflexive(arb'[t]) /\ P!Total(arb'[t]) /\ P!Transitive(arb'[t])
           /\ \A u \in Target : arb'[t] = arb'[u]
<1>1. \A t \in Target : arb'[t] = P!NextPrio(arb[t], W)
  BY SameMatrix DEF KidEdge
<1>2. \A t, u \in Target : arb'[t] = arb'[u]
  BY <1>1 DEF KidsInv
<1>3. ASSUME NEW t \in Target
      PROVE  /\ arb'[t] \in [PIU -> SUBSET PIU]
             /\ P!Irreflexive(arb'[t]) /\ P!Total(arb'[t]) /\ P!Transitive(arb'[t])
  <2>1. /\ arb[t] \in [PIU -> SUBSET PIU]
        /\ P!Irreflexive(arb[t]) /\ P!Total(arb[t]) /\ P!Transitive(arb[t])
    BY DEF TypeOK, KidsInv
  <2>2. CASE W = {}
    BY <1>1, <2>1, <2>2 DEF P!NextPrio
  <2>3. CASE \E w \in Asking : W = {w}
    <3>1. PICK w \in PIU : W = {w}
      BY <2>3 DEF Asking
    <3>2. w \in P!Port /\ P!Port = PIU
      BY SameMatrix
    <3>3. LET m == P!NextPrio(arb[t], {w})
          IN  /\ m \in [P!Port -> SUBSET P!Port]
              /\ P!Irreflexive(m) /\ P!Total(m) /\ P!Transitive(m)
      BY <2>1, <3>2, Instances, P!NextPrioOrder
    <3>. QED BY <1>1, <3>1, <3>2, <3>3
  <2>. QED BY <2>2, <2>3
<1>. QED BY <1>2, <1>3

(* A PIU without a barrier in progress is out of every target's reach.      *)
LEMMA OutOfReach ==
  ASSUME BarrierIInv, NEW in \in Inputs, NEW p \in PIU
  PROVE  /\ state[p] # "CMPLT" => CmpltBus(in, p) = {} /\ p \notin in.noOp
         /\ state[p] # "REQ" => GrantBus(p) = {}
         /\ state[p] \in {"REQ", "CMPLT", "RESP"} => in.half[p] = {}
         /\ state[p] # "RESP" => in.reply[p] = {}
         /\ state[p] = "IDLE" => p \notin in.data
<1>1. state[p] # "CMPLT" => CmpltBus(in, p) = {} /\ p \notin in.noOp
  <2>1. \A t \in Target : state[p] # "CMPLT" => p \notin pending[t]
    BY DEF BarrierIInv, Places, PlaceOf
  <2>. QED BY <2>1, InputFacts DEF CmpltBus
<1>2. state[p] # "REQ" => GrantBus(p) = {}
  BY SameMatrix DEF GrantBus, Granted, P!Sel, Requests
<1>3. state[p] \in {"REQ", "CMPLT", "RESP"} => in.half[p] = {}
  BY InputFacts DEF Half
<1>4. state[p] # "RESP" => in.reply[p] = {}
  BY InputFacts DEF Reply
<1>5. state[p] = "IDLE" => p \notin in.data
  BY InputFacts DEF Owed, BarrierIInv, PhaseInv
<1>. QED BY <1>1, <1>2, <1>3, <1>4, <1>5

(* How a PIU goes on, when the kids grant W. *)
LEMMA PiuStep ==
  ASSUME BarrierIInv, NEW in \in Inputs, PiuEdge(in), NEW p \in PIU,
         NEW W, \A t \in Target : Granted(t) = W
  PROVE  /\ state[p] = "IDLE" => state'[p] \in {"IDLE", "WAIT", "REQ"}
         /\ state[p] = "WAIT" => state'[p] \in {"WAIT", "REQ"}
         /\ state[p] = "REQ" => /\ state'[p] = IF p \in W THEN "CMPLT" ELSE "REQ"
                                /\ grant'[p] = IF p \in W THEN Target ELSE {}
                                /\ cmplt'[p] = {}
         /\ state[p] = "CMPLT" => /\ state'[p] \in {"CMPLT", "RESP"}
                                  /\ cmplt'[p] = cmplt[p] \cup CmpltBus(in, p)
                                  /\ grant'[p] = grant[p]
                                  /\ state'[p] = "RESP" => cmplt'[p] = Target
         /\ state[p] = "RESP" => state'[p] \in {"RESP", "IDLE"} /\ cmplt'[p] = cmplt[p]
         /\ state[p] \in {"IDLE", "WAIT"} /\ state'[p] = "REQ" => grant'[p] = {} /\ cmplt'[p] = {}
         /\ state[p] # "REQ" => grant'[p] \in {{}, grant[p]}
<1>1. /\ state'[p] = NextState(in, p)
      /\ grant'[p] = IF in.half[p] # {} THEN {} ELSE grant[p] \cup GrantBus(p)
      /\ cmplt'[p] = IF in.half[p] # {} THEN {} ELSE cmplt[p] \cup CmpltBus(in, p)
  BY DEF PiuEdge, Gather
<1>2. GrantBus(p) = IF p \in W THEN Target ELSE {}
  BY DEF GrantBus
<1>3. state[p] \in {"IDLE", "WAIT", "REQ", "CMPLT", "RESP"}
  BY DEF BarrierIInv, TypeOK
<1>4. CASE state[p] = "IDLE"
  <2>1. state'[p] = IF in.half[p] = {"R", "W"} THEN "REQ"
                    ELSE IF in.half[p] # {} THEN "WAIT" ELSE "IDLE"
    BY <1>1, <1>4 DEF NextState
  <2>. QED BY <1>1, <1>4, <2>1, OutOfReach
<1>5. CASE state[p] = "WAIT"
  <2>1. state'[p] = IF Cardinality(in.half[p]) = 1 THEN "REQ" ELSE "WAIT"
    BY <1>1, <1>5 DEF NextState
  <2>2. Cardinality(in.half[p]) = 1 => in.half[p] # {}
    BY FS_EmptySet
  <2>. QED BY <1>1, <1>5, <2>1, <2>2, OutOfReach
<1>6. CASE state[p] = "REQ"
  <2>1. state'[p] = IF grant[p] \cup GrantBus(p) = Target THEN "CMPLT" ELSE "REQ"
    BY <1>1, <1>6 DEF NextState
  <2>2. grant[p] = {} /\ cmplt[p] = {} /\ in.half[p] = {} /\ CmpltBus(in, p) = {}
    BY <1>6, OutOfReach DEF BarrierIInv, PhaseInv
  <2>. QED BY <1>1, <1>2, <1>6, <2>1, <2>2, TargetAssumption
<1>7. CASE state[p] = "CMPLT"
  <2>1. state'[p] = IF /\ cmplt[p] \cup CmpltBus(in, p) = Target
                       /\ (BarDis /\ req[p] \in Narrow) \/ p \in in.noOp
                    THEN "RESP" ELSE "CMPLT"
    BY <1>1, <1>7 DEF NextState
  <2>2. in.half[p] = {} /\ GrantBus(p) = {}
    BY <1>7, OutOfReach
  <2>. QED BY <1>1, <1>7, <2>1, <2>2
<1>8. CASE state[p] = "RESP"
  <2>1. state'[p] = IF answered[p] \cup in.reply[p] = {"R", "B"} THEN "IDLE" ELSE "RESP"
    BY <1>1, <1>8 DEF NextState
  <2>2. in.half[p] = {} /\ GrantBus(p) = {} /\ CmpltBus(in, p) = {}
    BY <1>8, OutOfReach
  <2>. QED BY <1>1, <1>8, <2>1, <2>2
<1>. QED BY <1>3, <1>4, <1>5, <1>6, <1>7, <1>8

(* The place of a barrier after an edge. *)
LEMMA PlaceStep ==
  ASSUME BarrierIInv, NEW in \in Inputs, Edge(in), NEW p \in PIU, NEW t \in Target,
         NEW W \in SUBSET Asking, \A u \in Target : Granted(u) = W,
         Asking = {} => W = {}, Asking # {} => \E w \in Asking : W = {w}
  PROVE  PlaceOf(t, p)'
<1>1. PlaceOf(t, p)
  BY DEF BarrierIInv, Places
<1>2. InQueue(t, p)' <=> p \in W \/ (InQueue(t, p) /\ ~(t \in in.take /\ p \in Head(t)))
  BY QueueStep DEF Edge
<1>3. p \in pending'[t] <=> \/ p \in pending[t] /\ p \notin in.done[t]
                            \/ t \in in.take /\ p \in Head(t)
  BY DEF Edge, TargetEdge
<1>4. p \in Head(t) => InQueue(t, p)
  <2>1. SUFFICES ASSUME p \in Head(t) PROVE InQueue(t, p)
    OBVIOUS
  <2>2. queue[t].vld # {} /\ p \in queue[t].cont[queue[t].pop]
    BY <2>1, SameRing DEF Head, F!Empty, F!PopData
  <2>3. queue[t].pop \in queue[t].vld
    <3>1. queue[t] \in F!FifoState /\ F!IsRing(queue[t])
      BY SameRing DEF BarrierIInv, TypeOK, KidsInv
    <3>2. /\ queue[t].create # queue[t].pop => queue[t].pop \in queue[t].vld
          /\ queue[t].create = queue[t].pop => F!Empty(queue[t]) \/ F!Full(queue[t])
          /\ queue[t].pop \in F!Slot
      BY <3>1, Instances, F!RingFacts
    <3>. QED BY <2>2, <3>2 DEF F!Empty, F!Full
  <2>4. PICK q \in PIU : queue[t].cont[queue[t].pop] = {q}
    BY <2>3 DEF BarrierIInv, OwnEntries
  <2>. QED BY <2>2, <2>3, <2>4 DEF InQueue
<1>5. p \in W => state[p] = "REQ"
  BY DEF Asking
<1>6. t \in CmpltBus(in, p) <=> p \in in.done[t]
  BY DEF CmpltBus
<1>7. p \in in.done[t] => p \in pending[t]
  BY InputFacts
<1>8. CASE state[p] = "CMPLT"
  <2>1. state'[p] \in {"CMPLT", "RESP"} /\ cmplt'[p] = cmplt[p] \cup CmpltBus(in, p)
        /\ (state'[p] = "RESP" => cmplt'[p] = Target)
    BY <1>8, PiuStep DEF Edge
  <2>. QED BY <1>1, <1>2, <1>3, <1>4, <1>5, <1>6, <1>7, <1>8, <2>1 DEF PlaceOf
<1>9. CASE state[p] = "REQ"
  <2>1. state'[p] = (IF p \in W THEN "CMPLT" ELSE "REQ") /\ cmplt'[p] = {}
    BY <1>9, PiuStep DEF Edge
  <2>2. ~InQueue(t, p) /\ p \notin pending[t]
    BY <1>1, <1>9 DEF PlaceOf
  <2>. QED BY <1>2, <1>3, <1>4, <1>9, <2>1, <2>2 DEF PlaceOf
<1>10. CASE state[p] \in {"IDLE", "WAIT", "RESP"}
  <2>1. state'[p] # "CMPLT"
    BY <1>10, PiuStep DEF Edge
  <2>2. ~InQueue(t, p) /\ p \notin pending[t]
    BY <1>1, <1>10 DEF PlaceOf
  <2>. QED BY <1>2, <1>3, <1>4, <1>5, <1>10, <2>1, <2>2 DEF PlaceOf
<1>. QED BY <1>8, <1>9, <1>10 DEF BarrierIInv, TypeOK

-----------------------------------------------------------------------------
(* One edge keeps the types. *)
LEMMA TypeStep ==
  ASSUME BarrierIInv, NEW in \in Inputs, Edge(in),
         NEW W \in SUBSET Asking, \A t \in Target : Granted(t) = W,
         Asking = {} => W = {}, Asking # {} => \E w \in Asking : W = {w}
  PROVE  TypeOK'
<1>0. TypeOK
  BY DEF BarrierIInv
<1>1. state' \in [PIU -> {"IDLE", "WAIT", "REQ", "CMPLT", "RESP"}]
  <2>1. \A p \in PIU : state'[p] \in {"IDLE", "WAIT", "REQ", "CMPLT", "RESP"}
    <3>. TAKE p \in PIU
    <3>1. state[p] \in {"IDLE", "WAIT", "REQ", "CMPLT", "RESP"}
      BY <1>0 DEF TypeOK
    <3>. QED BY <3>1, PiuStep DEF Edge
  <2>. QED BY <2>1 DEF Edge, PiuEdge
<1>2. /\ grant' \in [PIU -> SUBSET Target] /\ cmplt' \in [PIU -> SUBSET Target]
      /\ answered' \in [PIU -> SUBSET {"R", "B"}]
  <2>1. \A p \in PIU : GrantBus(p) \subseteq Target /\ CmpltBus(in, p) \subseteq Target
    BY DEF GrantBus, CmpltBus
  <2>2. \A p \in PIU : in.reply[p] \subseteq {"R", "B"}
    BY InputFacts DEF Reply
  <2>. QED BY <1>0, <2>1, <2>2 DEF Edge, PiuEdge, Gather, TypeOK
<1>3. wd' \in [PIU -> BOOLEAN]
  <2>1. wd' = [p \in PIU |-> NextWd(in, p)]
    BY DEF Edge, PiuEdge
  <2>2. \A p \in PIU : NextWd(in, p) \in BOOLEAN
    BY DEF NextWd
  <2>. QED BY <2>1, <2>2
<1>4. req' \in [PIU -> BarReq]
  BY DEF Edge, PiuEdge
<1>5. sent' \in [PIU -> SUBSET {"R", "W", "D"}]
  <2>1. \A p \in PIU : sent[p] \subseteq {"R", "W", "D"} /\ in.half[p] \subseteq {"R", "W"}
    BY <1>0, InputFacts DEF TypeOK
  <2>. QED BY <2>1 DEF Edge, MasterEdge
<1>6. ASSUME NEW t \in Target
      PROVE  /\ arb'[t] \in [PIU -> SUBSET PIU]
             /\ queue'[t] \in Queue(t)!FifoState
             /\ pending'[t] \subseteq PIU
  <2>1. arb'[t] \in [PIU -> SUBSET PIU]
    BY <1>0, MatrixStep DEF Edge, BarrierIInv
  <2>2. queue'[t] \in Queue(t)!FifoState
    BY QueueStep, SameRing DEF Edge
  <2>3. Head(t) \subseteq PIU
    <3>1. queue[t] \in F!FifoState
      BY <1>0, SameRing DEF TypeOK
    <3>2. F!PopData(queue[t]) \in SUBSET PIU
      BY <3>1 DEF F!FifoState, F!PopData
    <3>. QED BY <3>2, SameRing DEF Head
  <2>4. pending[t] \subseteq PIU
    BY <1>0 DEF TypeOK
  <2>5. pending'[t] = (pending[t] \ in.done[t]) \cup (IF t \in in.take THEN Head(t) ELSE {})
    BY DEF Edge, TargetEdge
  <2>. QED BY <2>1, <2>2, <2>3, <2>4, <2>5
<1>7. \A t \in Target : Queue(t)!FifoState = Queue(t)!FifoState'
  BY DEF Queue!FifoState, Queue!Slot
<1>. QED BY <1>1, <1>2, <1>3, <1>4, <1>5, <1>6 DEF TypeOK

(* One edge keeps the whole invariant. *)
LEMMA InvStep ==
  ASSUME BarrierIInv, NEW in \in Inputs, Edge(in)
  PROVE  BarrierIInv'
<1>1. PICK W \in SUBSET Asking : /\ \A t \in Target : Granted(t) = W
                                 /\ Asking = {} => W = {}
                                 /\ Asking # {} => \E w \in Asking : W = {w}
  BY AllGrantAlike DEF BarrierIInv
<1>2. TypeOK'
  BY <1>1, TypeStep
<1>3. KidsInv'
  <2>1. \A t \in Target : /\ P!Irreflexive(arb'[t]) /\ P!Total(arb'[t]) /\ P!Transitive(arb'[t])
                          /\ \A u \in Target : arb'[t] = arb'[u]
    BY <1>1, MatrixStep DEF Edge, BarrierIInv
  <2>2. \A t \in Target : F!IsRing(queue'[t])
    BY <1>1, QueueStep DEF Edge
  <2>. QED BY <2>1, <2>2 DEF KidsInv
<1>4. PhaseInv'
  <2>. SUFFICES ASSUME NEW p \in PIU
                PROVE  /\ grant'[p] \in {{}, Target}
                       /\ state'[p] = "REQ" => grant'[p] = {} /\ cmplt'[p] = {}
                       /\ state'[p] = "CMPLT" => grant'[p] = Target
                       /\ state'[p] = "IDLE" => sent'[p] = {}
    BY DEF PhaseInv
  <2>1. /\ grant[p] \in {{}, Target}
        /\ state[p] = "CMPLT" => grant[p] = Target
        /\ state[p] \in {"IDLE", "WAIT", "REQ", "CMPLT", "RESP"}
    BY DEF BarrierIInv, PhaseInv, TypeOK
  <2>2. state'[p] = "IDLE" => sent'[p] = {}
    BY DEF Edge, PiuEdge, MasterEdge
  <2>. QED BY <1>1, <2>1, <2>2, PiuStep DEF Edge
<1>5. OwnEntries'
  BY <1>1, QueueStep DEF Edge, OwnEntries
<1>6. Places'
  BY <1>1, PlaceStep DEF Places
<1>. QED BY <1>2, <1>3, <1>4, <1>5, <1>6 DEF BarrierIInv

LEMMA InvInit == Init => BarrierIInv
<1>. SUFFICES ASSUME Init PROVE BarrierIInv
  OBVIOUS
<1>1. ASSUME NEW t \in Target
      PROVE  arb[t] = P!ResetPrio /\ queue[t] = F!ResetFifo({}) /\ pending[t] = {}
  BY SameMatrix, SameRing DEF Init
<1>2. ResetReq \in BarReq
  BY NarrowAssumption DEF ResetReq
<1>3. ASSUME NEW t \in Target
      PROVE  /\ arb[t] \in [PIU -> SUBSET PIU]
             /\ P!Irreflexive(arb[t]) /\ P!Total(arb[t]) /\ P!Transitive(arb[t])
             /\ \A u \in Target : arb[t] = arb[u]
  <2>. DEFINE m == P!ResetPrio
  <2>1. m \in [PIU -> SUBSET PIU] /\ P!Irreflexive(m) /\ P!Total(m) /\ P!Transitive(m)
    BY NPIUAssumption DEF P!ResetPrio, P!Port, PIU, P!Irreflexive, P!Total, P!Transitive
  <2>. HIDE DEF m
  <2>2. arb[t] = m /\ \A u \in Target : arb[u] = m
    BY <1>1 DEF m
  <2>. QED BY <2>1, <2>2
<1>4. ASSUME NEW t \in Target
      PROVE  queue[t] \in Queue(t)!FifoState /\ F!IsRing(queue[t]) /\ queue[t].vld = {}
  <2>. DEFINE f == F!ResetFifo({})
  <2>1. f \in F!FifoState /\ F!IsRing(f) /\ f.vld = {}
    BY NPIUAssumption DEF F!ResetFifo, F!FifoState, F!IsRing, F!Empty, F!Slot, PIU
  <2>. HIDE DEF f
  <2>. QED BY <1>1, <2>1, SameRing DEF f
<1>5. TypeOK
  BY <1>1, <1>2, <1>3, <1>4 DEF Init, TypeOK
<1>6. KidsInv
  BY <1>3, <1>4 DEF KidsInv
<1>7. PhaseInv
  BY DEF Init, PhaseInv
<1>8. OwnEntries /\ Places
  BY <1>1, <1>4 DEF Init, OwnEntries, Places, PlaceOf, InQueue
<1>. QED BY <1>5, <1>6, <1>7, <1>8 DEF BarrierIInv

LEMMA InvStutter == BarrierIInv /\ UNCHANGED vars => BarrierIInv'
<1>. SUFFICES ASSUME BarrierIInv, UNCHANGED vars PROVE BarrierIInv'
  OBVIOUS
<1>1. /\ state' = state /\ grant' = grant /\ cmplt' = cmplt /\ answered' = answered
      /\ wd' = wd /\ req' = req /\ sent' = sent
      /\ arb' = arb /\ queue' = queue /\ pending' = pending
  BY DEF vars, piuVars
<1>2. TypeOK'
  <2>1. \A t \in Target : Queue(t)!FifoState' = Queue(t)!FifoState
    BY DEF Queue!FifoState, Queue!Slot
  <2>. QED BY <1>1, <2>1 DEF BarrierIInv, TypeOK
<1>3. KidsInv'
  BY <1>1 DEF BarrierIInv, KidsInv
<1>4. PhaseInv'
  BY <1>1 DEF BarrierIInv, PhaseInv
<1>5. OwnEntries'
  BY <1>1 DEF BarrierIInv, OwnEntries
<1>6. Places'
  BY <1>1 DEF BarrierIInv, Places, PlaceOf, InQueue
<1>. QED BY <1>2, <1>3, <1>4, <1>5, <1>6 DEF BarrierIInv

(* For each target the barrier of a PIU is in one place, in every reachable *)
(* state (ct_piu_top.v:2161-2193, ct_ciu_bmbif_kid.v:129-166).              *)
THEOREM PlacesInvariant == Spec => []BarrierIInv
<1>1. BarrierIInv /\ [Next]_vars => BarrierIInv'
  BY InvStep, InvStutter DEF Next
<1>. QED BY <1>1, InvInit, PTL DEF Spec

(* The barrier is in exactly one place, counted as the runs count it.       *)
LEMMA PlacesAreCounted ==
  ASSUME BarrierIInv
  PROVE  InOnePlace
<1>. SUFFICES ASSUME NEW p \in PIU, NEW t \in Target
              PROVE  LET places == Cardinality(Entries(t, p)) + (IF p \in pending[t] THEN 1 ELSE 0)
                                     + (IF t \in cmplt[p] THEN 1 ELSE 0)
                     IN  IF Active(p) THEN places = IF t \in grant[p] THEN 1 ELSE 0
                         ELSE Entries(t, p) = {} /\ p \notin pending[t]
  BY DEF InOnePlace
<1>1. PlaceOf(t, p)
  BY DEF BarrierIInv, Places
<1>2. Cardinality(Entries(t, p)) = IF InQueue(t, p) THEN 1 ELSE 0
  <2>1. CASE InQueue(t, p)
    <3>1. PICK s \in queue[t].vld : queue[t].cont[s] = {p}
      BY <2>1 DEF InQueue
    <3>2. Entries(t, p) = {s}
      BY <3>1 DEF Entries, BarrierIInv, OwnEntries
    <3>. QED BY <2>1, <3>2, FS_Singleton
  <2>2. CASE ~InQueue(t, p)
    <3>1. Entries(t, p) = {}
      BY <2>2 DEF Entries, InQueue
    <3>. QED BY <2>2, <3>1, FS_EmptySet
  <2>. QED BY <2>1, <2>2
<1>3. ~InQueue(t, p) => Entries(t, p) = {}
  BY DEF Entries, InQueue
<1>4. CASE state[p] = "CMPLT"
  <2>1. grant[p] = Target
    BY <1>4 DEF BarrierIInv, PhaseInv
  <2>. QED BY <1>1, <1>2, <1>4, <2>1 DEF PlaceOf, Active
<1>5. CASE state[p] = "REQ"
  <2>1. grant[p] = {} /\ cmplt[p] = {}
    BY <1>5 DEF BarrierIInv, PhaseInv
  <2>. QED BY <1>1, <1>2, <1>5, <2>1 DEF PlaceOf, Active
<1>6. CASE state[p] \notin {"REQ", "CMPLT"}
  BY <1>1, <1>3, <1>6 DEF PlaceOf, Active
<1>. QED BY <1>4, <1>5, <1>6

(* The barrier of a PIU is in one place for each target, and a kid's queue  *)
(* that never looks at fifo_full never overflows (ct_ciu_bmbif_kid.v:147).  *)
THEOREM BarriersAreKept == Spec => []BarrierInv
<1>1. BarrierIInv => BarrierInv
  BY PlacesAreCounted, RoomForGrant DEF BarrierInv, BarrierIInv
<1>. QED BY <1>1, PlacesInvariant, PTL

(* All kids grant the same PIU in the same cycle, however many targets      *)
(* there are and however fast each takes its barriers                       *)
(* (ct_ciu_bmbif_kid.v:129-145).                                            *)
THEOREM KidsAlwaysAgree == Spec => []KidsAgree
<1>1. BarrierIInv => KidsAgree
  BY DEF BarrierIInv, KidsInv, PhaseInv, KidsAgree
<1>. QED BY <1>1, PlacesInvariant, PTL

(* A cycle in which the enable of a merging buffer, of a kid's arbiter or   *)
(* of a kid's queue is low changes none of the registers behind that gate   *)
(* (ct_piu_top.v:2003, ct_ciu_bmbif_kid.v:109, ct_fifo.v:68).               *)
THEOREM BarrierGating == Spec => []GatingTransparent
<1>1. ASSUME BarrierIInv, NEW in \in Inputs, NEW p \in PIU, ~BarCtrlClkEn(in, p)
      PROVE  /\ NextState(in, p) = state[p]
             /\ Gather(in, p, grant[p], GrantBus(p)) = grant[p]
             /\ Gather(in, p, cmplt[p], CmpltBus(in, p)) = cmplt[p]
             /\ Gather(in, p, answered[p], in.reply[p]) = answered[p]
             /\ NextWd(in, p) = wd[p]
  <2>1. state[p] = "IDLE" /\ in.half[p] = {} /\ wd[p] \in BOOLEAN
    BY <1>1 DEF BarCtrlClkEn, BarrierIInv, TypeOK
  <2>2. GrantBus(p) = {} /\ CmpltBus(in, p) = {} /\ in.reply[p] = {} /\ p \notin in.data
    BY <1>1, <2>1, OutOfReach
  <2>3. NextState(in, p) = state[p]
    BY <2>1 DEF NextState
  <2>4. NextWd(in, p) = wd[p]
    BY <2>1, <2>2 DEF NextWd
  <2>. QED BY <2>1, <2>2, <2>3, <2>4 DEF Gather
<1>2. ASSUME NEW t \in Target, ~BmbifClkEn(t)
      PROVE  Arb(t)!NextPrio(arb[t], Granted(t)) = arb[t]
  BY <1>2 DEF BmbifClkEn, Arb!NextPrio
<1>3. ASSUME BarrierIInv, NEW in \in Inputs, NEW t \in Target
      PROVE  LET asked == Requests(t) # {}
             IN  Queue(t)!GatedEdge(queue[t], asked, asked, t \in in.take, Granted(t))
                   = Queue(t)!FifoEdge(queue[t], asked, asked, t \in in.take, Granted(t))
  <2>. DEFINE f     == queue[t]
              asked == Requests(t) # {}
              taken == t \in in.take
  <2>1. CASE Queue(t)!CtrlClkEn(f, asked)
    BY <2>1 DEF Queue!GatedEdge
  <2>2. CASE ~Queue(t)!CtrlClkEn(f, asked)
    <3>1. ~asked /\ Queue(t)!Empty(f)
      BY <2>2 DEF Queue!CtrlClkEn
    <3>2. ~taken
      BY <1>3, <3>1, InputFacts DEF MayTake, Head
    <3>3. f \in [create : Queue(t)!Slot, pop : Queue(t)!Slot, vld : SUBSET Queue(t)!Slot,
                 cont : [Queue(t)!Slot -> SUBSET PIU]]
      BY <1>3 DEF BarrierIInv, TypeOK, Queue!FifoState
    <3>4. Queue(t)!FifoEdge(f, asked, asked, taken, Granted(t))
            = [create |-> f.create, pop |-> f.pop, vld |-> f.vld, cont |-> f.cont]
      BY <3>1, <3>2 DEF Queue!FifoEdge, Queue!NextVld
    <3>5. Queue(t)!GatedEdge(f, asked, asked, taken, Granted(t))
            = [f EXCEPT !.cont = Queue(t)!FifoEdge(f, asked, asked, taken, Granted(t)).cont]
      BY <2>2 DEF Queue!GatedEdge
    <3>. QED BY <3>3, <3>4, <3>5
  <2>. QED BY <2>1, <2>2
<1>4. BarrierIInv => GatingTransparent
  BY <1>1, <1>2, <1>3 DEF GatingTransparent
<1>. QED BY <1>4, PlacesInvariant, PTL

(* The type, id and domain of a barrier do not change while a target may    *)
(* still read them from the PIU (ct_ciu_bmbif_kid.v:168-177).               *)
THEOREM BusIsStable == Spec => RequestBusStable
<1>1. BarrierIInv /\ [Next]_vars
        => [\A p \in PIU : (\E t \in Target : Entries(t, p) # {}) => req'[p] = req[p]]_vars
  <2>. SUFFICES ASSUME BarrierIInv, NEW in \in Inputs, Edge(in), NEW p \in PIU,
                       NEW t \in Target, Entries(t, p) # {}
                PROVE  req'[p] = req[p]
    BY DEF Next
  <2>1. state[p] = "CMPLT"
    BY DEF Entries, InQueue, BarrierIInv, Places, PlaceOf
  <2>2. in.half[p] = {}
    BY <2>1, OutOfReach
  <2>. QED BY <2>2 DEF Edge, PiuEdge
<1>. QED BY <1>1, PlacesInvariant, PTL DEF Spec, RequestBusStable

-----------------------------------------------------------------------------
(* One edge, seen from the service of one PIU. *)
LEMMA ServiceStep ==
  ASSUME BarrierIInv, BarrierIInv', NEW in \in Inputs, Edge(in), NEW p \in PIU
  PROVE  LET finished == InService(p, cmplt[p])
             visited  == InService(p, cmplt[p] \cup {t \in Target : p \in pending[t]})
         IN  \/ Phase(p) = "idle" /\ Phase(p)' = "open" /\ visited' = {}
             \/ /\ Phase(p) = "open" /\ Phase(p)' = "open"
                /\ visited \subseteq visited'
                /\ finished' \in {finished \cup d : d \in SUBSET visited}
             \/ /\ Phase(p) = "open" /\ Phase(p)' = "answer"
                /\ Target \ finished \subseteq visited /\ finished' = Target
             \/ /\ Phase(p) = "answer" /\ Phase(p)' = "idle"
                /\ visited' = {} /\ finished' = {}
             \/ Phase(p)' = Phase(p) /\ visited' = visited /\ finished' = finished
<1>. DEFINE held == {t \in Target : p \in pending[t]}
            finished == InService(p, cmplt[p])
            visited  == InService(p, cmplt[p] \cup held)
<1>1. PICK W \in SUBSET Asking : \A t \in Target : Granted(t) = W
  BY AllGrantAlike DEF BarrierIInv
<1>2. /\ state[p] \in {"IDLE", "WAIT", "REQ", "CMPLT", "RESP"}
      /\ cmplt[p] \subseteq Target
  BY DEF BarrierIInv, TypeOK
<1>3. /\ state[p] # "CMPLT" => held = {}
      /\ state'[p] # "CMPLT" => held' = {}
  BY DEF BarrierIInv, Places, PlaceOf
<1>4. CmpltBus(in, p) \subseteq held
  BY InputFacts DEF CmpltBus
<1>5. \A t \in Target : t \in held => t \in held' \/ t \in CmpltBus(in, p)
  BY DEF Edge, TargetEdge, CmpltBus
<1>6. CASE state[p] \in {"IDLE", "WAIT"}
  <2>1. CASE state'[p] \in {"IDLE", "WAIT"}
    BY <1>6, <2>1 DEF Phase, InService, Active
  <2>2. CASE state'[p] = "REQ"
    <3>1. cmplt'[p] = {}
      BY <1>1, <1>6, <2>2, PiuStep DEF Edge
    <3>. QED BY <1>3, <1>6, <2>2, <3>1 DEF Phase, InService, Active
  <2>. QED BY <1>1, <1>6, <2>1, <2>2, PiuStep DEF Edge
<1>7. CASE state[p] = "REQ"
  <2>1. state'[p] \in {"REQ", "CMPLT"} /\ cmplt'[p] = {} /\ cmplt[p] = {}
    BY <1>1, <1>7, PiuStep DEF Edge, BarrierIInv, PhaseInv
  <2>2. Phase(p) = "open" /\ Phase(p)' = "open"
    BY <1>7, <2>1 DEF Phase, Active
  <2>3. visited = {} /\ finished = {} /\ finished' = {}
    BY <1>3, <1>7, <2>1 DEF InService
  <2>. QED BY <2>2, <2>3
<1>8. CASE state[p] = "CMPLT"
  <2>1. /\ state'[p] \in {"CMPLT", "RESP"} /\ cmplt'[p] = cmplt[p] \cup CmpltBus(in, p)
        /\ state'[p] = "RESP" => cmplt'[p] = Target
    BY <1>1, <1>8, PiuStep DEF Edge
  <2>2. /\ visited = cmplt[p] \cup held /\ finished = cmplt[p]
        /\ visited' = cmplt'[p] \cup held' /\ finished' = cmplt'[p]
    BY <1>8, <2>1 DEF InService
  <2>3. held \subseteq Target
    OBVIOUS
  <2>. HIDE DEF held, visited, finished
  <2>4. CASE state'[p] = "CMPLT"
    <3>1. Phase(p) = "open" /\ Phase(p)' = "open"
      BY <1>8, <2>4 DEF Phase, Active
    <3>2. visited \subseteq visited'
      BY <1>5, <2>1, <2>2, <2>3
    <3>3. finished' = finished \cup CmpltBus(in, p) /\ CmpltBus(in, p) \in SUBSET visited
      BY <1>4, <2>1, <2>2
    <3>. QED BY <3>1, <3>2, <3>3 DEF visited, finished, held
  <2>5. CASE state'[p] = "RESP"
    <3>1. Phase(p) = "open" /\ Phase(p)' = "answer"
      BY <1>8, <2>5 DEF Phase, Active
    <3>2. finished' = Target /\ Target \ finished \subseteq visited
      BY <1>4, <2>1, <2>2, <2>5
    <3>. QED BY <3>1, <3>2 DEF visited, finished, held
  <2>. QED BY <2>1, <2>4, <2>5
<1>9. CASE state[p] = "RESP"
  <2>1. state'[p] \in {"RESP", "IDLE"} /\ cmplt'[p] = cmplt[p]
    BY <1>1, <1>9, PiuStep DEF Edge
  <2>2. held = {} /\ held' = {}
    BY <1>3, <1>9, <2>1
  <2>3. CASE state'[p] = "RESP"
    BY <1>9, <2>1, <2>2, <2>3 DEF Phase, Active, InService
  <2>4. CASE state'[p] = "IDLE"
    BY <1>9, <2>4 DEF Phase, Active, InService
  <2>. QED BY <2>1, <2>3, <2>4
<1>. QED BY <1>2, <1>6, <1>7, <1>8, <1>9

(* The network implements the service: no PIU is answered before every      *)
(* target has received and finished this barrier, for any number of PIUs    *)
(* and targets (ct_piu_top.v:2088-2106).                                    *)
THEOREM NetworkImplementsService == Spec => ImplementsService
<1>1. Init => Service!ServiceInit
  BY DEF Init, Service!ServiceInit, Phase, Active, InService
<1>2. BarrierIInv /\ BarrierIInv' /\ [Next]_vars => [Service!ServiceNext]_(Service!serviceVars)
  <2>. SUFFICES ASSUME BarrierIInv, BarrierIInv', [Next]_vars
                PROVE  Service!ServiceNext \/ UNCHANGED Service!serviceVars
    OBVIOUS
  <2>1. CASE UNCHANGED vars
    BY <2>1 DEF vars, piuVars, Service!serviceVars, Phase, Active, InService
  <2>2. ASSUME NEW in \in Inputs, Edge(in), NEW p \in PIU
        PROVE  \/ Service!OpenBarrier(p) \/ Service!Spread(p)
               \/ Service!AnswerBarrier(p) \/ Service!CloseBarrier(p) \/ Service!Stay(p)
    <3>. DEFINE finished == InService(p, cmplt[p])
                visited  == InService(p, cmplt[p] \cup {t \in Target : p \in pending[t]})
    <3>1. \/ Phase(p) = "idle" /\ Phase(p)' = "open" /\ visited' = {}
          \/ /\ Phase(p) = "open" /\ Phase(p)' = "open"
             /\ visited \subseteq visited'
             /\ finished' \in {finished \cup d : d \in SUBSET visited}
          \/ /\ Phase(p) = "open" /\ Phase(p)' = "answer"
             /\ Target \ finished \subseteq visited /\ finished' = Target
          \/ /\ Phase(p) = "answer" /\ Phase(p)' = "idle"
             /\ visited' = {} /\ finished' = {}
          \/ Phase(p)' = Phase(p) /\ visited' = visited /\ finished' = finished
      BY <2>2, ServiceStep
    <3>2. CASE Phase(p) = "idle" /\ Phase(p)' = "open" /\ visited' = {}
      <4>1. Service!OpenBarrier(p)
        BY <3>2 DEF Service!OpenBarrier
      <4>. QED BY <4>1
    <3>3. CASE /\ Phase(p) = "open" /\ Phase(p)' = "open"
               /\ visited \subseteq visited'
               /\ finished' \in {finished \cup d : d \in SUBSET visited}
      <4>1. Service!Spread(p)
        BY <3>3 DEF Service!Spread
      <4>. QED BY <4>1
    <3>4. CASE /\ Phase(p) = "open" /\ Phase(p)' = "answer"
               /\ Target \ finished \subseteq visited /\ finished' = Target
      <4>1. Service!AnswerBarrier(p)
        BY <3>4 DEF Service!AnswerBarrier
      <4>. QED BY <4>1
    <3>5. CASE /\ Phase(p) = "answer" /\ Phase(p)' = "idle"
               /\ visited' = {} /\ finished' = {}
      <4>1. Service!CloseBarrier(p)
        BY <3>5 DEF Service!CloseBarrier
      <4>. QED BY <4>1
    <3>6. CASE Phase(p)' = Phase(p) /\ visited' = visited /\ finished' = finished
      <4>1. Service!Stay(p)
        BY <3>6 DEF Service!Stay
      <4>. QED BY <4>1
    <3>. QED BY <3>1, <3>2, <3>3, <3>4, <3>5, <3>6
  <2>3. ASSUME NEW in \in Inputs, Edge(in) PROVE Service!ServiceNext
    BY <2>2, <2>3 DEF Service!ServiceNext
  <2>. QED BY <2>1, <2>3 DEF Next
<1>. QED BY <1>1, <1>2, PlacesInvariant, PTL DEF Spec, ImplementsService, Service!ServiceSpec
=============================================================================
