--------------------------- MODULE CtPrioProofs ---------------------------
(****************************************************************************)
(* Proofs about the arbiter CtPrio, for every number of ports NUM.  The     *)
(* inductive invariant is TypeOK /\ RankOrder: the matrix is a strict total *)
(* order.  OneGrant follows from it because a nonempty set of ports         *)
(* has a member with the fewest ports ahead of it.  The waiting bound needs *)
(* one more conjunct, ServedIsBehind: a port served while i waits is ranked *)
(* behind i until i is served or withdraws.                                 *)
(****************************************************************************)
EXTENDS CtPrioWait, FiniteSetTheorems, WellFoundedInduction, TLAPS

USE NumAssumption

LEMMA PortFinite == IsFiniteSet(Port)
BY FS_Interval DEF Port

(* A nonempty set of naturals has a least member. *)
LEMMA LeastNat ==
  ASSUME NEW T \in SUBSET Nat, T # {}
  PROVE  \E m \in T : \A n \in T : m <= n
<1>1. PICK m \in T : \A n \in T : <<n, m>> \notin OpToRel(<, Nat)
  BY NatLessThanWellFounded, WFMin, Zenon
<1>2. \A n \in T : ~(n < m)
  BY <1>1 DEF OpToRel
<1>. QED BY <1>2

(* Serving at most one port keeps the matrix a strict total order. *)
LEMMA NextPrioOrder ==
  ASSUME NEW p \in [Port -> SUBSET Port],
         Irreflexive(p), Total(p), Transitive(p),
         NEW w \in Port
  PROVE  LET q == NextPrio(p, {w})
         IN  /\ q \in [Port -> SUBSET Port]
             /\ Irreflexive(q) /\ Total(q) /\ Transitive(q)
<1>. DEFINE q == NextPrio(p, {w})
<1>1. q = [i \in Port |-> IF i = w THEN Port \ {w} ELSE p[i] \ {w}]
  BY DEF NextPrio
<1>2. q \in [Port -> SUBSET Port]
  BY <1>1
<1>3. Irreflexive(q)
  BY <1>1 DEF Irreflexive
<1>4. Total(q)
  BY <1>1 DEF Total
<1>5. Transitive(q)
  BY <1>1 DEF Transitive
<1>. QED BY <1>2, <1>3, <1>4, <1>5

(* Under a strict total order every nonempty request set has one winner. *)
LEMMA OrderGivesWinner ==
  ASSUME NEW p \in [Port -> SUBSET Port],
         Irreflexive(p), Total(p), Transitive(p),
         NEW v \in SUBSET Port, v # {}
  PROVE  \E w \in v : Sel(v, p) = {w}
<1>. DEFINE ahead(i) == Cardinality(p[i])
            T == {ahead(i) : i \in v}
<1>1. \A i \in Port : IsFiniteSet(p[i]) /\ ahead(i) \in Nat
  BY PortFinite, FS_Subset, FS_CardinalityType
<1>2. T \in SUBSET Nat /\ T # {}
  BY <1>1
<1>3. PICK m \in T : \A n \in T : m <= n
  <2>. HIDE DEF T
  <2>. QED BY <1>2, LeastNat
<1>4. PICK w \in v : m = ahead(w)
  BY <1>3
<1>5. ASSUME NEW j \in v, j \in p[w] PROVE FALSE
  <2>1. p[j] \subseteq p[w]
    BY <1>5 DEF Transitive
  <2>2. j \notin p[j]
    BY DEF Irreflexive
  <2>3. p[j] # p[w]
    BY <1>5, <2>2
  <2>4. ahead(j) <= ahead(w) /\ ahead(j) # ahead(w)
    BY <1>1, <2>1, <2>3, FS_Subset
  <2>5. ahead(w) <= ahead(j)
    BY <1>3, <1>4
  <2>. QED BY <1>1, <2>4, <2>5
<1>6. w \in Sel(v, p)
  BY <1>5 DEF Sel
<1>7. ASSUME NEW i \in Sel(v, p) PROVE i = w
  BY <1>5 DEF Sel, Total
<1>. QED BY <1>6, <1>7

(* Two winners are impossible, so clr_bus is empty or a singleton. *)
LEMMA ClrBusOneHot ==
  ASSUME TypeOK, RankOrder, NEW clr \in BOOLEAN
  PROVE  ClrBus(clr) = {} \/ \E w \in valid : ClrBus(clr) = {w}
<1>1. CASE valid = {}
  BY <1>1 DEF ClrBus, Sel
<1>2. CASE valid # {}
  BY <1>2, OrderGivesWinner DEF ClrBus, TypeOK, RankOrder
<1>. QED BY <1>1, <1>2

-----------------------------------------------------------------------------
(* The matrix is a well-typed strict total order in every reachable state   *)
(* (the reset and update of ct_prio.v:41-50).                               *)
THEOREM MatrixIsOrder == Spec => [](TypeOK /\ RankOrder)
<1>1. Init => TypeOK /\ RankOrder
  BY DEF Init, TypeOK, RankOrder, ResetPrio, Port, Irreflexive, Total, Transitive
<1>2. TypeOK /\ RankOrder /\ [Next]_prioVars => (TypeOK /\ RankOrder)'
  <2>. SUFFICES ASSUME TypeOK, RankOrder, [Next]_prioVars
                PROVE  (TypeOK /\ RankOrder)'
    OBVIOUS
  <2>1. ASSUME NEW clr \in BOOLEAN, Clock(clr)
        PROVE  (TypeOK /\ RankOrder)'
    <3>1. CASE ClrBus(clr) = {}
      BY <2>1, <3>1 DEF Clock, NextPrio, TypeOK, RankOrder,
                        Irreflexive, Total, Transitive
    <3>2. CASE \E w \in valid : ClrBus(clr) = {w}
      <4>1. PICK w \in Port : ClrBus(clr) = {w}
        BY <3>2 DEF TypeOK
      <4>2. prio' = NextPrio(prio, {w})
        BY <2>1, <4>1 DEF Clock
      <4>3. /\ prio' \in [Port -> SUBSET Port]
            /\ Irreflexive(prio') /\ Total(prio') /\ Transitive(prio')
        BY <4>2, NextPrioOrder DEF TypeOK, RankOrder
      <4>. QED BY <2>1, <4>3 DEF Clock, TypeOK, RankOrder
    <3>. QED BY <3>1, <3>2, ClrBusOneHot
  <2>2. CASE UNCHANGED prioVars
    BY <2>2 DEF prioVars, TypeOK, RankOrder, Irreflexive, Total, Transitive
  <2>. QED BY <2>1, <2>2 DEF Next
<1>. QED BY <1>1, <1>2, PTL DEF Spec

(* In every reachable state some request means exactly one grant.           *)
THEOREM AlwaysOneGrant == Spec => []OneGrant
<1>1. TypeOK /\ RankOrder => OneGrant
  BY OrderGivesWinner DEF TypeOK, RankOrder, OneGrant
<1>. QED BY <1>1, MatrixIsOrder, PTL

(* The whole invariant of the matrix, which the runs check on few ports.    *)
THEOREM MatrixInvariant == Spec => []MatrixInv
<1>1. TypeOK /\ RankOrder /\ OneGrant => MatrixInv
  BY DEF MatrixInv
<1>. QED BY <1>1, MatrixIsOrder, AlwaysOneGrant, PTL

-----------------------------------------------------------------------------
(* The history only watches: every behaviour of WaitSpec is one of Spec.    *)
LEMMA WaitIsPrio == WaitSpec => Spec
<1>1. WaitInit => Init
  BY DEF WaitInit
<1>2. [WaitNext]_waitVars => [Next]_prioVars
  BY DEF WaitNext, WaitClock, Next, waitVars, prioVars
<1>. QED BY <1>1, <1>2, PTL DEF WaitSpec, Spec

HistoryOK == passed \in [Port -> SUBSET Port]

(* One edge keeps every port served during i's wait behind i. *)
LEMMA ServedStaysBehind ==
  ASSUME TypeOK, RankOrder, HistoryOK, ServedIsBehind, TypeOK',
         NEW clr \in BOOLEAN, WaitClock(clr)
  PROVE  HistoryOK' /\ ServedIsBehind'
<1>1. ClrBus(clr) \subseteq Port
  BY DEF ClrBus, Sel, TypeOK
<1>2. HistoryOK'
  BY <1>1 DEF WaitClock, HistoryOK
<1>3. CASE ClrBus(clr) = {}
  BY <1>2, <1>3 DEF WaitClock, Clock, NextPrio, ServedIsBehind, HistoryOK, TypeOK
<1>4. CASE \E w \in valid : ClrBus(clr) = {w}
  <2>1. PICK w \in valid : ClrBus(clr) = {w}
    BY <1>4
  <2>2. prio' = [i \in Port |-> IF i = w THEN Port \ {w} ELSE prio[i] \ {w}]
    BY <2>1 DEF WaitClock, Clock, NextPrio
  <2>3. ASSUME NEW i \in valid' PROVE passed'[i] \cap prio'[i] = {}
    <3>. i \in Port
      BY <2>3 DEF TypeOK
    <3>1. CASE i \in valid /\ i # w
      <4>1. passed'[i] = passed[i] \cup {w} /\ prio'[i] = prio[i] \ {w}
        BY <2>1, <2>2, <2>3, <3>1 DEF WaitClock
      <4>2. passed[i] \cap prio[i] = {}
        BY <3>1 DEF ServedIsBehind
      <4>. QED BY <4>1, <4>2
    <3>2. CASE ~(i \in valid /\ i # w)
      BY <2>1, <3>2 DEF WaitClock
    <3>. QED BY <3>1, <3>2
  <2>. QED BY <1>2, <2>3 DEF ServedIsBehind
<1>. QED BY <1>3, <1>4, ClrBusOneHot

(* While a request is not withdrawn each other port has at most one turn, a *)
(* consumption by clr, for every number of ports and every pattern of       *)
(* requests and clr (ct_prio.v:45-48).  Whether a turn is also served is up *)
(* to the user of the arbiter.                                              *)
THEOREM BoundedOvertaking == WaitSpec => []NoSecondPass
<1>. DEFINE IInv == TypeOK /\ RankOrder /\ HistoryOK /\ ServedIsBehind
<1>1. WaitInit => HistoryOK /\ ServedIsBehind
  BY DEF WaitInit, Init, HistoryOK, ServedIsBehind
<1>2. /\ TypeOK /\ RankOrder /\ HistoryOK /\ ServedIsBehind
      /\ TypeOK' /\ [WaitNext]_waitVars
      => HistoryOK' /\ ServedIsBehind'
  <2>1. CASE UNCHANGED waitVars
    BY <2>1 DEF waitVars, HistoryOK, ServedIsBehind
  <2>2. CASE WaitNext
    BY <2>2, ServedStaysBehind DEF WaitNext
  <2>. QED BY <2>1, <2>2
<1>3. IInv => NoSecondPass
  <2>. SUFFICES ASSUME IInv, NEW i \in valid, NEW w \in Sel(valid, prio) \ {i}
                PROVE  w \notin passed[i]
    BY DEF NoSecondPass
  <2>1. i \in Port /\ w \in Port /\ w # i /\ i \notin prio[w]
    BY DEF Sel, TypeOK
  <2>2. w \in prio[i]
    BY <2>1 DEF RankOrder, Total
  <2>. QED BY <2>2 DEF ServedIsBehind
<1>. QED BY <1>1, <1>2, <1>3, WaitIsPrio, MatrixIsOrder, PTL DEF WaitSpec

-----------------------------------------------------------------------------
(* Under an order, the numbers of ports ahead are those from 0 to NUM - 1,  *)
(* each once: a port ahead of another has fewer ports ahead of it.          *)
LEMMA AheadIsRank ==
  ASSUME NEW p \in [Port -> SUBSET Port], Irreflexive(p), Total(p), Transitive(p)
  PROVE  /\ \A i \in Port : IsFiniteSet(p[i]) /\ Cardinality(p[i]) \in 0 .. NUM - 1
         /\ \A i, j \in Port : i \in p[j] <=> Cardinality(p[i]) < Cardinality(p[j])
         /\ \A i, j \in Port : Cardinality(p[i]) = Cardinality(p[j]) => i = j
         /\ \A k \in 1 .. NUM : \E i \in Port : Cardinality(p[i]) = k - 1
<1>1. IsFiniteSet(Port) /\ Cardinality(Port) = NUM
  BY FS_Interval DEF Port
<1>2. \A i \in Port : IsFiniteSet(p[i]) /\ Cardinality(p[i]) \in 0 .. NUM - 1
  <2>. TAKE i \in Port
  <2>1. IsFiniteSet(Port \ {i}) /\ Cardinality(Port \ {i}) = NUM - 1
    BY <1>1, FS_RemoveElement
  <2>2. p[i] \in SUBSET (Port \ {i})
    BY DEF Irreflexive
  <2>. QED BY <2>1, <2>2, FS_Subset, FS_CardinalityType
<1>3. ASSUME NEW i \in Port, NEW j \in Port, i \in p[j]
      PROVE  Cardinality(p[i]) < Cardinality(p[j])
  <2>1. p[i] \in SUBSET p[j] /\ p[i] # p[j]
    BY <1>3 DEF Transitive, Irreflexive
  <2>2. Cardinality(p[i]) <= Cardinality(p[j]) /\ Cardinality(p[i]) # Cardinality(p[j])
    BY <1>2, <2>1, FS_Subset
  <2>. QED BY <1>2, <2>2
<1>4. \A i, j \in Port : i # j => i \in p[j] \/ j \in p[i]
  BY DEF Total
<1>5. \A i, j \in Port : Cardinality(p[i]) = Cardinality(p[j]) => i = j
  BY <1>2, <1>3, <1>4
<1>6. \A i, j \in Port : i \in p[j] <=> Cardinality(p[i]) < Cardinality(p[j])
  BY <1>2, <1>3, <1>4
<1>7. \A k \in 1 .. NUM : \E i \in Port : Cardinality(p[i]) = k - 1
  <2>. DEFINE f == [i \in Port |-> Cardinality(p[i]) + 1]
  <2>1. f \in Injection(Port, 1 .. NUM)
    BY <1>2, <1>5 DEF Injection, IsInjective
  <2>2. IsFiniteSet(1 .. NUM) /\ Cardinality(1 .. NUM) = NUM
    BY FS_Interval
  <2>3. \A k \in 1 .. NUM : \E i \in Port : f[i] = k
    <3>. HIDE DEF f
    <3>1. f \in Surjection(Port, 1 .. NUM)
      BY <1>1, <2>1, <2>2, FS_Injection
    <3>. QED BY <3>1 DEF Surjection
  <2>4. ASSUME NEW k \in 1 .. NUM PROVE \E i \in Port : Cardinality(p[i]) = k - 1
    <3>1. PICK i \in Port : Cardinality(p[i]) + 1 = k
      BY <2>3
    <3>. QED BY <1>2, <3>1
  <2>. QED BY <2>4
<1>. QED BY <1>2, <1>5, <1>6, <1>7

(* Which port stands where in the matrix read as a queue. *)
LEMMA OrderPosition ==
  ASSUME NEW p \in [Port -> SUBSET Port], Irreflexive(p), Total(p), Transitive(p)
  PROVE  /\ OrderOf(p) \in [1 .. NUM -> Port] /\ Len(OrderOf(p)) = NUM
         /\ \A k \in 1 .. NUM : \A i \in Port : OrderOf(p)[k] = i <=> Cardinality(p[i]) = k - 1
<1>1. \A k \in 1 .. NUM : OrderOf(p)[k] \in Port /\ Cardinality(p[OrderOf(p)[k]]) = k - 1
  BY AheadIsRank DEF OrderOf
<1>2. OrderOf(p) \in [1 .. NUM -> Port] /\ Len(OrderOf(p)) = NUM
  BY <1>1 DEF OrderOf
<1>3. \A k \in 1 .. NUM : \A i \in Port : OrderOf(p)[k] = i <=> Cardinality(p[i]) = k - 1
  BY <1>1, AheadIsRank
<1>. QED BY <1>2, <1>3

(* How many ports are ahead of each when w was put behind all others.       *)
LEMMA AheadAfter ==
  ASSUME NEW p \in [Port -> SUBSET Port], Irreflexive(p), Total(p), Transitive(p),
         NEW w \in Port, NEW i \in Port
  PROVE  Cardinality(NextPrio(p, {w})[i])
           = IF i = w THEN NUM - 1
             ELSE IF w \in p[i] THEN Cardinality(p[i]) - 1 ELSE Cardinality(p[i])
<1>1. NextPrio(p, {w})[i] = IF i = w THEN Port \ {w} ELSE p[i] \ {w}
  BY DEF NextPrio
<1>2. IsFiniteSet(p[i])
  BY AheadIsRank
<1>3. IsFiniteSet(Port) /\ Cardinality(Port) = NUM
  BY FS_Interval DEF Port
<1>4. Cardinality(Port \ {w}) = NUM - 1
  BY <1>3, FS_RemoveElement
<1>5. Cardinality(p[i] \ {w}) = IF w \in p[i] THEN Cardinality(p[i]) - 1 ELSE Cardinality(p[i])
  BY <1>2, FS_RemoveElement
<1>. QED BY <1>1, <1>4, <1>5

(* Putting w behind all others moves it from its place in the queue to the  *)
(* end, and those that were behind it one place forward.                    *)
LEMMA MovesToEnd ==
  ASSUME NEW p \in [Port -> SUBSET Port], Irreflexive(p), Total(p), Transitive(p),
         NEW w \in Port, NEW k \in 1 .. NUM, OrderOf(p)[k] = w
  PROVE  OrderOf(NextPrio(p, {w}))
           = [j \in 1 .. NUM |-> IF j < k THEN OrderOf(p)[j]
                                 ELSE IF j < NUM THEN OrderOf(p)[j + 1] ELSE w]
<1>. DEFINE q == NextPrio(p, {w})
            a == [i \in Port |-> Cardinality(p[i])]
            b == [i \in Port |-> Cardinality(q[i])]
            old == OrderOf(p)
            new == OrderOf(q)
<1>1. q \in [Port -> SUBSET Port] /\ Irreflexive(q) /\ Total(q) /\ Transitive(q)
  BY NextPrioOrder
<1>2. /\ \A i \in Port : a[i] \in 0 .. NUM - 1
      /\ \A i, j \in Port : a[i] = a[j] => i = j
  BY AheadIsRank
<1>3. \A i \in Port : i # w => (w \in p[i] <=> a[w] < a[i])
  BY AheadIsRank
<1>4. old \in [1 .. NUM -> Port] /\ \A n \in 1 .. NUM : \A i \in Port : old[n] = i <=> a[i] = n - 1
  BY OrderPosition
<1>5. new \in [1 .. NUM -> Port] /\ \A n \in 1 .. NUM : \A i \in Port : new[n] = i <=> b[i] = n - 1
  <2>. HIDE DEF q
  <2>. QED BY <1>1, OrderPosition
<1>6. \A i \in Port : b[i] = IF i = w THEN NUM - 1 ELSE IF w \in p[i] THEN a[i] - 1 ELSE a[i]
  BY AheadAfter
<1>7. old[k] = w
  OBVIOUS
<1>. HIDE DEF q, a, b, old, new
<1>8. a[w] = k - 1
  BY <1>4, <1>7
<1>9. \A i \in Port : b[i] = IF i = w THEN NUM - 1 ELSE IF k - 1 < a[i] THEN a[i] - 1 ELSE a[i]
  BY <1>3, <1>6, <1>8
<1>10. ASSUME NEW j \in 1 .. NUM
       PROVE  new[j] = IF j < k THEN old[j] ELSE IF j < NUM THEN old[j + 1] ELSE w
  <2>1. CASE j < k
    <3>1. old[j] \in Port /\ a[old[j]] = j - 1
      BY <1>4
    <3>2. b[old[j]] = j - 1
      BY <1>8, <1>9, <2>1, <3>1
    <3>. QED BY <1>5, <2>1, <3>1, <3>2
  <2>2. CASE k <= j /\ j < NUM
    <3>1. j + 1 \in 1 .. NUM
      BY <2>2
    <3>2. old[j + 1] \in Port /\ a[old[j + 1]] = j
      BY <1>4, <3>1
    <3>3. b[old[j + 1]] = j - 1
      BY <1>8, <1>9, <2>2, <3>2
    <3>. QED BY <1>5, <2>2, <3>2, <3>3
  <2>3. CASE j = NUM
    <3>1. b[w] = j - 1
      BY <1>9, <2>3
    <3>. QED BY <1>5, <2>3, <3>1
  <2>. QED BY <2>1, <2>2, <2>3
<1>11. new = [j \in 1 .. NUM |-> IF j < k THEN old[j] ELSE IF j < NUM THEN old[j + 1] ELSE w]
  BY <1>5, <1>10
<1>. QED BY <1>11 DEF q, old, new

(* The winner is the first request of the queue.                            *)
LEMMA WinnerIsFirst ==
  ASSUME NEW p \in [Port -> SUBSET Port], Irreflexive(p), Total(p), Transitive(p),
         NEW v \in SUBSET Port, NEW w \in Sel(v, p)
  PROVE  \E k \in 1 .. NUM : /\ OrderOf(p)[k] = w
                             /\ \A j \in 1 .. k - 1 : OrderOf(p)[j] \notin v
<1>. DEFINE a == [i \in Port |-> Cardinality(p[i])]
            old == OrderOf(p)
<1>1. w \in Port /\ w \in v /\ v \cap p[w] = {}
  BY DEF Sel
<1>2. /\ \A i \in Port : a[i] \in 0 .. NUM - 1
      /\ \A i \in Port : i \in p[w] <=> a[i] < a[w]
  BY <1>1, AheadIsRank
<1>3. old \in [1 .. NUM -> Port] /\ \A n \in 1 .. NUM : \A i \in Port : old[n] = i <=> a[i] = n - 1
  BY OrderPosition
<1>. HIDE DEF a
<1>4. PICK k \in 1 .. NUM : k = a[w] + 1
  BY <1>1, <1>2
<1>. HIDE DEF old
<1>5. old[k] = w
  BY <1>1, <1>2, <1>3, <1>4
<1>6. ASSUME NEW j \in 1 .. k - 1 PROVE old[j] \notin v
  <2>1. old[j] \in Port /\ a[old[j]] = j - 1
    BY <1>3
  <2>2. old[j] \in p[w]
    BY <1>1, <1>2, <1>4, <2>1
  <2>. QED BY <1>1, <2>2
<1>. QED BY <1>5, <1>6 DEF old

(* The matrix implements the queue of ports, least recently served first,   *)
(* for any number of ports (the row and column update of ct_prio.v:45-48).  *)
THEOREM MatrixIsLru == Spec => ImplementsLru
<1>1. Init => Lru!LruInit
  <2>. SUFFICES ASSUME Init PROVE Lru!LruInit
    OBVIOUS
  <2>1. /\ prio \in [Port -> SUBSET Port] /\ Irreflexive(prio) /\ Total(prio) /\ Transitive(prio)
        /\ valid \in SUBSET Port
    BY DEF Init, ResetPrio, Port, Irreflexive, Total, Transitive
  <2>2. \A i \in Port : Cardinality(prio[i]) \in 0 .. NUM - 1
    BY <2>1, AheadIsRank
  <2>. DEFINE order == OrderOf(prio)
  <2>3. /\ order \in [1 .. NUM -> Port] /\ Len(order) = NUM
        /\ \A k \in 1 .. NUM : \A i \in Port : order[k] = i <=> Cardinality(prio[i]) = k - 1
    BY <2>1, OrderPosition
  <2>. HIDE DEF order
  <2>4. \A i \in Port : \E k \in 1 .. NUM : order[k] = i
    <3>. TAKE i \in Port
    <3>1. PICK k \in 1 .. NUM : Cardinality(prio[i]) = k - 1
      <4>1. Cardinality(prio[i]) + 1 \in 1 .. NUM
        BY <2>2
      <4>2. Cardinality(prio[i]) = (Cardinality(prio[i]) + 1) - 1
        BY <2>2
      <4>. QED BY <4>1, <4>2
    <3>. QED BY <2>3, <3>1
  <2>5. \A j, k \in 1 .. NUM : order[j] = order[k] => j = k
    BY <2>3
  <2>. QED BY <2>1, <2>3, <2>4, <2>5 DEF Lru!LruInit, order
<1>2. TypeOK /\ RankOrder /\ [Next]_prioVars => [Lru!Serve \/ Lru!Hold]_<<OrderOf(prio), valid>>
  <2>. SUFFICES ASSUME TypeOK, RankOrder, [Next]_prioVars
                PROVE  Lru!Serve \/ Lru!Hold \/ UNCHANGED <<OrderOf(prio), valid>>
    OBVIOUS
  <2>1. CASE UNCHANGED prioVars
    BY <2>1 DEF prioVars
  <2>2. ASSUME NEW clr \in BOOLEAN, Clock(clr) PROVE Lru!Serve \/ Lru!Hold
    <3>1. valid' \in SUBSET Port /\ prio' = NextPrio(prio, ClrBus(clr))
      BY <2>2 DEF Clock
    <3>2. CASE ClrBus(clr) = {}
      BY <3>1, <3>2 DEF NextPrio, Lru!Hold
    <3>3. CASE \E w \in valid : ClrBus(clr) = {w}
      <4>1. PICK w \in valid : ClrBus(clr) = {w}
        BY <3>3
      <4>2. w \in Port /\ w \in Sel(valid, prio)
        BY <4>1 DEF ClrBus, TypeOK
      <4>3. PICK k \in 1 .. NUM : /\ OrderOf(prio)[k] = w
                                 /\ \A j \in 1 .. k - 1 : OrderOf(prio)[j] \notin valid
        BY <4>2, WinnerIsFirst DEF TypeOK, RankOrder
      <4>4. Len(OrderOf(prio)) = NUM
        BY OrderPosition DEF TypeOK, RankOrder
      <4>5. Lru!IsFirst(k)
        BY <4>2, <4>3 DEF Lru!IsFirst, Sel
      <4>6. OrderOf(prio)' = Lru!ToEnd(k)
        <5>1. OrderOf(NextPrio(prio, {w}))
                = [j \in 1 .. NUM |-> IF j < k THEN OrderOf(prio)[j]
                                      ELSE IF j < NUM THEN OrderOf(prio)[j + 1] ELSE w]
          BY <4>2, <4>3, MovesToEnd DEF TypeOK, RankOrder
        <5>. QED BY <3>1, <4>1, <4>3, <4>4, <5>1 DEF Lru!ToEnd
      <4>. QED BY <3>1, <4>4, <4>5, <4>6 DEF Lru!Serve
    <3>. QED BY <3>2, <3>3, ClrBusOneHot
  <2>. QED BY <2>1, <2>2 DEF Next
<1>. QED BY <1>1, <1>2, MatrixIsOrder, PTL DEF Spec, ImplementsLru, Lru!LruSpec, Lru!lruVars
=============================================================================
