-------------------------- MODULE NcqBarrierProofs --------------------------
(****************************************************************************)
(* Proofs about the barriers of the non-cacheable queue, for every number   *)
(* of PIUs and every width of the counters.                                 *)
(*                                                                          *)
(* The counters are exact because the total count bounds the others, so     *)
(* that none of them wraps.  That a barrier which is finished has waited    *)
(* for enough is TagInv: while returns come back in order, the transactions *)
(* that an open barrier still waits for stand before all the younger ones   *)
(* that its copied counter would also count, and the copy is their number.  *)
(****************************************************************************)
EXTENDS NcqBarrier, SeqLemmas

Trans == [piu : PIU, for : SUBSET PIU]

(* The transactions of the PIU, and those its open barrier waits for. *)
Of(p)     == {t \in Trans : t.piu = p}
Tagged(p) == {t \in Trans : p \in t.for}

(* The transactions whose return the counter of p's barrier counts. *)
Counted(p) == {t \in Trans : sh[p] \/ t.piu = p}

(* The barrier of p waits for the oldest of the transactions it counts. *)
Waits(c, p) ==
  /\ \A j \in Marks(issued[c], Tagged(p)) :
       \A i \in 1 .. j : issued[c][i] \in Counted(p) <=> i \in Marks(issued[c], Tagged(p))
  /\ Cardinality(Marks(issued[c], Tagged(p))) = snap[c][p]

TagInv ==
  inOrder /\ ~BarDis =>
    \A c \in Channel, p \in PIU :
      IF vld[p] THEN Waits(c, p) ELSE Marks(issued[c], Tagged(p)) = {}

NcqIInv ==
  /\ CountsInv
  /\ issued \in [Channel -> Seq(Trans)]
  /\ TagInv

-----------------------------------------------------------------------------
(* The list of the transactions. *)
Kept(u, k) == IF k = 0 THEN u ELSE Seqs!RemoveAt(u, k)
After(u, k, e) == Kept(u, k) \o (IF e = None THEN << >> ELSE <<[piu |-> e, for |-> {}]>>)

LEMMA KeptIs ==
  ASSUME NEW u \in Seq(Trans), NEW k \in 1 .. Len(u)
  PROVE  Kept(u, k) = Without(u, k)
<1>1. k # 0
  BY LenProperties
<1>2. Kept(u, k) = SubSeq(u, 1, k - 1) \o SubSeq(u, k + 1, Len(u))
  BY <1>1 DEF Kept, Seqs!RemoveAt
<1>. QED BY <1>2, RemoveIs

LEMMA KeptType ==
  ASSUME NEW u \in Seq(Trans), NEW k \in 0 .. Len(u)
  PROVE  /\ Kept(u, k) \in Seq(Trans)
         /\ Len(Kept(u, k)) = Len(u) - (IF k = 0 THEN 0 ELSE 1)
<1>1. Len(u) \in Nat /\ \A i \in 1 .. Len(u) : u[i] \in Trans
  BY LenProperties, ElementOfSeq
<1>2. CASE k = 0
  BY <1>1, <1>2 DEF Kept
<1>3. CASE k # 0
  <2>. DEFINE n == Len(u)
  <2>1. k \in 1 .. n /\ n - 1 \in Nat
    BY <1>1, <1>3
  <2>2. Kept(u, k) = [i \in 1 .. n - 1 |-> IF i < k THEN u[i] ELSE u[i + 1]]
    BY <2>1, KeptIs DEF Without
  <2>3. \A i \in 1 .. n - 1 : (IF i < k THEN u[i] ELSE u[i + 1]) \in Trans
    BY <1>1
  <2>. HIDE DEF n
  <2>4. Kept(u, k) \in [1 .. n - 1 -> Trans]
    BY <2>2, <2>3
  <2>5. Kept(u, k) \in Seq(Trans) /\ Len(Kept(u, k)) = n - 1
    BY <2>1, <2>4
  <2>. QED BY <1>3, <2>5 DEF n
<1>. QED BY <1>2, <1>3

(* The first of the list returns: the others move up. *)
LEMMA KeptFirst ==
  ASSUME NEW u \in Seq(Trans), u # << >>, NEW j \in 1 .. Len(u) - 1
  PROVE  Kept(u, 1)[j] = u[j + 1]
<1>1. Len(u) \in Nat /\ 1 \in 1 .. Len(u)
  BY LenProperties, EmptySeq
<1>2. Kept(u, 1) = [i \in 1 .. Len(u) - 1 |-> IF i < 1 THEN u[i] ELSE u[i + 1]]
  BY <1>1, KeptIs DEF Without
<1>. QED BY <1>1, <1>2

LEMMA KeptMarks ==
  ASSUME NEW u \in Seq(Trans), NEW k \in 0 .. Len(u), NEW V
  PROVE  Cardinality(Marks(Kept(u, k), V))
           = Cardinality(Marks(u, V)) - (IF k # 0 /\ u[k] \in V THEN 1 ELSE 0)
<1>1. Cardinality(Marks(u, V)) \in Nat
  BY MarksFinite, LenProperties
<1>2. CASE k = 0
  BY <1>1, <1>2 DEF Kept
<1>3. CASE k # 0
  <2>1. k \in 1 .. Len(u)
    BY <1>3, LenProperties
  <2>2. Cardinality(Marks(Kept(u, k), V)) = Cardinality(Marks(u, V)) - (IF u[k] \in V THEN 1 ELSE 0)
    BY <2>1, KeptIs, MarksRemove
  <2>. QED BY <1>3, <2>2
<1>. QED BY <1>2, <1>3

LEMMA AfterIs ==
  ASSUME NEW u \in Seq(Trans), NEW k \in 0 .. Len(u), NEW e \in PIU \cup {None}
  PROVE  After(u, k, e) = IF e = None THEN Kept(u, k) ELSE Append(Kept(u, k), [piu |-> e, for |-> {}])
<1>1. Kept(u, k) \in Seq(Trans)
  BY KeptType
<1>2. CASE e = None
  BY <1>1, <1>2, ConcatEmptySeq DEF After
<1>3. CASE e # None
  <2>1. [piu |-> e, for |-> {}] \in Trans
    BY <1>3 DEF Trans
  <2>. QED BY <1>1, <1>3, <2>1, AppendIsConcat DEF After
<1>. QED BY <1>2, <1>3

LEMMA AfterType ==
  ASSUME NEW u \in Seq(Trans), NEW k \in 0 .. Len(u), NEW e \in PIU \cup {None}
  PROVE  /\ After(u, k, e) \in Seq(Trans)
         /\ Len(After(u, k, e)) = Len(u) - (IF k = 0 THEN 0 ELSE 1) + (IF e = None THEN 0 ELSE 1)
<1>1. Kept(u, k) \in Seq(Trans) /\ Len(Kept(u, k)) = Len(u) - (IF k = 0 THEN 0 ELSE 1)
  BY KeptType
<1>2. Len(u) \in Nat
  BY LenProperties
<1>3. CASE e = None
  <2>1. After(u, k, e) = Kept(u, k)
    BY <1>3, AfterIs
  <2>. QED BY <1>1, <1>2, <1>3, <2>1
<1>4. CASE e # None
  <2>1. [piu |-> e, for |-> {}] \in Trans
    BY <1>4 DEF Trans
  <2>. DEFINE r == Append(Kept(u, k), [piu |-> e, for |-> {}])
  <2>2. After(u, k, e) = r
    BY <1>4, AfterIs
  <2>3. r \in Seq(Trans) /\ Len(r) = Len(Kept(u, k)) + 1
    BY <1>1, <2>1, AppendProperties
  <2>. HIDE DEF r
  <2>. QED BY <1>1, <1>2, <1>4, <2>2, <2>3
<1>. QED BY <1>3, <1>4

LEMMA AfterMarks ==
  ASSUME NEW u \in Seq(Trans), NEW k \in 0 .. Len(u), NEW e \in PIU \cup {None}, NEW V
  PROVE  Cardinality(Marks(After(u, k, e), V))
           = Cardinality(Marks(u, V)) - (IF k # 0 /\ u[k] \in V THEN 1 ELSE 0)
             + (IF e # None /\ [piu |-> e, for |-> {}] \in V THEN 1 ELSE 0)
<1>1. Kept(u, k) \in Seq(Trans)
  BY KeptType
<1>2. Cardinality(Marks(u, V)) \in Nat
  BY MarksFinite, LenProperties
<1>3. Cardinality(Marks(Kept(u, k), V)) = Cardinality(Marks(u, V)) - (IF k # 0 /\ u[k] \in V THEN 1 ELSE 0)
  BY KeptMarks
<1>4. CASE e = None
  <2>1. After(u, k, e) = Kept(u, k)
    BY <1>4, AfterIs
  <2>. QED BY <1>2, <1>3, <1>4, <2>1
<1>5. CASE e # None
  <2>. DEFINE x == [piu |-> e, for |-> {}]
              K == Kept(u, k)
  <2>1. x \in Trans
    BY <1>5 DEF Trans
  <2>2. After(u, k, e) = Append(K, x)
    BY <1>5, AfterIs
  <2>. HIDE DEF x, K
  <2>3. Cardinality(Marks(Append(K, x), V)) = Cardinality(Marks(K, V)) + (IF x \in V THEN 1 ELSE 0)
    BY <1>1, <2>1, MarksAppend DEF K
  <2>. QED BY <1>2, <1>3, <1>5, <2>2, <2>3 DEF x, K
<1>. QED BY <1>4, <1>5

(* What stands where in the list afterwards, when it is the first that      *)
(* returns, or none.                                                        *)
LEMMA AfterItems ==
  ASSUME NEW u \in Seq(Trans), NEW k \in {0, 1}, k = 1 => u # << >>, NEW e \in PIU \cup {None}
  PROVE  \A j \in 1 .. Len(After(u, k, e)) :
           IF j + k <= Len(u) THEN After(u, k, e)[j] = u[j + k]
                              ELSE After(u, k, e)[j].for = {}
<1>1. Len(u) \in Nat /\ k \in 0 .. Len(u)
  BY LenProperties, EmptySeq
<1>. DEFINE K == Kept(u, k)
            r == After(u, k, e)
            x == [piu |-> e, for |-> {}]
<1>2. K \in Seq(Trans) /\ Len(K) = Len(u) - k
  BY <1>1, KeptType
<1>3. \A j \in 1 .. Len(K) : K[j] = u[j + k]
  BY <1>1, <1>2, KeptFirst DEF Kept
<1>4. r = IF e = None THEN K ELSE Append(K, x)
  BY <1>1, AfterIs
<1>5. x.for = {} /\ (e # None => x \in Trans)
  BY DEF Trans
<1>. HIDE DEF K, r, x
<1>6. SUFFICES ASSUME NEW j \in 1 .. Len(r)
               PROVE  IF j + k <= Len(u) THEN r[j] = u[j + k] ELSE r[j].for = {}
  BY DEF r
<1>7. CASE e = None
  BY <1>1, <1>2, <1>3, <1>4, <1>7
<1>8. CASE e # None
  <2>1. Len(r) = Len(K) + 1 /\ r[Len(K) + 1] = x /\ \A i \in 1 .. Len(K) : r[i] = K[i]
    BY <1>2, <1>4, <1>5, <1>8, AppendProperties
  <2>. QED BY <1>1, <1>2, <1>3, <1>5, <2>1
<1>. QED BY <1>7, <1>8

-----------------------------------------------------------------------------
(* One edge of the clock, with the barrier that is taken, the PIU that      *)
(* issues and the transaction that returns on each channel.                 *)
Edge(bar, issue, ret) ==
  /\ bar \in Barriers /\ ret \in Returns /\ issue \in [Channel -> PIU \cup {None}]
  /\ BarEdge(bar) /\ CountEdge(bar, issue, ret)

LEMMA NextIsEdge ==
  ASSUME Next
  PROVE  \E bar, issue, ret : Edge(bar, issue, ret)
BY DEF Next, Step, Edge

(* The list with the barrier that is taken noted at its transactions. *)
Old(c, bar) == [j \in DOMAIN issued[c] |-> Tag(issued[c][j], bar)]

LEMMA BarFacts ==
  ASSUME NEW bar \in Barriers, bar # << >>
  PROVE  bar[1].mid \in PIU /\ bar[1].sh \in BOOLEAN /\ ~vld[bar[1].mid]
BY DEF Barriers

LEMMA TagIs ==
  ASSUME NEW bar \in Barriers, NEW t \in Trans
  PROVE  /\ Tag(t, bar) \in Trans
         /\ Tag(t, bar).piu = t.piu
         /\ Tag(t, bar).for = IF bar # << >> /\ (bar[1].sh \/ t.piu = bar[1].mid)
                              THEN t.for \cup {bar[1].mid} ELSE t.for
<1>1. CASE bar # << >> /\ (bar[1].sh \/ t.piu = bar[1].mid)
  <2>1. bar[1].mid \in PIU
    BY <1>1, BarFacts
  <2>2. Tag(t, bar) = [t EXCEPT !.for = @ \cup {bar[1].mid}]
    BY <1>1 DEF Tag
  <2>. QED BY <1>1, <2>1, <2>2 DEF Trans
<1>2. CASE ~(bar # << >> /\ (bar[1].sh \/ t.piu = bar[1].mid))
  <2>1. Tag(t, bar) = t
    BY <1>2 DEF Tag
  <2>. QED BY <1>2, <2>1
<1>. QED BY <1>1, <1>2

LEMMA OldFacts ==
  ASSUME NEW bar \in Barriers, NEW c \in Channel, issued[c] \in Seq(Trans)
  PROVE  /\ Old(c, bar) \in Seq(Trans)
         /\ Len(Old(c, bar)) = Len(issued[c])
         /\ \A j \in 1 .. Len(issued[c]) : issued[c][j] \in Trans /\ Old(c, bar)[j] = Tag(issued[c][j], bar)
<1>. DEFINE s == issued[c]
            n == Len(s)
<1>1. n \in Nat /\ DOMAIN s = 1 .. n /\ \A j \in 1 .. n : s[j] \in Trans
  BY LenProperties, ElementOfSeq
<1>2. \A j \in 1 .. n : Tag(s[j], bar) \in Trans
  BY <1>1, TagIs
<1>3. Old(c, bar) = [j \in 1 .. n |-> Tag(s[j], bar)]
  BY <1>1 DEF Old
<1>. HIDE DEF n, s
<1>4. Old(c, bar) \in [1 .. n -> Trans]
  BY <1>2, <1>3
<1>5. Old(c, bar) \in Seq(Trans) /\ Len(Old(c, bar)) = n
  BY <1>1, <1>4
<1>. QED BY <1>1, <1>3, <1>5 DEF n, s

(* What returns is one of the outstanding transactions, the first of them   *)
(* when returns are in order, and nothing is issued when a barrier is taken *)
(* or the total count is at its limit.                                      *)
LEMMA EdgeFacts ==
  ASSUME NEW bar, NEW issue, NEW ret, Edge(bar, issue, ret), NEW c \in Channel,
         issued[c] \in Seq(Trans)
  PROVE  /\ ret[c] \in 0 .. Len(issued[c])
         /\ inOrder => ret[c] \in {0, 1}
         /\ issue[c] \in PIU \cup {None}
         /\ issue[c] # None => bar = << >> /\ total[c] < Cap
<1>1. Len(issued[c]) \in Nat /\ (issued[c] # << >> => Len(issued[c]) >= 1) /\ Len(<< >>) = 0
  BY LenProperties, EmptySeq
<1>2. /\ ret[c] \in 0 .. Cap
      /\ ret[c] <= IF inOrder /\ issued[c] # << >> THEN 1 ELSE Len(issued[c])
  BY DEF Edge, Returns
<1>3. issue[c] \in PIU \cup {None} /\ (issue[c] # None => bar = << >> /\ total[c] < Cap)
  BY DEF Edge, CountEdge, MayIssue
<1>4. ret[c] \in 0 .. Len(issued[c]) /\ (inOrder => ret[c] \in {0, 1})
  BY <1>1, <1>2, CapAssumption
<1>. QED BY <1>3, <1>4

(* Whose transaction it is. *)
LEMMA GrantFacts ==
  ASSUME NEW c \in Channel, issued[c] \in Seq(Trans), NEW k \in 0 .. Len(issued[c])
  PROVE  /\ Grant(c, k) # None <=> k # 0
         /\ \A p \in PIU : Grant(c, k) = p <=> k # 0 /\ issued[c][k] \in Of(p)
<1>1. \A p \in PIU : p # None
  BY CapAssumption DEF PIU, None
<1>2. CASE k = 0
  BY <1>1, <1>2 DEF Grant
<1>3. CASE k # 0
  <2>1. k \in 1 .. Len(issued[c])
    BY <1>3, LenProperties
  <2>2. issued[c][k] \in Trans
    BY <2>1, ElementOfSeq
  <2>3. Grant(c, k) = issued[c][k].piu /\ issued[c][k].piu \in PIU
    BY <1>3, <2>2 DEF Grant, Trans
  <2>. QED BY <1>1, <1>3, <2>2, <2>3 DEF Of
<1>. QED BY <1>2, <1>3

LEMMA IssuedStep ==
  ASSUME NEW bar, NEW issue, NEW ret, Edge(bar, issue, ret), NEW c \in Channel
  PROVE  issued'[c] = After(Old(c, bar), ret[c], issue[c])
<1>1. issued'[c] = NextIssued(c, bar, issue[c], ret[c])
  BY DEF Edge, CountEdge
<1>. QED BY <1>1 DEF NextIssued, After, Kept, Old

(* A set of transactions that the note of a barrier does not change. *)
LEMMA OldMarks ==
  ASSUME NEW bar \in Barriers, NEW c \in Channel, issued[c] \in Seq(Trans), NEW V,
         \A t \in Trans : Tag(t, bar) \in V <=> t \in V
  PROVE  /\ Marks(Old(c, bar), V) = Marks(issued[c], V)
         /\ \A j \in 1 .. Len(issued[c]) : Old(c, bar)[j] \in V <=> issued[c][j] \in V
BY OldFacts DEF Marks

LEMMA OutstandingIs ==
  ASSUME NEW c \in Channel, issued[c] \in Seq(Trans), NEW p \in PIU
  PROVE  Outstanding(c, p) = Cardinality(Marks(issued[c], Of(p)))
<1>1. DOMAIN issued[c] = 1 .. Len(issued[c]) /\ \A j \in 1 .. Len(issued[c]) : issued[c][j] \in Trans
  BY LenProperties, ElementOfSeq
<1>2. {j \in DOMAIN issued[c] : issued[c][j].piu = p} = Marks(issued[c], Of(p))
  BY <1>1 DEF Marks, Of
<1>. QED BY <1>2 DEF Outstanding

-----------------------------------------------------------------------------
(* The counters. *)
LEMMA CountIs ==
  ASSUME NEW n \in 0 .. Cap, NEW up \in BOOLEAN, NEW down \in BOOLEAN,
         up /\ ~down => n < Cap, down /\ ~up => n > 0
  PROVE  Count(n, up, down) = n + (IF up THEN 1 ELSE 0) - (IF down THEN 1 ELSE 0)
<1>1. n < Cap => Inc(n) = n + 1
  BY CapAssumption DEF Inc
<1>2. n > 0 => Dec(n) = n - 1
  BY CapAssumption DEF Dec
<1>. QED BY <1>1, <1>2 DEF Count

(* What the invariant says of one channel. *)
LEMMA ChannelFacts ==
  ASSUME NcqIInv, NEW c \in Channel
  PROVE  /\ issued[c] \in Seq(Trans)
         /\ Len(issued[c]) \in 0 .. Cap
         /\ total[c] = Len(issued[c])
         /\ \A p \in PIU : /\ own[c][p] = Cardinality(Marks(issued[c], Of(p)))
                           /\ own[c][p] \in 0 .. Len(issued[c])
                           /\ snap[c][p] \in 0 .. Cap
<1>1. issued[c] \in Seq(Trans)
  BY DEF NcqIInv
<1>2. total[c] \in 0 .. Cap /\ total[c] = Len(issued[c])
  BY DEF NcqIInv, CountsInv, TypeOK, CountsExact
<1>3. ASSUME NEW p \in PIU
      PROVE  /\ own[c][p] = Cardinality(Marks(issued[c], Of(p)))
             /\ own[c][p] \in 0 .. Len(issued[c])
             /\ snap[c][p] \in 0 .. Cap
  <2>1. own[c][p] = Outstanding(c, p) /\ snap[c][p] \in 0 .. Cap
    BY DEF NcqIInv, CountsInv, TypeOK, CountsExact
  <2>2. own[c][p] = Cardinality(Marks(issued[c], Of(p)))
    BY <1>1, <2>1, OutstandingIs
  <2>. QED BY <1>1, <2>1, <2>2, MarksFinite
<1>. QED BY <1>1, <1>2, <1>3

LEMMA MarksStep ==
  ASSUME NcqIInv, NEW bar, NEW issue, NEW ret, Edge(bar, issue, ret), NEW c \in Channel,
         NEW V, \A t \in Trans : Tag(t, bar) \in V <=> t \in V
  PROVE  Cardinality(Marks(issued'[c], V))
           = Cardinality(Marks(issued[c], V)) - (IF ret[c] # 0 /\ issued[c][ret[c]] \in V THEN 1 ELSE 0)
             + (IF issue[c] # None /\ [piu |-> issue[c], for |-> {}] \in V THEN 1 ELSE 0)
<1>. DEFINE s == issued[c]
            k == ret[c]
            e == issue[c]
            u == Old(c, bar)
<1>1. s \in Seq(Trans) /\ bar \in Barriers
  BY ChannelFacts DEF Edge
<1>2. k \in 0 .. Len(s) /\ e \in PIU \cup {None}
  BY <1>1, EdgeFacts
<1>3. u \in Seq(Trans) /\ Len(u) = Len(s)
  BY <1>1, OldFacts
<1>4. Marks(u, V) = Marks(s, V) /\ \A j \in 1 .. Len(s) : u[j] \in V <=> s[j] \in V
  BY <1>1, OldMarks
<1>5. k # 0 => (u[k] \in V <=> s[k] \in V)
  BY <1>1, <1>2, <1>4, LenProperties
<1>6. issued'[c] = After(u, k, e)
  BY IssuedStep
<1>. HIDE DEF s, k, e, u
<1>7. Cardinality(Marks(After(u, k, e), V))
           = Cardinality(Marks(u, V)) - (IF k # 0 /\ u[k] \in V THEN 1 ELSE 0)
             + (IF e # None /\ [piu |-> e, for |-> {}] \in V THEN 1 ELSE 0)
  BY <1>2, <1>3, AfterMarks
<1>. QED BY <1>4, <1>5, <1>6, <1>7 DEF s, k, e, u

LEMMA ListStep ==
  ASSUME NcqIInv, NEW bar, NEW issue, NEW ret, Edge(bar, issue, ret), NEW c \in Channel
  PROVE  /\ issued'[c] \in Seq(Trans)
         /\ Len(issued'[c])
              = Len(issued[c]) - (IF ret[c] = 0 THEN 0 ELSE 1) + (IF issue[c] = None THEN 0 ELSE 1)
<1>1. issued[c] \in Seq(Trans) /\ bar \in Barriers
  BY ChannelFacts DEF Edge
<1>2. ret[c] \in 0 .. Len(issued[c]) /\ issue[c] \in PIU \cup {None}
  BY <1>1, EdgeFacts
<1>3. Old(c, bar) \in Seq(Trans) /\ Len(Old(c, bar)) = Len(issued[c])
  BY <1>1, OldFacts
<1>4. issued'[c] = After(Old(c, bar), ret[c], issue[c])
  BY IssuedStep
<1>. DEFINE u == Old(c, bar)
            r == After(u, ret[c], issue[c])
<1>. HIDE DEF u
<1>5. /\ r \in Seq(Trans)
      /\ Len(r) = Len(u) - (IF ret[c] = 0 THEN 0 ELSE 1) + (IF issue[c] = None THEN 0 ELSE 1)
  BY <1>2, <1>3, AfterType DEF u
<1>. HIDE DEF r
<1>6. issued'[c] = r /\ Len(u) = Len(issued[c])
  BY <1>3, <1>4 DEF r, u
<1>. QED BY <1>5, <1>6

(* Neither the total nor a PIU's own count wraps. *)
LEMMA TotalStep ==
  ASSUME NcqIInv, NEW bar, NEW issue, NEW ret, Edge(bar, issue, ret), NEW c \in Channel
  PROVE  /\ total'[c] = Len(issued'[c]) /\ total'[c] \in 0 .. Cap
         /\ total'[c] = total[c] - (IF ret[c] = 0 THEN 0 ELSE 1) + (IF issue[c] = None THEN 0 ELSE 1)
<1>1. /\ issued[c] \in Seq(Trans) /\ Len(issued[c]) \in 0 .. Cap /\ total[c] = Len(issued[c])
  BY ChannelFacts
<1>2. ret[c] \in 0 .. Len(issued[c]) /\ (issue[c] # None => total[c] < Cap)
  BY <1>1, EdgeFacts
<1>3. Grant(c, ret[c]) # None <=> ret[c] # 0
  BY <1>1, <1>2, GrantFacts
<1>. DEFINE up == issue[c] # None
            down == Grant(c, ret[c]) # None
<1>4. total'[c] = Count(total[c], up, down)
  BY DEF Edge, CountEdge
<1>5. /\ total[c] \in 0 .. Cap /\ up \in BOOLEAN /\ down \in BOOLEAN
      /\ up /\ ~down => total[c] < Cap
      /\ down /\ ~up => total[c] > 0
  BY <1>1, <1>2, <1>3
<1>6. total'[c] = total[c] + (IF up THEN 1 ELSE 0) - (IF down THEN 1 ELSE 0)
  <2>. HIDE DEF up, down
  <2>. QED BY <1>4, <1>5, CountIs
<1>. DEFINE d == IF ret[c] = 0 THEN 0 ELSE 1
            i == IF issue[c] = None THEN 0 ELSE 1
<1>7. (IF up THEN 1 ELSE 0) = i /\ (IF down THEN 1 ELSE 0) = d
  BY <1>3
<1>8. Len(issued'[c]) = Len(issued[c]) - d + i
  BY ListStep
<1>9. d \in {0, 1} /\ i \in {0, 1} /\ (i = 1 => total[c] < Cap) /\ (d = 1 => Len(issued[c]) > 0)
  BY <1>1, <1>2, CapAssumption
<1>. HIDE DEF d, i, up, down
<1>10. total'[c] = total[c] - d + i
  <2>1. total'[c] = total[c] + i - d
    BY <1>6, <1>7
  <2>2. total[c] \in Int
    BY <1>1, CapAssumption
  <2>. QED BY <1>9, <2>1, <2>2
<1>11. total'[c] = Len(issued'[c]) /\ total'[c] \in 0 .. Cap
  BY <1>1, <1>8, <1>9, <1>10, CapAssumption
<1>. QED BY <1>10, <1>11 DEF d, i

LEMMA OwnStep ==
  ASSUME NcqIInv, NEW bar, NEW issue, NEW ret, Edge(bar, issue, ret),
         NEW c \in Channel, NEW p \in PIU
  PROVE  /\ own'[c][p] = Cardinality(Marks(issued'[c], Of(p)))
         /\ own'[c][p] = own[c][p] - (IF Grant(c, ret[c]) = p THEN 1 ELSE 0)
                         + (IF issue[c] = p THEN 1 ELSE 0)
         /\ own'[c][p] \in 0 .. Cap
<1>1. /\ issued[c] \in Seq(Trans) /\ Len(issued[c]) \in 0 .. Cap /\ total[c] = Len(issued[c])
      /\ own[c][p] = Cardinality(Marks(issued[c], Of(p))) /\ own[c][p] \in 0 .. Len(issued[c])
  BY ChannelFacts
<1>2. ret[c] \in 0 .. Len(issued[c]) /\ issue[c] \in PIU \cup {None}
      /\ (issue[c] # None => total[c] < Cap)
  BY <1>1, EdgeFacts
<1>3. Grant(c, ret[c]) = p <=> ret[c] # 0 /\ issued[c][ret[c]] \in Of(p)
  BY <1>1, <1>2, GrantFacts
<1>4. p # None
  BY CapAssumption DEF PIU, None
<1>5. Grant(c, ret[c]) = p => own[c][p] > 0
  <2>1. SUFFICES ASSUME Grant(c, ret[c]) = p PROVE Marks(issued[c], Of(p)) # {}
    BY <1>1, MarksFinite
  <2>2. ret[c] \in 1 .. Len(issued[c])
    BY <1>1, <1>2, <1>3, <2>1
  <2>. QED BY <1>3, <2>1, <2>2 DEF Marks
<1>. DEFINE up == issue[c] = p
            down == Grant(c, ret[c]) = p
<1>6. own'[c][p] = Count(own[c][p], up, down)
  BY DEF Edge, CountEdge
<1>7. /\ own[c][p] \in 0 .. Cap /\ up \in BOOLEAN /\ down \in BOOLEAN
      /\ up /\ ~down => own[c][p] < Cap
      /\ down /\ ~up => own[c][p] > 0
  <2>1. own[c][p] \in 0 .. Cap
    BY <1>1, CapAssumption
  <2>2. up => own[c][p] < Cap
    BY <1>1, <1>2, <1>4, CapAssumption
  <2>3. down => own[c][p] > 0
    BY <1>5
  <2>4. up \in BOOLEAN /\ down \in BOOLEAN
    OBVIOUS
  <2>. HIDE DEF up, down
  <2>. QED BY <2>1, <2>2, <2>3, <2>4
<1>8. own'[c][p] = own[c][p] + (IF up THEN 1 ELSE 0) - (IF down THEN 1 ELSE 0)
  <2>. HIDE DEF up, down
  <2>. QED BY <1>6, <1>7, CountIs
<1>9. \A t \in Trans : Tag(t, bar) \in Of(p) <=> t \in Of(p)
  BY TagIs DEF Edge, Of
<1>10. issue[c] # None /\ [piu |-> issue[c], for |-> {}] \in Of(p) <=> issue[c] = p
  BY <1>2, <1>4 DEF Of, Trans
<1>11. Cardinality(Marks(issued'[c], Of(p)))
         = Cardinality(Marks(issued[c], Of(p))) - (IF ret[c] # 0 /\ issued[c][ret[c]] \in Of(p) THEN 1 ELSE 0)
           + (IF issue[c] # None /\ [piu |-> issue[c], for |-> {}] \in Of(p) THEN 1 ELSE 0)
  BY <1>9, MarksStep
<1>12. own'[c][p] = Cardinality(Marks(issued'[c], Of(p)))
  <2>. DEFINE m == Cardinality(Marks(issued[c], Of(p)))
              m2 == Cardinality(Marks(issued'[c], Of(p)))
  <2>1. m2 = m - (IF down THEN 1 ELSE 0) + (IF up THEN 1 ELSE 0)
    BY <1>3, <1>10, <1>11
  <2>2. m \in Int /\ own[c][p] = m
    BY <1>1
  <2>. HIDE DEF m, m2, up, down
  <2>3. own'[c][p] = m2
    BY <1>8, <2>1, <2>2
  <2>. QED BY <2>3 DEF m2
<1>13. own'[c][p] \in 0 .. Cap
  <2>. HIDE DEF up, down
  <2>. QED BY <1>7, <1>8, CapAssumption
<1>. QED BY <1>7, <1>8, <1>12, <1>13

(* The copies: one that is taken is the count after this edge, one that is  *)
(* open loses the returns that it counts.                                   *)
LEMMA DecIs ==
  ASSUME NEW n \in 0 .. Cap, n > 0
  PROVE  Dec(n) = n - 1
BY CapAssumption DEF Dec

LEMMA BarStep ==
  ASSUME NEW bar, NEW issue, NEW ret, Edge(bar, issue, ret), NEW p \in PIU
  PROVE  /\ vld'[p] <=> Takes(bar, p) \/ (vld[p] /\ ~Cmplt(p))
         /\ sh'[p] = IF Takes(bar, p) THEN bar[1].sh ELSE sh[p]
         /\ Takes(bar, p) => bar # << >> /\ ~vld[p] /\ sh'[p] = bar[1].sh
<1>1. /\ vld'[p] = (Takes(bar, p) \/ (vld[p] /\ ~Cmplt(p)))
      /\ sh'[p] = IF Takes(bar, p) THEN bar[1].sh ELSE sh[p]
  BY DEF Edge, BarEdge
<1>2. Takes(bar, p) => bar # << >> /\ ~vld[p]
  BY BarFacts DEF Edge, Takes
<1>. QED BY <1>1, <1>2

LEMMA CopyTaken ==
  ASSUME NcqIInv, NEW bar, NEW issue, NEW ret, Edge(bar, issue, ret),
         NEW c \in Channel, NEW p \in PIU, Takes(bar, p)
  PROVE  snap'[c][p] = IF sh'[p] THEN total'[c] ELSE own'[c][p]
<1>. DEFINE g == Grant(c, ret[c])
            T == total[c]
            O == own[c][p]
<1>1. /\ issued[c] \in Seq(Trans) /\ Len(issued[c]) \in 0 .. Cap /\ T = Len(issued[c])
      /\ O \in 0 .. Len(issued[c])
  BY ChannelFacts
<1>2. T \in 0 .. Cap /\ O \in 0 .. Cap
  BY <1>1, CapAssumption
<1>3. bar # << >> /\ sh'[p] = bar[1].sh
  BY BarStep
<1>4. ret[c] \in 0 .. Len(issued[c]) /\ issue[c] = None
  BY <1>1, <1>3, EdgeFacts
<1>5. g # None <=> ret[c] # 0
  BY <1>1, <1>4, GrantFacts
<1>6. p # None
  BY CapAssumption DEF PIU, None
<1>7. snap'[c][p] = IF sh'[p] THEN Final(T, g # None) ELSE Final(O, g = p)
  BY <1>3 DEF Edge, CountEdge, NextSnap
<1>8. Final(T, g # None) = total'[c]
  <2>. DEFINE X == total'[c]
  <2>1. X = T - (IF ret[c] = 0 THEN 0 ELSE 1) + (IF issue[c] = None THEN 0 ELSE 1) /\ X \in 0 .. Cap
    BY TotalStep
  <2>. HIDE DEF X, T, g
  <2>2. X = IF g # None THEN T - 1 ELSE T
    BY <1>2, <1>4, <1>5, <2>1, CapAssumption
  <2>3. CASE g # None
    <3>1. T > 0
      BY <1>2, <2>1, <2>2, <2>3, CapAssumption
    <3>2. Dec(T) = T - 1
      BY <1>2, <3>1, DecIs
    <3>. QED BY <2>2, <2>3, <3>2 DEF Final, X
  <2>4. CASE g = None
    BY <2>2, <2>4 DEF Final, X
  <2>. QED BY <2>3, <2>4
<1>9. Final(O, g = p) = own'[c][p]
  <2>. DEFINE X == own'[c][p]
  <2>1. X = O - (IF g = p THEN 1 ELSE 0) + (IF issue[c] = p THEN 1 ELSE 0) /\ X \in 0 .. Cap
    BY OwnStep
  <2>. HIDE DEF X, O, g
  <2>2. X = IF g = p THEN O - 1 ELSE O
    BY <1>2, <1>4, <1>6, <2>1, CapAssumption
  <2>3. CASE g = p
    <3>1. O > 0
      BY <1>2, <2>1, <2>2, <2>3, CapAssumption
    <3>2. Dec(O) = O - 1
      BY <1>2, <3>1, DecIs
    <3>. QED BY <2>2, <2>3, <3>2 DEF Final, X
  <2>4. CASE g # p
    BY <2>2, <2>4 DEF Final, X
  <2>. QED BY <2>3, <2>4
<1>. QED BY <1>7, <1>8, <1>9

LEMMA CopyKept ==
  ASSUME NcqIInv, NEW bar, NEW issue, NEW ret, Edge(bar, issue, ret),
         NEW c \in Channel, NEW p \in PIU, ~Takes(bar, p)
  PROVE  /\ snap'[c][p] = snap[c][p] - (IF SnapPop(c, p, Grant(c, ret[c])) THEN 1 ELSE 0)
         /\ snap'[c][p] \in 0 .. Cap
<1>. DEFINE n == snap[c][p]
            pop == SnapPop(c, p, Grant(c, ret[c]))
<1>1. n \in 0 .. Cap
  BY ChannelFacts
<1>2. snap'[c][p] = IF pop THEN Dec(n) ELSE n
  BY DEF Edge, CountEdge, NextSnap
<1>3. pop => n # 0
  BY DEF SnapPop
<1>. HIDE DEF n, pop
<1>4. pop => Dec(n) = n - 1
  BY <1>1, <1>3, DecIs, CapAssumption
<1>. QED BY <1>1, <1>2, <1>3, <1>4, CapAssumption DEF n, pop

LEMMA CopyNotAbove ==
  ASSUME NcqIInv, NEW bar, NEW issue, NEW ret, Edge(bar, issue, ret),
         NEW c \in Channel, NEW p \in PIU, vld'[p]
  PROVE  snap'[c][p] <= IF sh'[p] THEN total'[c] ELSE own'[c][p]
<1>1. /\ total'[c] = total[c] - (IF ret[c] = 0 THEN 0 ELSE 1) + (IF issue[c] = None THEN 0 ELSE 1)
      /\ total'[c] \in 0 .. Cap
  BY TotalStep
<1>2. /\ own'[c][p] = own[c][p] - (IF Grant(c, ret[c]) = p THEN 1 ELSE 0) + (IF issue[c] = p THEN 1 ELSE 0)
      /\ own'[c][p] \in 0 .. Cap
  BY OwnStep
<1>3. CASE Takes(bar, p)
  <2>1. snap'[c][p] = IF sh'[p] THEN total'[c] ELSE own'[c][p]
    BY <1>3, CopyTaken
  <2>. QED BY <1>1, <1>2, <2>1, CapAssumption
<1>4. CASE ~Takes(bar, p)
  <2>. DEFINE g == Grant(c, ret[c])
              n == snap[c][p]
              X == IF sh[p] THEN total[c] ELSE own[c][p]
              Y == IF sh[p] THEN total'[c] ELSE own'[c][p]
  <2>1. vld[p] /\ sh'[p] = sh[p]
    BY <1>4, BarStep
  <2>2. /\ issued[c] \in Seq(Trans) /\ Len(issued[c]) \in 0 .. Cap /\ total[c] = Len(issued[c])
        /\ own[c][p] \in 0 .. Len(issued[c]) /\ n \in 0 .. Cap
    BY ChannelFacts
  <2>3. ret[c] \in 0 .. Len(issued[c])
    BY <2>2, EdgeFacts
  <2>4. g # None <=> ret[c] # 0
    BY <2>2, <2>3, GrantFacts
  <2>5. n <= X
    BY <2>1 DEF NcqIInv, CountsInv, SnapshotNotAbove
  <2>6. snap'[c][p] = n - (IF SnapPop(c, p, g) THEN 1 ELSE 0) /\ snap'[c][p] \in 0 .. Cap
    BY <1>4, CopyKept
  <2>7. Y >= X - 1 /\ Y >= 0
    <3>1. total[c] \in Int /\ own[c][p] \in Int
      BY <2>2, CapAssumption
    <3>2. total'[c] >= total[c] - 1 /\ total'[c] >= 0 /\ (ret[c] = 0 => total'[c] >= total[c])
      BY <1>1, <3>1, CapAssumption
    <3>3. own'[c][p] >= own[c][p] - 1 /\ own'[c][p] >= 0
      BY <1>2, <3>1, CapAssumption
    <3>. QED BY <3>2, <3>3
  <2>8. SnapPop(c, p, g) \/ n = 0 \/ Y >= X
    <3>1. CASE sh[p]
      <4>1. SnapPop(c, p, g) \/ n = 0 \/ ret[c] = 0
        BY <2>4, <3>1 DEF SnapPop
      <4>2. ret[c] = 0 => Y >= X
        <5>1. total[c] \in Int
          BY <2>2, CapAssumption
        <5>2. ret[c] = 0 => total'[c] >= total[c]
          BY <1>1, <5>1, CapAssumption
        <5>. QED BY <3>1, <5>2
      <4>. QED BY <4>1, <4>2
    <3>2. CASE ~sh[p]
      <4>1. SnapPop(c, p, g) \/ n = 0 \/ g # p
        BY DEF SnapPop
      <4>2. g # p => Y >= X
        BY <1>2, <2>2, <3>2, CapAssumption
      <4>. QED BY <4>1, <4>2
    <3>. QED BY <3>1, <3>2
  <2>9. X \in Int /\ Y \in Int
    BY <1>1, <1>2, <2>2, CapAssumption
  <2>10. SnapPop(c, p, g) => n # 0
    BY DEF SnapPop
  <2>. HIDE DEF X, n, g
  <2>11. snap'[c][p] <= Y
    <3>. HIDE DEF Y
    <3>1. CASE SnapPop(c, p, g)
      BY <2>2, <2>5, <2>6, <2>7, <2>9, <3>1, CapAssumption
    <3>2. CASE ~SnapPop(c, p, g)
      BY <2>2, <2>5, <2>6, <2>7, <2>8, <2>9, <3>2, CapAssumption
    <3>. QED BY <3>1, <3>2
  <2>. QED BY <2>1, <2>11
<1>. QED BY <1>3, <1>4

-----------------------------------------------------------------------------
(* The list after an edge, when returns are in order. *)
LEMMA ItemsStep ==
  ASSUME NcqIInv, inOrder, NEW bar, NEW issue, NEW ret, Edge(bar, issue, ret), NEW c \in Channel
  PROVE  /\ ret[c] \in {0, 1} /\ ret[c] <= Len(issued[c])
         /\ Len(issued[c]) <= Len(issued'[c]) + ret[c]
         /\ \A j \in 1 .. Len(issued'[c]) :
              /\ issued'[c][j] \in Trans
              /\ IF j + ret[c] <= Len(issued[c]) THEN issued'[c][j] = Tag(issued[c][j + ret[c]], bar)
                                                 ELSE issued'[c][j].for = {}
<1>. DEFINE s == issued[c]
            t == issued'[c]
            k == ret[c]
            e == issue[c]
            u == Old(c, bar)
<1>1. s \in Seq(Trans) /\ bar \in Barriers
  BY ChannelFacts DEF Edge
<1>2. Len(s) \in Nat /\ (s = << >> => Len(s) = 0) /\ (Len(s) = 0 => s = << >>)
  BY <1>1, LenProperties, EmptySeq
<1>3. k \in 0 .. Len(s) /\ k \in {0, 1} /\ e \in PIU \cup {None}
  BY <1>1, EdgeFacts
<1>4. /\ u \in Seq(Trans) /\ Len(u) = Len(s)
      /\ \A j \in 1 .. Len(s) : u[j] = Tag(s[j], bar)
  BY <1>1, OldFacts
<1>5. t = After(u, k, e)
  BY IssuedStep
<1>6. /\ t \in Seq(Trans)
      /\ Len(t) = Len(s) - (IF k = 0 THEN 0 ELSE 1) + (IF e = None THEN 0 ELSE 1)
  BY ListStep
<1>7. \A j \in 1 .. Len(t) : t[j] \in Trans
  BY <1>6, ElementOfSeq
<1>. HIDE DEF s, t, k, e, u
<1>8. k = 1 => u # << >>
  BY <1>2, <1>3, <1>4, EmptySeq
<1>9. \A j \in 1 .. Len(t) : IF j + k <= Len(u) THEN t[j] = u[j + k] ELSE t[j].for = {}
  BY <1>3, <1>4, <1>5, <1>8, AfterItems
<1>10. \A j \in 1 .. Len(t) : IF j + k <= Len(s) THEN t[j] = Tag(s[j + k], bar) ELSE t[j].for = {}
  BY <1>2, <1>3, <1>4, <1>9
<1>11. Len(s) <= Len(t) + k /\ k <= Len(s)
  BY <1>2, <1>3, <1>6
<1>. QED BY <1>3, <1>7, <1>10, <1>11 DEF s, t, k

(* The transactions an open barrier waits for keep their note, and no other *)
(* gets it.                                                                 *)
LEMMA TaggedStays ==
  ASSUME NEW bar \in Barriers, NEW p \in PIU, ~Takes(bar, p)
  PROVE  \A t \in Trans : Tag(t, bar) \in Tagged(p) <=> t \in Tagged(p)
<1>1. SUFFICES ASSUME NEW t \in Trans PROVE Tag(t, bar) \in Tagged(p) <=> t \in Tagged(p)
  OBVIOUS
<1>2. /\ Tag(t, bar) \in Trans
      /\ Tag(t, bar).for = IF bar # << >> /\ (bar[1].sh \/ t.piu = bar[1].mid)
                           THEN t.for \cup {bar[1].mid} ELSE t.for
  BY TagIs
<1>3. bar # << >> => bar[1].mid # p
  BY DEF Takes
<1>. QED BY <1>2, <1>3 DEF Tagged

LEMMA TagMarks ==
  ASSUME NcqIInv, inOrder, NEW bar, NEW issue, NEW ret, Edge(bar, issue, ret),
         NEW c \in Channel, NEW p \in PIU, ~Takes(bar, p)
  PROVE  /\ \A j \in Marks(issued'[c], Tagged(p)) : j + ret[c] \in Marks(issued[c], Tagged(p))
         /\ \A j \in 1 .. Len(issued'[c]) :
              j + ret[c] \in Marks(issued[c], Tagged(p)) => j \in Marks(issued'[c], Tagged(p))
         /\ Cardinality(Marks(issued'[c], Tagged(p)))
              = Cardinality(Marks(issued[c], Tagged(p)))
                - (IF ret[c] # 0 /\ issued[c][ret[c]] \in Tagged(p) THEN 1 ELSE 0)
<1>. DEFINE s == issued[c]
            t == issued'[c]
            k == ret[c]
            V == Tagged(p)
<1>1. /\ k \in {0, 1}
      /\ \A j \in 1 .. Len(t) : IF j + k <= Len(s) THEN t[j] = Tag(s[j + k], bar) ELSE t[j].for = {}
  BY ItemsStep
<1>2. s \in Seq(Trans) /\ t \in Seq(Trans)
  BY ChannelFacts, ListStep
<1>3. /\ Len(s) \in Nat /\ Len(t) \in Nat
      /\ \A j \in 1 .. Len(s) : s[j] \in Trans
  BY <1>2, LenProperties, ElementOfSeq
<1>4. \A x \in Trans : Tag(x, bar) \in V <=> x \in V
  BY TaggedStays DEF Edge
<1>5. \A x : x.for = {} => x \notin V
  BY DEF Tagged
<1>6. \A j \in 1 .. Len(t) : j + k <= Len(s) => s[j + k] \in Trans
  BY <1>1, <1>3
<1>7. Cardinality(Marks(t, V))
           = Cardinality(Marks(s, V)) - (IF k # 0 /\ s[k] \in V THEN 1 ELSE 0)
             + (IF issue[c] # None /\ [piu |-> issue[c], for |-> {}] \in V THEN 1 ELSE 0)
  BY <1>4, MarksStep
<1>8. [piu |-> issue[c], for |-> {}] \notin V
  BY DEF Tagged
<1>9. Cardinality(Marks(s, V)) \in Nat
  BY <1>2, MarksFinite, LenProperties
<1>10. Cardinality(Marks(t, V)) = Cardinality(Marks(s, V)) - (IF k # 0 /\ s[k] \in V THEN 1 ELSE 0)
  BY <1>7, <1>8, <1>9
<1>. HIDE DEF s, t, k, V
<1>11. ASSUME NEW j \in Marks(t, V) PROVE j + k \in Marks(s, V)
  <2>1. j \in 1 .. Len(t) /\ t[j] \in V
    BY DEF Marks
  <2>2. j + k <= Len(s) /\ t[j] = Tag(s[j + k], bar) /\ s[j + k] \in Trans
    BY <1>1, <1>5, <1>6, <2>1
  <2>3. j + k \in 1 .. Len(s)
    BY <1>1, <1>3, <2>1, <2>2
  <2>. QED BY <1>4, <2>1, <2>2, <2>3 DEF Marks
<1>12. ASSUME NEW j \in 1 .. Len(t), j + k \in Marks(s, V) PROVE j \in Marks(t, V)
  <2>1. j + k <= Len(s) /\ s[j + k] \in V /\ s[j + k] \in Trans
    BY <1>3, <1>12 DEF Marks
  <2>2. t[j] = Tag(s[j + k], bar)
    BY <1>1, <2>1
  <2>. QED BY <1>4, <2>1, <2>2 DEF Marks
<1>. QED BY <1>10, <1>11, <1>12 DEF s, t, k, V

(* A return is counted for an open barrier exactly when the barrier waits   *)
(* for the transaction that returns.                                        *)
LEMMA PopIsTagged ==
  ASSUME NcqIInv, inOrder, NEW bar, NEW issue, NEW ret, Edge(bar, issue, ret),
         NEW c \in Channel, NEW p \in PIU, Waits(c, p)
  PROVE  SnapPop(c, p, Grant(c, ret[c])) <=> ret[c] # 0 /\ issued[c][ret[c]] \in Tagged(p)
<1>. DEFINE s == issued[c]
            k == ret[c]
            g == Grant(c, k)
            H == Marks(s, Tagged(p))
<1>1. s \in Seq(Trans) /\ Len(s) \in Nat
  BY ChannelFacts, LenProperties
<1>2. k \in {0, 1} /\ k <= Len(s)
  BY ItemsStep
<1>3. (g # None <=> k # 0) /\ (g = p <=> k # 0 /\ s[k] \in Of(p))
  BY <1>1, <1>2, GrantFacts
<1>4. CASE k = 0
  <2>1. p # None
    BY CapAssumption DEF PIU, None
  <2>. QED BY <1>3, <1>4, <2>1 DEF SnapPop
<1>5. CASE k = 1
  <2>1. 1 \in 1 .. Len(s) /\ s[1] \in Trans
    BY <1>1, <1>2, <1>5, ElementOfSeq
  <2>2. (g = p \/ (sh[p] /\ g # None)) <=> s[1] \in Counted(p)
    BY <1>3, <1>5, <2>1 DEF Counted, Of
  <2>3. 1 \in H <=> s[1] \in Tagged(p)
    BY <2>1 DEF Marks
  <2>4. snap[c][p] = Cardinality(H) /\ (H # {} => Cardinality(H) >= 1)
    BY <1>1, MarksFinite DEF Waits
  <2>5. H = {} => Cardinality(H) = 0
    BY FS_EmptySet
  <2>6. s[1] \in Tagged(p) => s[1] \in Counted(p) /\ snap[c][p] # 0
    <3>1. SUFFICES ASSUME 1 \in H PROVE s[1] \in Counted(p) /\ snap[c][p] # 0
      BY <2>3
    <3>2. s[1] \in Counted(p) <=> 1 \in H
      BY <3>1 DEF Waits
    <3>. QED BY <2>4, <3>1, <3>2
  <2>7. s[1] \in Counted(p) /\ snap[c][p] # 0 => s[1] \in Tagged(p)
    <3>1. SUFFICES ASSUME s[1] \in Counted(p), snap[c][p] # 0 PROVE 1 \in H
      BY <2>3
    <3>2. PICK j \in H : TRUE
      BY <2>4, <2>5, <3>1
    <3>3. 1 \in 1 .. j
      BY <1>1, <3>2 DEF Marks
    <3>. QED BY <3>1, <3>2, <3>3 DEF Waits
  <2>. QED BY <1>5, <2>2, <2>6, <2>7 DEF SnapPop
<1>. QED BY <1>2, <1>4, <1>5

(* An open barrier goes on waiting for the oldest of what it counts. *)
LEMMA WaitsKept ==
  ASSUME NcqIInv, inOrder, NEW bar, NEW issue, NEW ret, Edge(bar, issue, ret),
         NEW c \in Channel, NEW p \in PIU, Waits(c, p), ~Takes(bar, p)
  PROVE  Waits(c, p)'
<1>. DEFINE s == issued[c]
            t == issued'[c]
            k == ret[c]
            H == Marks(s, Tagged(p))
            G == Marks(t, Tagged(p))
<1>1. s \in Seq(Trans) /\ Len(s) \in Nat /\ (\A j \in 1 .. Len(s) : s[j] \in Trans)
  BY ChannelFacts, LenProperties, ElementOfSeq
<1>2. /\ k \in {0, 1}
      /\ \A j \in 1 .. Len(t) : /\ t[j] \in Trans
                                /\ j + k <= Len(s) => t[j] = Tag(s[j + k], bar)
  BY ItemsStep
<1>3. /\ \A j \in G : j + k \in H
      /\ \A j \in 1 .. Len(t) : j + k \in H => j \in G
  BY TagMarks
<1>4. Cardinality(G) = Cardinality(H) - (IF k # 0 /\ s[k] \in Tagged(p) THEN 1 ELSE 0)
  BY TagMarks
<1>5. snap'[c][p] = snap[c][p] - (IF SnapPop(c, p, Grant(c, k)) THEN 1 ELSE 0)
  BY CopyKept
<1>6. Cardinality(G) = snap'[c][p]
  BY <1>4, <1>5, PopIsTagged DEF Waits
<1>7. sh'[p] = sh[p]
  BY BarStep
<1>8. ASSUME NEW j \in G, NEW i \in 1 .. j
      PROVE  (t[i] \in {x \in Trans : sh'[p] \/ x.piu = p}) <=> i \in G
  <2>1. Len(t) \in Nat /\ j \in 1 .. Len(t)
    BY ListStep, LenProperties DEF Marks
  <2>2. i \in 1 .. Len(t) /\ i + k \in 1 .. j + k
    BY <1>2, <2>1
  <2>3. j + k \in H /\ j + k \in 1 .. Len(s)
    BY <1>3 DEF Marks
  <2>4. i + k \in 1 .. Len(s) /\ i + k <= Len(s)
    BY <1>1, <2>1, <2>2, <2>3
  <2>5. s[i + k] \in Counted(p) <=> i + k \in H
    BY <2>2, <2>3 DEF Waits
  <2>6. i + k \in H <=> i \in G
    BY <1>3, <2>2
  <2>7. t[i] = Tag(s[i + k], bar) /\ s[i + k] \in Trans /\ t[i] \in Trans
    BY <1>1, <1>2, <2>2, <2>4
  <2>8. t[i].piu = s[i + k].piu
    <3>. DEFINE y == s[i + k]
    <3>1. bar \in Barriers /\ y \in Trans
      BY <2>7 DEF Edge
    <3>. HIDE DEF y
    <3>2. Tag(y, bar).piu = y.piu
      BY <3>1, TagIs
    <3>. QED BY <2>7, <3>2 DEF y
  <2>. QED BY <1>7, <2>5, <2>6, <2>7, <2>8 DEF Counted
<1>. QED BY <1>6, <1>8 DEF Waits, Counted, Tagged

(* A barrier that is taken waits for all that is outstanding after the edge *)
(* of what it counts.                                                       *)
LEMMA WaitsTaken ==
  ASSUME NcqIInv, inOrder, NEW bar, NEW issue, NEW ret, Edge(bar, issue, ret),
         NEW c \in Channel, NEW p \in PIU, Marks(issued[c], Tagged(p)) = {}, Takes(bar, p)
  PROVE  Waits(c, p)'
<1>. DEFINE s == issued[c]
            t == issued'[c]
            k == ret[c]
            V == {x \in Trans : sh'[p] \/ x.piu = p}
<1>1. s \in Seq(Trans) /\ Len(s) \in Nat /\ (\A j \in 1 .. Len(s) : s[j] \in Trans)
  BY ChannelFacts, LenProperties, ElementOfSeq
<1>2. /\ k \in {0, 1}
      /\ \A j \in 1 .. Len(t) : /\ t[j] \in Trans
                                /\ j + k <= Len(s) => t[j] = Tag(s[j + k], bar)
  BY ItemsStep
<1>3. bar # << >> /\ sh'[p] = bar[1].sh /\ bar[1].mid = p /\ bar \in Barriers
  BY BarStep DEF Takes, Edge
<1>4. t \in Seq(Trans) /\ Len(t) \in Nat /\ Len(t) + k = Len(s)
  <2>1. issue[c] = None
    BY <1>1, <1>3, EdgeFacts
  <2>2. t \in Seq(Trans) /\ Len(t) = Len(s) - (IF k = 0 THEN 0 ELSE 1) + (IF issue[c] = None THEN 0 ELSE 1)
    BY ListStep
  <2>3. Len(t) \in Nat
    BY <2>2, LenProperties
  <2>4. Len(t) = Len(s) - (IF k = 0 THEN 0 ELSE 1) + 0
    BY <2>1, <2>2
  <2>5. k = 0 \/ k = 1
    BY <1>2
  <2>6. Len(s) \in Nat
    BY <1>1
  <2>. DEFINE m == Len(s)
              n == Len(t)
  <2>. HIDE DEF s, t, k, m, n
  <2>7. n \in Nat /\ m \in Nat /\ n = m - (IF k = 0 THEN 0 ELSE 1) + 0
    BY <2>3, <2>4, <2>6 DEF m, n
  <2>8. n + k = m
    BY <2>5, <2>7
  <2>. QED BY <2>2, <2>3, <2>8 DEF m, n
<1>5. ASSUME NEW j \in 1 .. Len(t) PROVE t[j] \in Tagged(p) <=> t[j] \in V
  <2>1. j + k \in 1 .. Len(s) /\ j + k <= Len(s)
    BY <1>1, <1>2, <1>4
  <2>2. s[j + k] \in Trans /\ s[j + k] \notin Tagged(p)
    BY <1>1, <2>1 DEF Marks
  <2>3. t[j] = Tag(s[j + k], bar) /\ t[j] \in Trans
    BY <1>2, <2>1
  <2>4. /\ t[j].piu = s[j + k].piu
        /\ t[j].for = IF bar[1].sh \/ s[j + k].piu = p THEN s[j + k].for \cup {p} ELSE s[j + k].for
    <3>. DEFINE y == s[j + k]
    <3>1. y \in Trans
      BY <2>2
    <3>. HIDE DEF y
    <3>2. /\ Tag(y, bar).piu = y.piu
          /\ Tag(y, bar).for = IF bar # << >> /\ (bar[1].sh \/ y.piu = bar[1].mid)
                               THEN y.for \cup {bar[1].mid} ELSE y.for
      BY <1>3, <3>1, TagIs
    <3>3. Tag(y, bar).for = IF bar[1].sh \/ y.piu = p THEN y.for \cup {p} ELSE y.for
      BY <1>3, <3>2, Zenon
    <3>. QED BY <2>3, <3>2, <3>3 DEF y
  <2>. QED BY <1>3, <2>2, <2>3, <2>4 DEF Tagged
<1>6. Marks(t, Tagged(p)) = Marks(t, V)
  BY <1>5 DEF Marks
<1>7. snap'[c][p] = IF sh'[p] THEN total'[c] ELSE own'[c][p]
  BY CopyTaken
<1>8. Cardinality(Marks(t, V)) = snap'[c][p]
  <2>1. CASE sh'[p]
    <3>1. Marks(t, V) = 1 .. Len(t)
      BY <1>2, <2>1 DEF Marks
    <3>2. Cardinality(1 .. Len(t)) = Len(t)
      BY <1>4, FS_Interval
    <3>. QED BY <1>7, <2>1, <3>1, <3>2, TotalStep
  <2>2. CASE ~sh'[p]
    <3>1. V = Of(p)
      BY <2>2 DEF Of
    <3>2. own'[c][p] = Cardinality(Marks(t, Of(p)))
      BY OwnStep
    <3>. HIDE DEF V, t
    <3>. QED BY <1>7, <2>2, <3>1, <3>2
  <2>. QED BY <2>1, <2>2
<1>9. ASSUME NEW j \in Marks(t, Tagged(p)), NEW i \in 1 .. j
      PROVE  t[i] \in V <=> i \in Marks(t, Tagged(p))
  <2>1. j \in 1 .. Len(t)
    BY DEF Marks
  <2>2. i \in 1 .. Len(t)
    BY <1>4, <2>1
  <2>3. i \in Marks(t, V) <=> t[i] \in V
    BY <2>2 DEF Marks
  <2>. QED BY <1>6, <2>3
<1>. QED BY <1>6, <1>8, <1>9 DEF Waits, Counted, Tagged

LEMMA TagStep ==
  ASSUME NcqIInv, NEW bar, NEW issue, NEW ret, Edge(bar, issue, ret)
  PROVE  TagInv'
<1>1. inOrder' = inOrder
  BY DEF Edge, CountEdge
<1>2. SUFFICES ASSUME inOrder, ~BarDis, NEW c \in Channel, NEW p \in PIU
               PROVE  IF vld'[p] THEN Waits(c, p)' ELSE Marks(issued'[c], Tagged(p)) = {}
  BY <1>1 DEF TagInv, Tagged
<1>3. \A q \in Channel : IF vld[p] THEN Waits(q, p) ELSE Marks(issued[q], Tagged(p)) = {}
  BY <1>2 DEF NcqIInv, TagInv
<1>4. CASE Takes(bar, p)
  <2>1. vld'[p] /\ ~vld[p]
    BY <1>4, BarStep
  <2>2. Marks(issued[c], Tagged(p)) = {}
    BY <1>3, <2>1
  <2>. QED BY <1>2, <1>4, <2>1, <2>2, WaitsTaken
<1>5. CASE ~Takes(bar, p) /\ vld[p] /\ ~Cmplt(p)
  <2>1. vld'[p]
    BY <1>5, BarStep
  <2>. QED BY <1>2, <1>3, <1>5, <2>1, WaitsKept
<1>6. CASE ~Takes(bar, p) /\ ~(vld[p] /\ ~Cmplt(p))
  <2>1. ~vld'[p]
    BY <1>6, BarStep
  <2>2. Marks(issued[c], Tagged(p)) = {}
    <3>1. CASE ~vld[p]
      BY <1>3, <3>1
    <3>2. CASE vld[p]
      <4>1. Waits(c, p) /\ snap[c][p] = 0
        BY <1>2, <1>3, <1>6, <3>2 DEF Cmplt
      <4>2. issued[c] \in Seq(Trans)
        BY ChannelFacts
      <4>3. Marks(issued[c], Tagged(p)) # {} => Cardinality(Marks(issued[c], Tagged(p))) >= 1
        BY <4>2, MarksFinite
      <4>. QED BY <4>1, <4>3 DEF Waits
    <3>. QED BY <3>1, <3>2
  <2>3. \A j \in Marks(issued'[c], Tagged(p)) : j + ret[c] \in Marks(issued[c], Tagged(p))
    BY <1>2, <1>6, TagMarks
  <2>. QED BY <2>1, <2>2, <2>3
<1>. QED BY <1>4, <1>5, <1>6

LEMMA CountsStep ==
  ASSUME NcqIInv, NEW bar, NEW issue, NEW ret, Edge(bar, issue, ret)
  PROVE  CountsInv' /\ issued' \in [Channel -> Seq(Trans)]
<1>1. issued' \in [Channel -> Seq(Trans)]
  <2>1. issued' = [c \in Channel |-> NextIssued(c, bar, issue[c], ret[c])]
    BY DEF Edge, CountEdge
  <2>2. \A c \in Channel : issued'[c] \in Seq(Trans)
    BY ListStep
  <2>. QED BY <2>1, <2>2
<1>2. /\ own' \in [Channel -> [PIU -> 0 .. Cap]]
      /\ total' \in [Channel -> 0 .. Cap]
      /\ snap' \in [Channel -> [PIU -> 0 .. Cap]]
  <2>1. \A c \in Channel : total'[c] \in 0 .. Cap
    BY TotalStep
  <2>2. \A c \in Channel, p \in PIU : own'[c][p] \in 0 .. Cap
    BY OwnStep
  <2>3. ASSUME NEW c \in Channel, NEW p \in PIU PROVE snap'[c][p] \in 0 .. Cap
    <3>1. CASE Takes(bar, p)
      BY <2>1, <2>2, <3>1, CopyTaken
    <3>2. CASE ~Takes(bar, p)
      BY <3>2, CopyKept
    <3>. QED BY <3>1, <3>2
  <2>4. own' \in [Channel -> [PIU -> 0 .. Cap]]
    <3>1. own' = [c \in Channel |->
                    [p \in PIU |-> Count(own[c][p], issue[c] = p, Grant(c, ret[c]) = p)]]
      BY DEF Edge, CountEdge
    <3>. QED BY <2>2, <3>1
  <2>5. total' \in [Channel -> 0 .. Cap]
    BY <2>1 DEF Edge, CountEdge
  <2>6. snap' \in [Channel -> [PIU -> 0 .. Cap]]
    <3>1. snap' = [c \in Channel |-> [p \in PIU |-> NextSnap(c, p, bar, Grant(c, ret[c]))]]
      BY DEF Edge, CountEdge
    <3>. QED BY <2>3, <3>1
  <2>. QED BY <2>4, <2>5, <2>6
<1>3. inOrder' \in BOOLEAN /\ vld' \in [PIU -> BOOLEAN] /\ sh' \in [PIU -> BOOLEAN]
  <2>1. inOrder' = inOrder /\ inOrder \in BOOLEAN /\ vld \in [PIU -> BOOLEAN] /\ sh \in [PIU -> BOOLEAN]
    BY DEF Edge, CountEdge, NcqIInv, CountsInv, TypeOK
  <2>2. vld' = [p \in PIU |-> Takes(bar, p) \/ (vld[p] /\ ~Cmplt(p))]
    BY DEF Edge, BarEdge
  <2>3. sh' = [p \in PIU |-> IF Takes(bar, p) THEN bar[1].sh ELSE sh[p]]
    BY DEF Edge, BarEdge
  <2>4. vld' \in [PIU -> BOOLEAN]
    BY <2>2
  <2>5. \A p \in PIU : Takes(bar, p) => bar[1].sh \in BOOLEAN
    BY BarFacts DEF Edge, Takes
  <2>6. sh' \in [PIU -> BOOLEAN]
    BY <2>1, <2>3, <2>5
  <2>. QED BY <2>1, <2>4, <2>6
<1>4. \A c \in Channel : \A j \in DOMAIN issued'[c] : issued'[c][j] \in Trans
  BY <1>1, LenProperties, ElementOfSeq
<1>5. TypeOK'
  BY <1>2, <1>3, <1>4 DEF TypeOK, Trans
<1>6. CountsExact'
  <2>1. \A c \in Channel : total'[c] = Len(issued'[c])
    BY TotalStep
  <2>2. ASSUME NEW c \in Channel, NEW p \in PIU PROVE own'[c][p] = Outstanding(c, p)'
    <3>1. own'[c][p] = Cardinality(Marks(issued'[c], Of(p)))
      BY OwnStep
    <3>2. DOMAIN issued'[c] = 1 .. Len(issued'[c])
          /\ \A j \in 1 .. Len(issued'[c]) : issued'[c][j] \in Trans
      BY <1>1, <1>4, LenProperties
    <3>3. {j \in DOMAIN issued'[c] : issued'[c][j].piu = p} = Marks(issued'[c], Of(p))
      BY <3>2 DEF Marks, Of
    <3>. QED BY <3>1, <3>3 DEF Outstanding
  <2>. QED BY <2>1, <2>2 DEF CountsExact
<1>7. SnapshotNotAbove'
  BY CopyNotAbove DEF SnapshotNotAbove
<1>. QED BY <1>1, <1>5, <1>6, <1>7 DEF CountsInv

LEMMA InitInv == Init => NcqIInv
<1>. SUFFICES ASSUME Init PROVE NcqIInv
  OBVIOUS
<1>. USE DEF Init
<1>1. \A c \in Channel : issued[c] = << >> /\ Len(issued[c]) = 0 /\ DOMAIN issued[c] = {}
  OBVIOUS
<1>2. issued \in [Channel -> Seq(Trans)]
  OBVIOUS
<1>3. 0 \in 0 .. Cap
  BY CapAssumption
<1>4. TypeOK
  BY <1>1, <1>3 DEF TypeOK
<1>5. CountsExact
  <2>1. \A c \in Channel, p \in PIU : Outstanding(c, p) = 0
    <3>1. \A c \in Channel, p \in PIU : {j \in DOMAIN issued[c] : issued[c][j].piu = p} = {}
      BY <1>1
    <3>. QED BY <3>1, FS_EmptySet DEF Outstanding
  <2>. QED BY <1>1, <2>1 DEF CountsExact
<1>6. SnapshotNotAbove
  BY DEF SnapshotNotAbove
<1>7. TagInv
  <2>1. \A c \in Channel, p \in PIU : Marks(issued[c], Tagged(p)) = {}
    BY <1>1 DEF Marks
  <2>. QED BY <2>1 DEF TagInv
<1>. QED BY <1>2, <1>4, <1>5, <1>6, <1>7 DEF NcqIInv, CountsInv

-----------------------------------------------------------------------------
(* The inductive invariant holds (ct_ciu_ncq.v:1580-1776). *)
THEOREM NcqInvariant == Spec => []NcqIInv
<1>1. NcqIInv /\ [Next]_vars => NcqIInv'
  <2>1. ASSUME NcqIInv, Next PROVE NcqIInv'
    <3>1. PICK bar, issue, ret : Edge(bar, issue, ret)
      BY <2>1, NextIsEdge
    <3>2. CountsInv' /\ issued' \in [Channel -> Seq(Trans)]
      BY <2>1, <3>1, CountsStep
    <3>3. TagInv'
      BY <2>1, <3>1, TagStep
    <3>. QED BY <3>2, <3>3 DEF NcqIInv, Trans
  <2>2. ASSUME NcqIInv, UNCHANGED vars PROVE NcqIInv'
    <3>1. /\ own' = own /\ total' = total /\ snap' = snap /\ vld' = vld
          /\ sh' = sh /\ issued' = issued /\ inOrder' = inOrder
      BY <2>2 DEF vars
    <3>2. CountsInv'
      BY <2>2, <3>1 DEF NcqIInv, CountsInv, TypeOK, CountsExact, SnapshotNotAbove, Outstanding
    <3>3. \A c, p : Waits(c, p)' = Waits(c, p)
      BY <3>1 DEF Waits, Counted
    <3>4. TagInv'
      BY <2>2, <3>1, <3>3 DEF NcqIInv, TagInv
    <3>. QED BY <2>2, <3>1, <3>2, <3>4 DEF NcqIInv
  <2>. QED BY <2>1, <2>2
<1>. QED BY <1>1, InitInv, PTL DEF Spec

(* The counters say how many transactions are outstanding, in total and of  *)
(* each PIU: an issue and a return of the same cycle, the limit of the      *)
(* total and the width of the counters never make them drift or wrap, and   *)
(* no barrier counts more returns than can still come                       *)
(* (ct_ciu_ncq.v:1617-1644, 1678-1755).                                     *)
THEOREM CountersAreExact == Spec => []CountsInv
<1>1. NcqIInv => CountsInv
  BY DEF NcqIInv
<1>. QED BY <1>1, NcqInvariant, PTL

(* A barrier that is reported finished has waited for every transaction it  *)
(* has to, while returns come back in the order of issue                    *)
(* (ct_ciu_ncq.v:1613-1614, 1762-1776).                                     *)
THEOREM FinishedBarrierCovers == Spec => []BarrierCovers
<1>1. NcqIInv => BarrierCovers
  <2>. SUFFICES ASSUME NcqIInv, NEW p \in PIU, Cmplt(p), ~BarDis, inOrder,
                       NEW c \in Channel, NEW j \in DOMAIN issued[c]
                PROVE  p \notin issued[c][j].for
    BY DEF BarrierCovers
  <2>1. vld[p] /\ snap[c][p] = 0
    BY DEF Cmplt
  <2>2. Cardinality(Marks(issued[c], Tagged(p))) = 0
    BY <2>1 DEF NcqIInv, TagInv, Waits
  <2>3. issued[c] \in Seq(Trans)
    BY ChannelFacts
  <2>4. j \in 1 .. Len(issued[c]) /\ issued[c][j] \in Trans
    BY <2>3, LenProperties, ElementOfSeq
  <2>5. Marks(issued[c], Tagged(p)) # {} => Cardinality(Marks(issued[c], Tagged(p))) >= 1
    BY <2>3, MarksFinite
  <2>6. j \notin Marks(issued[c], Tagged(p))
    BY <2>2, <2>5
  <2>. QED BY <2>4, <2>6 DEF Marks, Tagged
<1>. QED BY <1>1, NcqInvariant, PTL
=============================================================================
