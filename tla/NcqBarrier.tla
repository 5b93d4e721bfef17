----------------------------- MODULE NcqBarrier -----------------------------
(***************************************************************************)
(* How the non-cacheable queue finishes barriers (ct_ciu_ncq.v, section     *)
(* BAR).  It counts the reads and writes that are outstanding, for each PIU *)
(* and in total.  When it takes a barrier it copies the counts into         *)
(* counters of that barrier, which every return decrements; the barrier is  *)
(* finished when they are zero.                                             *)
(*                                                                         *)
(* One step is one clock edge.  issued is the list of the transactions that *)
(* are outstanding, oldest first, and for each the PIUs whose open barrier  *)
(* was taken after it: the code keeps only the counts.  inOrder says how    *)
(* the apb bridge and the ebiu answer; it is chosen once and never changes. *)
(***************************************************************************)
EXTENDS Integers, FiniteSets, Sequences

Seqs == INSTANCE SequencesExt

CONSTANTS
  NPIU,       \* number of PIUs
  Cap,        \* the largest value of a counter (31: they have five bits)
  BarDis      \* ciu_chr2_bar_dis

ASSUME CapAssumption == NPIU \in Nat \ {0} /\ Cap \in Nat \ {0}

PIU     == 0 .. NPIU - 1
Channel == {"ar", "aw"}
None    == -1

VARIABLES
  own,        \* ncq_{ar,aw}_ostd_cnt_piu*
  total,      \* ncq_total_{ar,aw}_ostd_cnt
  snap,       \* ncq_bar_{ar,aw}_ostd_cnt_piu*
  vld,        \* ncq_bar_vld
  sh,         \* ncq_bar_sh: the barrier waits for the transactions of all PIUs
  issued,
  inOrder     \* whether the returns of a channel come back in issue order

vars == <<own, total, snap, vld, sh, issued, inOrder>>

-----------------------------------------------------------------------------
(* Counters of a fixed width. *)
Inc(n) == (n + 1) % (Cap + 1)
Dec(n) == (n - 1) % (Cap + 1)

(* Mutant: the total count is not looked at. *)
MayIssueNoLimit(c, bar) == bar = << >>

(* raq_create_en and waq_create_en: no transaction enters in the cycle in   *)
(* which a barrier is taken, or when the total count is at its limit.       *)
MayIssue(c, bar) == bar = << >> /\ total[c] < Cap

(* piu_r_grant and piu_b_grant: the PIU whose transaction returns. *)
Grant(c, k) == IF k = 0 THEN None ELSE issued[c][k].piu

(* Mutant: a return hides an issue of the same cycle. *)
CountReturnFirst(n, up, down) == IF down THEN n - 1 ELSE IF up THEN n + 1 ELSE n

(* A counter that goes up with an issue and down with a return. *)
Count(n, up, down) == IF up /\ ~down THEN Inc(n) ELSE IF ~up /\ down THEN Dec(n) ELSE n

(* Mutant: the return of this cycle stays in the copied count. *)
FinalLate(n, down) == n

(* The counts without what returns in this cycle: the _final wires of the code. *)
Final(n, down) == IF down THEN Dec(n) ELSE n

(* Mutant: a barrier is finished when its reads are. *)
CmpltReads(p) == vld[p] /\ (BarDis \/ snap["ar"][p] = 0)

(* ncq_piu_bar_cmplt *)
Cmplt(p) == vld[p] /\ (BarDis \/ \A c \in Channel : snap[c][p] = 0)

(* Mutant: only returns of the PIU itself count. *)
SnapPopOwn(c, p, g) == g = p /\ snap[c][p] # 0

(* ncq_bar_piu*_cnt_pop_en: a return of the PIU, or any if shareable. *)
SnapPop(c, p, g) == (g = p \/ (sh[p] /\ g # None)) /\ snap[c][p] # 0

(* bar is the barrier that is taken in this cycle, if any. *)
Takes(bar, p) == bar # << >> /\ bar[1].mid = p

(* The snapshot counters; a new barrier of the PIU overwrites them. *)
NextSnap(c, p, bar, g) ==
  IF Takes(bar, p)
  THEN IF bar[1].sh THEN Final(total[c], g # None) ELSE Final(own[c][p], g = p)
  ELSE IF SnapPop(c, p, g) THEN Dec(snap[c][p]) ELSE snap[c][p]

(* The transactions after the edge: a barrier is noted at those it waits for.*)
Tag(t, bar) == IF bar # << >> /\ (bar[1].sh \/ t.piu = bar[1].mid)
               THEN [t EXCEPT !.for = @ \cup {bar[1].mid}] ELSE t
NextIssued(c, bar, issue, k) ==
  LET old == [j \in DOMAIN issued[c] |-> Tag(issued[c][j], bar)]
  IN  (IF k = 0 THEN old ELSE Seqs!RemoveAt(old, k))
        \o (IF issue = None THEN << >> ELSE <<[piu |-> issue, for |-> {}]>>)

(* A barrier that is taken opens, one that is finished closes. *)
BarEdge(bar) ==
  /\ vld' = [p \in PIU |-> Takes(bar, p) \/ (vld[p] /\ ~Cmplt(p))]
  /\ sh'  = [p \in PIU |-> IF Takes(bar, p) THEN bar[1].sh ELSE sh[p]]

(* The counters, for the PIU that issues and the transaction that returns   *)
(* on each channel.                                                         *)
CountEdge(bar, issue, ret) ==
  LET g == [c \in Channel |-> Grant(c, ret[c])] IN
  /\ \A c \in Channel : issue[c] # None => MayIssue(c, bar)
  /\ total' = [c \in Channel |-> Count(total[c], issue[c] # None, g[c] # None)]
  /\ own'   = [c \in Channel |-> [p \in PIU |-> Count(own[c][p], issue[c] = p, g[c] = p)]]
  /\ snap'  = [c \in Channel |-> [p \in PIU |-> NextSnap(c, p, bar, g[c])]]
  /\ issued' = [c \in Channel |-> NextIssued(c, bar, issue[c], ret[c])]
  /\ UNCHANGED inOrder

Init == /\ own = [c \in Channel |-> [p \in PIU |-> 0]]
        /\ total = [c \in Channel |-> 0]
        /\ snap = [c \in Channel |-> [p \in PIU |-> 0]]
        /\ vld = [p \in PIU |-> FALSE]
        /\ sh = [p \in PIU |-> FALSE]
        /\ issued = [c \in Channel |-> << >>]
        /\ inOrder \in BOOLEAN

Outstanding(c, p) == Cardinality({j \in DOMAIN issued[c] : issued[c][j].piu = p})

(* What the surroundings do in a cycle: they offer a barrier of a PIU whose *)
(* last one is finished, issue, and take returns.                           *)
Barriers == {<< >>} \cup {<<[mid |-> p, sh |-> s]>> : p \in {q \in PIU : ~vld[q]}, s \in BOOLEAN}
Returns  == {r \in [Channel -> 0 .. Cap] :
               \A c \in Channel : r[c] <= IF inOrder /\ issued[c] # << >> THEN 1 ELSE Len(issued[c])}

Step(Wish(_)) ==
  \E bar \in Barriers :
    /\ BarEdge(bar)
    /\ \E ret \in Returns :
         /\ Wish(ret)
         /\ \E issue \in [Channel -> PIU \cup {None}] : CountEdge(bar, issue, ret)

Next == Step(LAMBDA ret : TRUE)

Spec == Init /\ [][Next]_vars

(* The clock runs, and every PIU that has outstanding transactions on a     *)
(* channel gets a return now and then: the apb bridge and the ebiu answer.  *)
Fairness ==
  /\ WF_vars(Next)
  /\ \A c \in Channel, p \in PIU :
       WF_vars(Outstanding(c, p) > 0 /\ Step(LAMBDA ret : Grant(c, ret[c]) = p))

FairSpec == Spec /\ Fairness

-----------------------------------------------------------------------------
(* Type invariant. *)
TypeOK == /\ own \in [Channel -> [PIU -> 0 .. Cap]]
          /\ total \in [Channel -> 0 .. Cap]
          /\ snap \in [Channel -> [PIU -> 0 .. Cap]]
          /\ inOrder \in BOOLEAN
          /\ vld \in [PIU -> BOOLEAN] /\ sh \in [PIU -> BOOLEAN]
          /\ \A c \in Channel : \A j \in DOMAIN issued[c] :
               issued[c][j] \in [piu : PIU, for : SUBSET PIU]

(* The counters are what they say: an issue and a return of the same cycle, *)
(* the limit of the total count and the five bits never make them drift or  *)
(* wrap (ct_ciu_ncq.v:1678-1755).                                           *)
CountsExact == \A c \in Channel : /\ total[c] = Len(issued[c])
                                  /\ \A p \in PIU : own[c][p] = Outstanding(c, p)

(* An open barrier never counts more returns than can still come, even when *)
(* a return fell into the cycle that took it: otherwise it would wait for   *)
(* transactions that do not exist (ct_ciu_ncq.v:1617-1644).                 *)
SnapshotNotAbove ==
  \A c \in Channel, p \in PIU :
    vld[p] => snap[c][p] <= IF sh[p] THEN total[c] ELSE own[c][p]

(* The counters and the copies that the barriers took of them.              *)
CountsInv == TypeOK /\ CountsExact /\ SnapshotNotAbove

(* When a barrier is reported finished, every transaction it has to wait    *)
(* for has returned: those of its PIU, or of all PIUs if it is shareable,   *)
(* that were outstanding when it was taken.  The code counts returns and    *)
(* does not look at which transaction returns, so this needs returns that   *)
(* come back in issue order (ct_ciu_ncq.v:1613-1614, 1762-1776).            *)
BarrierCovers ==
  \A p \in PIU : Cmplt(p) /\ ~BarDis /\ inOrder =>
    \A c \in Channel : \A j \in DOMAIN issued[c] : p \notin issued[c][j].for

(* Every barrier the queue has taken is reported finished, also when other  *)
(* transactions are issued all the time (ct_ciu_ncq.v:1613-1646).           *)
BarrierFinishes == \A p \in PIU : vld[p] ~> ~vld[p]
=============================================================================
