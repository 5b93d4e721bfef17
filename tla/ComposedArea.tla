---------------------------- MODULE ComposedArea ----------------------------
(***************************************************************************)
(* The area of a composed design from the log of yosys stat                 *)
(* (athanor/full_top_ppa_harness.py): the log is read line by line into a   *)
(* table of modules, and the area of the top is added up over the table.    *)
(*                                                                         *)
(* The log is that of a design: modules with a local area and submodules,   *)
(* each with a count.  Wrapper stands for modules without a section.        *)
(***************************************************************************)
EXTENDS Integers, SequencesExt

CONSTANTS
  N,          \* number of modules; a module instantiates later ones
  MaxCount,   \* bound on the instances of a submodule
  AreaOf      \* local area of a module

ASSUME AreaAssumption == N \in Nat \ {0} /\ MaxCount \in Nat /\ AreaOf \in [1 .. N -> Nat]

Mod     == 1 .. N
Wrapper == N + 1
NoMod   == 0

VARIABLES
  count,      \* the design: count[m][s] instances of s in m
  log,        \* the lines that are still to be read
  table,      \* modules: those of the log so far, with area and submodules
  current, inSubs

areaVars == <<count, log, table, current, inSubs>>

-----------------------------------------------------------------------------
(* What yosys prints for a module: heading, cells, submodules, area. *)
Line(k, m, n) == [kind |-> k, mod |-> m, n |-> n]
Subs(m) == {s \in m + 1 .. Wrapper : count[m][s] > 0}
Section(m) ==
  LET subs == SetToSeq(Subs(m)) IN
  <<Line("heading", m, 0), Line("other", NoMod, 0)>>
    \o (IF subs = << >> THEN << >> ELSE <<Line("submodules", NoMod, 0)>>)
    \o [j \in DOMAIN subs |-> Line("sub", subs[j], count[m][subs[j]])]
    \o <<Line("blank", NoMod, 0), Line("area", m, AreaOf[m])>>
(* The last section, of the hierarchy, has no line that is read. *)
Hierarchy == <<Line("heading", NoMod, 0), Line("sub", 1, 1), Line("other", NoMod, 0)>>
LogOf(order) == FlattenSeq([j \in 1 .. N |-> Section(order[j])]) \o Hierarchy

Empty == [area |-> 0, subs |-> << >>]

AreaInit ==
  /\ \E n \in [{p \in Mod \X (Mod \cup {Wrapper}) : p[1] < p[2]} -> 0 .. MaxCount] :
       count = [m \in Mod |-> [s \in Mod \cup {Wrapper} |-> IF m < s THEN n[<<m, s>>] ELSE 0]]
  /\ \E order \in {o \in [1 .. N -> Mod] : \A i, j \in 1 .. N : i # j => o[i] # o[j]} :
       log = LogOf(order)
  /\ table = << >> /\ current = NoMod /\ inSubs = FALSE

Heading(l) ==
  /\ l.kind = "heading"
  /\ current' = l.mod /\ inSubs' = FALSE
  /\ table' = [m \in DOMAIN table \cup {l.mod} |-> IF m = l.mod THEN Empty ELSE table[m]]

AreaLine(l) ==
  /\ l.kind = "area"
  /\ table' = [table EXCEPT ![IF l.mod \in DOMAIN table THEN l.mod ELSE current].area = l.n]
  /\ inSubs' = FALSE /\ UNCHANGED current

SubsLine(l) == l.kind = "submodules" /\ inSubs' = TRUE /\ UNCHANGED <<table, current>>

SubLine(l) == /\ l.kind = "sub" /\ inSubs
              /\ table' = [table EXCEPT ![current].subs = Append(@, <<l.n, l.mod>>)]
              /\ UNCHANGED <<current, inSubs>>

(* Any other line: one that is not blank ends the list of submodules. *)
OtherLine(l) == /\ l.kind \in {"other", "blank"} \/ (l.kind = "sub" /\ ~inSubs)
                /\ inSubs' = (inSubs /\ l.kind = "blank")
                /\ UNCHANGED <<table, current>>

(* parse_yosys_stat_modules, one line of the log. *)
ReadLine == LET l == Head(log) IN
        /\ log # << >> /\ log' = Tail(log) /\ UNCHANGED count
        /\ Heading(l) \/ AreaLine(l) \/ SubsLine(l) \/ SubLine(l) \/ OtherLine(l)

AreaNext == ReadLine

AreaSpec == AreaInit /\ [][AreaNext]_areaVars

-----------------------------------------------------------------------------
(* Mutant: a submodule counts once. *)
TotalOnce(top) ==
  LET total[m \in DOMAIN table] ==
        table[m].area + SumFunction([j \in DOMAIN table[m].subs |->
          IF table[m].subs[j][2] \in DOMAIN table THEN total[table[m].subs[j][2]] ELSE 0])
  IN  total[top]

(* composed_area_from_yosys_stat: a module without a section has no area.   *)
(* Each module is added up once: seen is the function total.                *)
Total(top) ==
  LET total[m \in DOMAIN table] ==
        table[m].area + SumFunction([j \in DOMAIN table[m].subs |->
          IF table[m].subs[j][2] \in DOMAIN table
          THEN table[m].subs[j][1] * total[table[m].subs[j][2]] ELSE 0])
  IN  total[top]

-----------------------------------------------------------------------------
(* The flattened design, from the top down: every instance of p brings      *)
(* count[p][m] instances of m.                                              *)
Instances(top) ==
  LET n[m \in top .. N] ==
        IF m = top THEN 1 ELSE SumFunction([p \in top .. m - 1 |-> n[p] * count[p][m]])
  IN  n
Flat(top) == SumFunction([m \in top .. N |-> Instances(top)[m] * AreaOf[m]])

(* When the log is read, the area of every module is that of its flattened  *)
(* design, whatever the order of the sections and however often a module is *)
(* shared (full_top_ppa_harness.py:299-358).                                *)
AreaIsFlat == log = << >> => \A top \in Mod : Total(top) = Flat(top)
=============================================================================
