----------------------------- MODULE ExportGate -----------------------------
(***************************************************************************)
(* The export-safety gate (athanor/export_safety_gate.py), the generator   *)
(* of its list of names (gen_fleet_handle_denylist.py), and those who edit *)
(* what it reads: the roster of another repository, the files, the list.   *)
(* The gate scans a commit; the verifier of receipts, which it calls, reads *)
(* the working tree.                                                        *)
(*                                                                         *)
(* A file is its set of tokens.  "ours" is under a prefix of ours, "Ours"  *)
(* too but in other letters, "infra" is one of the files exempt from the   *)
(* scan for names, "upstream" is not ours.                                 *)
(***************************************************************************)
EXTENDS PublicReceipts

CONSTANTS
  Person,         \* the names a roster may have
  Generic,        \* GENERIC_ROLE_TERMS
  Alt,            \* KNOWN_ALT_HANDLES
  MinHandles,     \* MIN_HANDLES
  HandleTier,     \* HANDLE_FINDING_TIER
  MaxGateEdits    \* bound on the edits of what the gate reads

ASSUME TierAssumption == HandleTier \in {"warn", "block"}

Doc   == {"ours", "Ours", "infra", "upstream"}
Token == {"secret", "host", "ticket"} \cup Person

VARIABLES
  roster,     \* the rosters of the source repository, one for each commit
  work,       \* the working tree: its files and the denylist
  tree        \* the committed tree

gateVars == <<file, sums, pinned, claim, mapped, receipt, cite, record, history, git, baseline,
              accepted, half, edits, roster, work, tree>>

-----------------------------------------------------------------------------
(* derive_handles: the roster and the known other names, no role terms. *)
DeriveHandles(names) == (names \cup Alt) \ Generic

(* build: the list, the stamp over it, the commit it was read at.  An entry *)
(* is canonical, has capitals or has spaces around it.                      *)
Entry(h) == [name |-> h, form |-> "plain"]

Build(c) ==
  LET handles == {Entry(h) : h \in DeriveHandles(roster[c])}
  IN  [parses |-> TRUE, handles |-> handles, stamp |-> handles, commit |-> c]

(* Mutant: the stamp is not compared. *)
LoadsUnstamped(list) ==
  /\ list.parses
  /\ \A e \in list.handles : e.form # "padded"
  /\ Cardinality({e.name : e \in list.handles}) >= MinHandles

(* _load_agent_handles: it raises unless the list is well formed, canonical, *)
(* as it was stamped, and long enough once letters are folded.               *)
Loads(list) ==
  /\ list.parses
  /\ \A e \in list.handles : e.form # "padded"
  /\ list.stamp = list.handles
  /\ Cardinality({e.name : e \in list.handles}) >= MinHandles

(* Mutant: the list is read in the working tree. *)
DenylistWork == work.list

(* The list is read at the ref that is scanned. *)
Denylist == tree.list

-----------------------------------------------------------------------------
(* path_key: the prefix is compared with the letters folded. *)
InScope(d) == d # "upstream"

(* Mutant: only files of ours are searched. *)
BlockTokensOurs(d) == IF InScope(d) THEN {"secret", "host"} ELSE {}

(* BLOCK_ALWAYS in every file, BLOCK_SCOPED in ours. *)
BlockTokens(d) == IF InScope(d) THEN {"secret", "host"} ELSE {"secret"}

HandleTokens(d) ==
  IF InScope(d) /\ d # "infra" THEN {e.name : e \in Denylist.handles} ELSE {}

(* _scan_committed: [tier, path, token] for the committed files that have   *)
(* no NUL byte.                                                             *)
Found(tier, tokens) ==
  UNION {{<<tier, d, x>> : x \in tree.doc[d].tokens \cap tokens[d]} :
           d \in {f \in Doc : ~tree.doc[f].nul}}

Names   == [d \in Doc |-> HandleTokens(d)]
Tickets == [d \in Doc |-> {"ticket"}]

Block == Found("block", [d \in Doc |-> BlockTokens(d)])
           \cup (IF HandleTier = "block" THEN Found("block", Names) ELSE {})
Warn  == Found("warn", Tickets) \cup (IF HandleTier = "warn" THEN Found("warn", Names) ELSE {})

(* _run_receipt_verifier: whatever its exit code says, other than 0, blocks; *)
(* a verdict and a verifier that could not run look the same.               *)
RunReceiptVerifier == ExitCode # 0

(* main: 2 if the gate cannot run; what is only a warning does not block.   *)
GateExit ==
  IF ~Loads(Denylist) THEN 2 ELSE IF Block # {} \/ RunReceiptVerifier THEN 1 ELSE 0

(* main --scan-text, scan_text: the body or a comment of a pull request. *)
TextExit(tokens) == IF "secret" \in tokens THEN 1 ELSE 0

-----------------------------------------------------------------------------
Clean == [tokens |-> {}, nul |-> FALSE]

GateInit ==
  /\ half \in Halves /\ Start
  /\ roster = << Person \ Alt >>
  /\ work = [doc |-> [d \in Doc |-> Clean], list |-> Build(1)]
  /\ tree = work

Gate == /\ half = "gate" /\ edits < MaxGateEdits /\ edits' = edits + 1
        /\ UNCHANGED <<file, sums, claim, mapped, receipt, cite, record, history, git, baseline,
                       accepted, half>>

(* Somebody joins or leaves. *)
Roster(names) ==
  /\ Gate /\ names # Last(roster) /\ roster' = Append(roster, names)
  /\ UNCHANGED <<work, tree, pinned>>

(* The generator is run, at whatever commit its clone resolves the ref to. *)
Generate(c) ==
  /\ Gate /\ work' = [work EXCEPT !.list = Build(c)]
  /\ UNCHANGED <<roster, tree, pinned>>

(* The list is edited by hand or in a merge, and not stamped again. *)
HandEdit(handles, parses) ==
  /\ Gate /\ work' = [work EXCEPT !.list.handles = handles, !.list.parses = parses]
  /\ UNCHANGED <<roster, tree, pinned>>

Write(d, content) ==
  /\ Gate /\ work' = [work EXCEPT !.doc[d] = content]
  /\ UNCHANGED <<roster, tree, pinned>>

(* A file of the package is edited and its line in the manifest is not. *)
Spoil == Gate /\ pinned' = ~pinned /\ UNCHANGED <<roster, work, tree>>

CommitTree == Gate /\ tree' = work /\ UNCHANGED <<roster, work, pinned>>

GateNext ==
  \/ Next /\ UNCHANGED <<roster, work, tree>>
  \/ \E names \in SUBSET (Person \ Alt) : Roster(names)
  \/ \E c \in DOMAIN roster : Generate(c)
  \/ \E e \in work.list.handles, f \in {"plain", "cased", "padded"} :
       HandEdit((work.list.handles \ {e}) \cup {[e EXCEPT !.form = f]}, TRUE)
  \/ \E e \in work.list.handles, parses \in BOOLEAN : HandEdit(work.list.handles \ {e}, parses)
  \/ \E d \in Doc, x \in Token, nul \in BOOLEAN : Write(d, [tokens |-> {x}, nul |-> nul])
  \/ Spoil
  \/ CommitTree

GateSpec == GateInit /\ [][GateNext]_gateVars

-----------------------------------------------------------------------------
(* From the roster to the report: who was in it at the commit the list was  *)
(* made from, and is named in a committed text of ours, is reported, or the *)
(* gate gives no verdict; whoever edited the list by hand in between.        *)
NamedAreReported ==
  GateExit # 2 =>
    \A d \in {"ours", "Ours"}, n \in DeriveHandles(roster[tree.list.commit]) :
      n \in tree.doc[d].tokens /\ ~tree.doc[d].nul =>
        \E tier \in {"block", "warn"} : <<tier, d, n>> \in Block \cup Warn

(* "The text surface and the committed-tree surface can never drift": what  *)
(* is blocked in the text of a pull request is blocked in any file, ours or  *)
(* not, that the pull request commits.                                       *)
TextAndTreeAgree ==
  \A d \in Doc : TextExit(tree.doc[d].tokens) = 1 /\ ~tree.doc[d].nul => GateExit # 0

(* What a commit or a text holds is reported, in whichever of its files.    *)
GateInv == NamedAreReported /\ TextAndTreeAgree
=============================================================================
