---------------------------- MODULE ScratchPaths ----------------------------
(***************************************************************************)
(* The scratch-path convention (athanor/check_scratch_path_convention.py):  *)
(* no published artifact names a working directory after a person, except   *)
(* where a baseline says so.  A finding is a file, a line and a name; the   *)
(* baseline holds digests of findings and may only shrink.                  *)
(*                                                                         *)
(* A file is the sequence of its lines, a line a name or harmless.  The     *)
(* check takes the paths from the committed tree and the bytes and the      *)
(* baseline from the working tree.                                          *)
(***************************************************************************)
EXTENDS Integers, Sequences, FiniteSets

CONSTANTS
  Artifact,       \* files under athanor_artifacts/
  DirName,        \* names that working directories are called by
  Handle,         \* those of the denylist
  MaxLines        \* bound on the lines of a file

ASSUME ScratchAssumption == MaxLines \in Nat /\ Handle \subseteq DirName

Harmless == "clean"
Text     == UNION {[1 .. n -> DirName \cup {Harmless}] : n \in 0 .. MaxLines}
Finding  == Artifact \X (1 .. MaxLines) \X Handle
Missing  == << >>      \* a file that is not there has no lines

VARIABLES
  headTree,   \* the committed tree: what its files say, whether the baseline
  workTree,   \*   is there, and its entries; the working tree alike
  lastGreen,  \* the findings of the last commit that was green
  emitted     \* whether the baseline was derived afresh since

scratchVars == <<headTree, workTree, lastGreen, emitted>>

-----------------------------------------------------------------------------
(* The findings in what the files of a tree say. *)
FindingsIn(text) ==
  {x \in Finding : x[2] \in DOMAIN text[x[1]] /\ text[x[1]][x[2]] = x[3]}

(* findings: files committed to the tree, their bytes from the working tree.*)
ScratchFindings(committed, worktree) ==
  {x \in FindingsIn(worktree.text) : committed.text[x[1]] # Missing}

(* finding_key: a digest of the whole finding, which binds all of it. *)
Key(x) == x

Keys(S) == {Key(x) : x \in S}

(* Mutant: an entry that matches nothing is left alone. *)
OrphansNone(known, found) == {}

(* Entries of the baseline that match nothing. *)
Orphans(known, found) == Keys(known) \ Keys(found)

Unbaselined(known, found) == {x \in found : Key(x) \notin Keys(known)}

(* _baseline: an absent default baseline is an empty one. *)
Known(tree) == IF tree.there THEN tree.baseline ELSE {}

(* main: 1 for an orphan or a finding that is not known, else 0. *)
ScratchExit(committed, worktree) ==
  LET found == ScratchFindings(committed, worktree)
      known == Known(worktree)
  IN  IF Orphans(known, found) # {} \/ Unbaselined(known, found) # {} THEN 1 ELSE 0

Green(tree) == ScratchExit(tree, tree) = 0

-----------------------------------------------------------------------------
(* The convention lands with a baseline of what was there. *)
ScratchInit ==
  \E text \in [Artifact -> Text] :
    /\ headTree = [text |-> text, there |-> TRUE, baseline |-> FindingsIn(text)]
    /\ workTree = headTree /\ lastGreen = FindingsIn(text) /\ emitted = FALSE

ChangeWork(tree) == workTree' = tree /\ UNCHANGED <<headTree, lastGreen>>

(* A producer writes a file anew, in whatever way, or removes it. *)
WriteFile == /\ \E f \in Artifact, t \in Text : ChangeWork([workTree EXCEPT !.text[f] = t])
             /\ UNCHANGED emitted

(* Entries leave the baseline as the paths are normalised, and the file is  *)
(* deleted when it is empty.                                                *)
DropFinding == /\ \E x \in workTree.baseline : ChangeWork([workTree EXCEPT !.baseline = @ \ {x}])
               /\ UNCHANGED emitted
DropBaseline == /\ workTree.there /\ workTree.baseline = {}
                /\ ChangeWork([workTree EXCEPT !.there = FALSE])
                /\ UNCHANGED emitted

(* --emit-baseline *)
EmitBaseline == /\ ChangeWork([workTree EXCEPT !.there = TRUE, !.baseline = ScratchFindings(headTree, workTree)])
                /\ emitted' = TRUE

(* A commit is merged if the check is green on a fresh checkout of it. *)
CommitGreen == /\ workTree # headTree /\ Green(workTree)
               /\ headTree' = workTree /\ lastGreen' = FindingsIn(workTree.text) /\ emitted' = FALSE
               /\ UNCHANGED workTree

ScratchNext == WriteFile \/ DropFinding \/ DropBaseline \/ EmitBaseline \/ CommitGreen

ScratchSpec == ScratchInit /\ [][ScratchNext]_scratchVars

-----------------------------------------------------------------------------
(* The class does not regrow: as long as nobody derives the baseline anew,  *)
(* every commit that the check lets through has only findings that the one  *)
(* before had.  That takes both rules of the baseline: an entry stands for  *)
(* one whole finding, and one that matches nothing must go                  *)
(* (check_scratch_path_convention.py:15-38, 258-280).                       *)
FindingsShrink == [][CommitGreen /\ ~emitted => lastGreen' \subseteq lastGreen]_scratchVars
=============================================================================
