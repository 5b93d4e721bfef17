---------------------------- MODULE MCTreeChecks ----------------------------
(***************************************************************************)
(* The two checks that read trees of the repository, the hash closure of a  *)
(* scrub and the scratch-path convention.  They share no state: each is run *)
(* with the other at rest.                                                  *)
(***************************************************************************)
EXTENDS ScrubClosure, ScratchPaths

VARIABLE checked      \* which of the two is run

NoTree    == [p \in TreePath |-> NoFile]
NoText    == [f \in Artifact |-> Missing]
NothingIn == [text |-> NoText, there |-> TRUE, baseline |-> {}]

ScrubRests   == text = << >> /\ base = NoTree /\ head = NoTree
ScratchRests == headTree = NothingIn /\ workTree = NothingIn /\ lastGreen = {} /\ emitted = FALSE

Init == \/ checked = "scrub" /\ ScrubInit /\ ScratchRests
        \/ checked = "scratch" /\ ScratchInit /\ ScrubRests
Next == \/ checked = "scrub" /\ ScrubNext /\ UNCHANGED <<checked, scratchVars>>
        \/ checked = "scratch" /\ ScratchNext /\ UNCHANGED <<checked, scrubVars>>
=============================================================================
