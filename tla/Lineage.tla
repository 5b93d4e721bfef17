------------------------------ MODULE Lineage ------------------------------
(***************************************************************************)
(* The lineage a supersession record claims for a cited file, against git  *)
(* (athanor/verify_public_receipts.py, _verify_hops).  past is the content *)
(* that the commits gave the file, the first commit first; a commit is     *)
(* known by its number, and its parent is the one before.                  *)
(***************************************************************************)
EXTENDS Integers, Sequences

CONSTANT Hash      \* sha256 of a content

Absent == "absent"
Mutable == 0       \* HEAD: a ref that names another commit tomorrow

ASSUME HashAssumption == Absent \notin Hash

Named(past, ref) == IF ref = Mutable THEN Len(past) ELSE ref

(* _blob_sha256: no such commit, or no such file in it. *)
BlobAt(past, c) == IF c \in DOMAIN past THEN past[c] ELSE Absent

(* Where hop k must begin: the cited hash, or where the hop before ended. *)
Before(hops, cited, k) == IF k = 1 THEN cited ELSE hops[k - 1].result

(* Mutant: a hop is only asked where it ends. *)
HopHoldsEnd(past, hops, cited, k) ==
  LET hop == hops[k] IN
  /\ hop.commit # Mutable /\ ~hop.misquoted /\ hop.result \in Hash
  /\ hop.result # Before(hops, cited, k)
  /\ BlobAt(past, hop.commit) = hop.result

(* Mutant: a record may only hold one hop. *)
HopHoldsAlone(past, hops, cited, k) ==
  LET hop == hops[k] IN
  /\ hop.commit # Mutable /\ ~hop.misquoted /\ hop.result \in Hash
  /\ hop.result # cited
  /\ BlobAt(past, hop.commit) = hop.result
  /\ BlobAt(past, hop.commit - 1) = cited

(* Mutant: any ref will do. *)
HopHoldsMutable(past, hops, cited, k) ==
  LET hop == hops[k]  c == Named(past, hop.commit) IN
  /\ ~hop.misquoted /\ hop.result \in Hash
  /\ hop.result # Before(hops, cited, k)
  /\ BlobAt(past, c) = hop.result
  /\ BlobAt(past, c - 1) = Before(hops, cited, k)

(* One hop: an immutable commit, under its own subject, that turned what    *)
(* was there before into the recorded content; a deletion is no hop.        *)
HopHolds(past, hops, cited, k) ==
  LET hop == hops[k]  c == Named(past, hop.commit) IN
  /\ hop.commit # Mutable /\ ~hop.misquoted /\ hop.result \in Hash
  /\ hop.result # Before(hops, cited, k)
  /\ BlobAt(past, c) = hop.result
  /\ BlobAt(past, c - 1) = Before(hops, cited, k)

(* _verify_hops finds nothing. *)
ChainHolds(past, record, cited, current) ==
  LET hops == record.hops IN
  /\ hops # << >> /\ hops[Len(hops)].result = current
  /\ \A k \in DOMAIN hops : HopHolds(past, hops, cited, k)
  /\ hops[1].commit \in record.superseded_by

-----------------------------------------------------------------------------
(* What the lineage is, for the properties: the commits after commit i that *)
(* changed the file, in order.                                              *)
ChangesUpto(past, i) ==
  LET changes[n \in i .. Len(past)] ==
        IF n = i THEN << >>
        ELSE IF past[n] = past[n - 1] THEN changes[n - 1] ELSE Append(changes[n - 1], n)
  IN  changes

ChangesAfter(past, i) == ChangesUpto(past, i)[Len(past)]

HonestRecord(past, i) ==
  LET changes == ChangesAfter(past, i) IN
  [prior |-> past[i], current |-> past[Len(past)],
   superseded_by |-> {changes[1]},
   hops |-> [k \in DOMAIN changes |->
               [commit |-> changes[k], misquoted |-> FALSE, result |-> past[changes[k]]]]]

(* No content came back after it was replaced. *)
NeverReturns(past) ==
  \A i, j \in DOMAIN past : i < j /\ past[i] = past[j] => \A k \in i .. j : past[k] = past[i]
=============================================================================
