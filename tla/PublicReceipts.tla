--------------------------- MODULE PublicReceipts ---------------------------
(***************************************************************************)
(* The verifier of published receipts (athanor/verify_public_receipts.py)  *)
(* and the authors of one package.  The package holds the candidate `gate`, *)
(* the `netlist` it was mapped to, the regressed design `control` of the    *)
(* negative controls, and `log`, the pinned tool output; replaying it writes *)
(* `gen`, which is never committed.  `twin` is a file of the repository     *)
(* with the name of the candidate.  A content is its hash, and the area a   *)
(* log reports is known by the log.                                         *)
(*                                                                         *)
(* An author works either on what the package claims (half = "package") or  *)
(* on a citation, of the candidate or of the generated log, and the history  *)
(* of the candidate ("citations"): verify concatenates the findings of the  *)
(* two and nothing relates them.  Anybody may replay the package.           *)
(***************************************************************************)
EXTENDS Lineage, FiniteSets, SequencesExt

CONSTANTS
  AsPublished,  \* the contents the package is published with
  Generated,    \* the contents that a replay gives its log
  CitedAs,      \* the citations that authors write: [name, shape, sha]
  Halves,       \* the authors who are at work
  MaxEdits,     \* bound on the edits of a package
  MaxCommits,   \* bound on the commits
  None          \* no citation, no record

Shipped == {"gate", "netlist", "control", "log"}
Path    == Shipped \cup {"gen", "twin"}
Name    == {"gate", "twin"}     \* the files a citation of the candidate may mean

ASSUME BoundsAssumption == MaxEdits \in Nat /\ MaxCommits \in Nat \ {0}
ASSUME PublishedAssumption ==
  /\ AsPublished \in [Shipped -> Hash] /\ Generated \subseteq Hash
  /\ CitedAs \subseteq [name : {"gate", "gen"}, shape : {"role", "object", "bare"}, sha : Hash]
  /\ Halves \subseteq {"package", "citations", "gate"}

(* Where receipts state the candidate, by the hash of its source and by     *)
(* that of its netlist; and where they hold another hash: the authority     *)
(* block, the negative controls, an area and a digest in prose.             *)
Axis   == {"area", "timing", "power"}
Design == Axis \cup {"candidate", "binding"}
Site   == Design \cup {"authority", "negative", "printed", "prose"}

VARIABLES
  file,         \* the working tree: the content of a path
  sums,         \* SHA256SUMS: the hash of a path, Absent if not listed
  pinned,       \* whether its lines for receipt and replay.sh match
  claim,        \* the hashes in receipt.json and the binding receipt
  mapped,       \* and their mapped_netlist_sha256, for the sites of Design
  receipt,      \* what else receipt.json says
  cite,         \* its citation of `gate` or `gen`: [name, shape, sha], or None
  record,       \* the supersession record beside the citation, or None
  history,      \* what the commits gave the two files named as the candidate
  git,          \* whether the verifier can read the history
  baseline,     \* the list of known stale citations, and whether it parses
  accepted,     \* the findings at the last commit that was green
  half, edits

vars == <<file, sums, pinned, claim, mapped, receipt, cite, record, history, git, baseline,
          accepted, half, edits>>

Present(p) == file[p] # Absent
Listed     == {p \in Path : sums[p] # Absent}
Bound      == {sums[p] : p \in Listed}              \* set(_sums_entries().values())

-----------------------------------------------------------------------------
(* The manifest.  _verify_sums: a line that matches no file is a finding.   *)
VerifySums == pinned /\ \A p \in Listed : file[p] = sums[p]

(* Mutant: only the lines are followed, not the files. *)
ManifestCompleteNot == TRUE

(* _verify_manifest_complete: what a replay generated need not be listed.   *)
ManifestComplete == \A p \in Shipped : Present(p) => p \in Listed

(* _sums_path_escapes: a line may not lead out of the package. *)
SumsPathEscapes == "twin" \in Listed

(* Mutant: every file that is there is scanned. *)
PublicExportCleanAll == ~receipt.leaks /\ ~Present("gen")

(* _verify_public_export_clean: no path of the caller in the files that are *)
(* bound; the logs of a replay hold such paths.                             *)
PublicExportClean == ~receipt.leaks /\ ~("gen" \in Listed /\ Present("gen"))

(* _verify_receipt_bound_to_logs: an area is read in a log that is bound.   *)
ReceiptBoundToLogs ==
  \E p \in {"log", "gen"} \cap Listed : Present(p) /\ file[p] = claim["printed"]

(* _find_abbreviated, with a label that is not of a commit: some listed or  *)
(* present file has a hash that begins so.                                  *)
Abbreviated == claim["prose"] \in Bound \cup {file[p] : p \in Shipped \cup {"gen"}}

-----------------------------------------------------------------------------
(* Customer-ready receipts.  _verify_customer_ready_authority: one block,   *)
(* whose gate is bound by the manifest and is the candidate.                *)
CustomerReadyAuthority ==
  /\ Cardinality(receipt.blocks) = 1
  /\ claim["authority"] \in Bound
  /\ claim["authority"] = claim["candidate"]

(* Mutant: the axes are not compared. *)
SameCandidateNoAxes ==
  /\ claim["binding"] = claim["candidate"] /\ mapped["binding"] = mapped["candidate"]
  /\ mapped["binding"] \in Bound
  /\ claim["negative"] # claim["binding"]
  /\ claim["negative"] \in Bound

(* Mutant: the netlist is not looked for. *)
SameCandidateUnbound ==
  /\ claim["binding"] = claim["candidate"] /\ mapped["binding"] = mapped["candidate"]
  /\ \A x \in Axis : claim[x] = claim["binding"] /\ mapped[x] = mapped["binding"]
  /\ claim["negative"] # claim["binding"]
  /\ claim["negative"] \in Bound

(* _verify_same_candidate_metric_binding: the receipt, the binding receipt  *)
(* and every axis state one source and one netlist; the netlist is bound,   *)
(* and so is the source of the negative controls, which is another.         *)
SameCandidateMetricBinding ==
  /\ claim["binding"] = claim["candidate"] /\ mapped["binding"] = mapped["candidate"]
  /\ mapped["binding"] \in Bound
  /\ \A x \in Axis : claim[x] = claim["binding"] /\ mapped[x] = mapped["binding"]
  /\ claim["negative"] # claim["binding"]
  /\ claim["negative"] \in Bound

(* _verify_customer_ready_receipt: the status must be of a known kind, and  *)
(* a proof packet compares no numbers of gold and gate.                     *)
CustomerReadyReceipt ==
  receipt.ready =>
    /\ CustomerReadyAuthority
    /\ \/ receipt.kind = "metric" /\ SameCandidateMetricBinding
       \/ receipt.kind = "proof" /\ ~receipt.pairs

-----------------------------------------------------------------------------
(* The citation.  _resolve_citation_target: a strict role names a sibling,  *)
(* the other shapes may mean the package or the repository, which has no    *)
(* file with the name of the generated log.                                 *)
Bases(c) == IF c.name = "gen" THEN {"gen"} ELSE IF c.shape = "role" THEN {"gate"} ELSE Name
Hits(c)  == {p \in Bases(c) : Present(p)}

(* _historical_paths: a history that cannot be read is empty. *)
Committed(c)  == \E p \in Bases(c) \cap Name : \E i \in DOMAIN history[p] : history[p][i] # Absent
EverExisted(c) == git /\ Committed(c)

(* _verify_hops fails where there is no history to check it against. *)
VerifyHops(p, rec, cited) == git /\ p \in Name /\ ChainHolds(history[p], rec, cited, file[p])

(* A record beside a citation that matches. *)
Settled(p, rec) ==
  /\ rec.prior # file[p] /\ rec.current = file[p]
  /\ VerifyHops(p, rec, rec.prior)

(* A record beside a citation that does not. *)
Superseded(p, sha, rec) ==
  /\ rec.current = file[p] /\ rec.superseded_by # {}
  /\ VerifyHops(p, rec, sha)

(* The citation has the content of p, or the record leads from the one to   *)
(* the other.                                                               *)
Answered(p, c, rec) ==
  \/ file[p] = c.sha /\ (rec = None \/ Settled(p, rec))
  \/ file[p] # c.sha /\ rec # None /\ Superseded(p, c.sha, rec)

(* Mutant: resolution decides alone what is a citation. *)
CitationHoldsForgetful(c, rec) ==
  Hits(c) # {} => \E p \in Path : Hits(c) = {p} /\ Answered(p, c, rec)

(* _find_citations: a bare key that names no one file now and named none    *)
(* ever is not a citation.                                                  *)
IsCitation(c) == c.shape # "bare" \/ Cardinality(Hits(c)) = 1 \/ EverExisted(c)

(* _verify_hash_citations: it resolves to one file, and is right or         *)
(* accounted for.                                                           *)
CitationHolds(c, rec) ==
  IsCitation(c) => \E p \in Path : Hits(c) = {p} /\ Answered(p, c, rec)

StaleCitation ==
  IF cite = None \/ record # None THEN {}
  ELSE {<<"stale", cite, file[p]>> : p \in {q \in Path : Hits(cite) = {q} /\ file[q] # cite.sha}}

-----------------------------------------------------------------------------
(* verify, of the one package. *)
Passed ==
  [sums      |-> VerifySums,
   escapes   |-> ~SumsPathEscapes,
   complete  |-> ManifestComplete,
   replay    |-> receipt.replay,
   area      |-> ReceiptBoundToLogs,
   ready     |-> CustomerReadyReceipt,
   export    |-> PublicExportClean,
   abbrev    |-> Abbreviated,
   citations |-> cite = None \/ CitationHolds(cite, record)
                 \/ StaleCitation # {}]

Problems ==
  LET passed == Passed
  IN  {<<c>> : c \in {d \in DOMAIN passed : ~passed[d]}} \cup StaleCitation

(* Mutant: an entry that nothing matches is left alone. *)
ExitCodeOrphans ==
  IF ~baseline.parses THEN 2 ELSE IF Problems \subseteq baseline.entries THEN 0 ELSE 1

(* main: no verdict without the baseline; 1 for a finding that is not known *)
(* or an entry that matches none.  A list that is not there is empty.       *)
ExitCode ==
  IF ~baseline.parses THEN 2 ELSE IF Problems = baseline.entries THEN 0 ELSE 1

-----------------------------------------------------------------------------
(* What an author of citations finds: a file may be cited by a hash it has  *)
(* not, one of the two was never committed, and the history may be out of   *)
(* reach.                                                                   *)
FirstCitations == IF half = "citations" THEN CitedAs ELSE {None}
FirstHistories == {[p \in Name |-> IF p = q THEN << Absent >> ELSE << file[p] >>] :
                     q \in IF half = "citations" THEN Name ELSE {"twin"}}
ReadableAtFirst == IF half = "citations" THEN BOOLEAN ELSE {TRUE}

(* The file whose hash a receipt states. *)
Subject(s) == CASE s = "negative" -> "control" [] s \in {"printed", "prose"} -> "log" [] OTHER -> "gate"

(* The package as it was published: everything is bound and agrees.         *)
Start ==
  /\ file = [p \in Path |-> IF p \in Shipped THEN AsPublished[p] ELSE Absent]
  /\ claim = [s \in Site |-> file[Subject(s)]]
  /\ mapped = [s \in Design |-> file["netlist"]]
  /\ sums = file /\ pinned = TRUE
  /\ receipt = [ready |-> half = "package", kind |-> "metric", blocks |-> {"authority"},
                pairs |-> FALSE, leaks |-> FALSE, replay |-> TRUE]
  /\ cite \in FirstCitations /\ record = None
  /\ history \in FirstHistories /\ git \in ReadableAtFirst
  /\ baseline = [parses |-> TRUE, entries |-> StaleCitation]
  /\ accepted = StaleCitation
  /\ edits = 0

Init == half \in Halves \ {"gate"} /\ Start

-----------------------------------------------------------------------------
(* The authors of the package. *)
Author ==
  /\ half = "package" /\ edits < MaxEdits /\ edits' = edits + 1
  /\ UNCHANGED <<cite, record, history, git, accepted, half>>

Edit == Author /\ UNCHANGED baseline

EditFile(p, h) ==
  /\ Edit /\ h # file[p] /\ file' = [file EXCEPT ![p] = h]
  /\ UNCHANGED <<sums, pinned, claim, mapped, receipt>>

(* A new manifest, of the files that are shipped or of all in the package. *)
Rehash(listed) ==
  /\ Edit
  /\ sums' = [p \in Path |-> IF p \in listed THEN file[p] ELSE Absent]
  /\ pinned' = TRUE
  /\ UNCHANGED <<file, claim, mapped, receipt>>

Unlist(p) ==
  /\ Edit /\ p \in Listed /\ sums' = [sums EXCEPT ![p] = Absent]
  /\ UNCHANGED <<file, pinned, claim, mapped, receipt>>

(* The receipt is written again, and with it the manifest or not. *)
EditReceipt ==
  /\ Edit /\ pinned' \in BOOLEAN
  /\ UNCHANGED <<file, sums>>

State(s, h) == EditReceipt /\ claim' = [claim EXCEPT ![s] = h] /\ UNCHANGED <<mapped, receipt>>

StateMapped(s, h) ==
  EditReceipt /\ mapped' = [mapped EXCEPT ![s] = h] /\ UNCHANGED <<claim, receipt>>

(* Every axis is measured again, on the files that are there. *)
Remeasure ==
  /\ EditReceipt /\ Present("gate") /\ Present("netlist") /\ UNCHANGED receipt
  /\ claim' = [s \in Site |-> IF s \in Design \cup {"authority"} THEN file["gate"] ELSE claim[s]]
  /\ mapped' = [s \in Design |-> file["netlist"]]

Retype(r) == EditReceipt /\ receipt' = r /\ UNCHANGED <<claim, mapped>>

BreakBaseline ==
  /\ Author /\ baseline' = [baseline EXCEPT !.parses = ~@]
  /\ UNCHANGED <<file, sums, pinned, claim, mapped, receipt>>

Types ==
  [ready : {TRUE}, kind : {"metric", "proof", "other"},
   blocks : SUBSET {"authority", "fallback"}, pairs : BOOLEAN, leaks : {FALSE}, replay : {TRUE}]
  \cup {[receipt EXCEPT !.leaks = TRUE], [receipt EXCEPT !.replay = FALSE]}

(* Anybody runs replay.sh, which writes its log into the package; it names  *)
(* the paths of the caller.                                                 *)
Replay(h) ==
  /\ \/ half = "package" /\ edits < MaxEdits /\ edits' = edits + 1
     \/ half = "citations" /\ UNCHANGED edits
  /\ file' = [file EXCEPT !["gen"] = h]
  /\ UNCHANGED <<sums, pinned, claim, mapped, receipt, cite, record, history, git, baseline, accepted,
                 half>>

-----------------------------------------------------------------------------
(* The authors of its citation, who keep the manifest right: the contents   *)
(* it is cited by are those the candidate takes.                            *)
Citable == {h \in Hash : cite # None /\ [cite EXCEPT !.sha = h] \in CitedAs}
Citing == half = "citations" /\ UNCHANGED <<pinned, claim, mapped, receipt, git, half, edits>>

Change(p, h) ==
  /\ Citing /\ h # file[p]
  /\ file' = [file EXCEPT ![p] = h]
  /\ sums' = [sums EXCEPT ![p] = IF p = "gate" THEN h ELSE @]
  /\ UNCHANGED <<cite, record, history, baseline, accepted>>

Cite(sha) ==
  /\ Citing /\ cite' = [cite EXCEPT !.sha = sha] /\ record' = None
  /\ UNCHANGED <<file, sums, history, baseline, accepted>>

(* The lineage since commit i is recorded, beside the citation as it stands *)
(* or beside the corrected one.                                             *)
Record(p, i, sha) ==
  /\ Citing /\ Hits(cite) = {p} /\ history[p][i] # Absent
  /\ ChangesAfter(history[p], i) # << >>
  /\ sha \in {cite.sha, file[p]}
  /\ record' = HonestRecord(history[p], i) /\ cite' = [cite EXCEPT !.sha = sha]
  /\ UNCHANGED <<file, sums, history, baseline, accepted>>

(* The list of known findings can only become shorter. *)
DropEntry(e) ==
  /\ Citing /\ baseline' = [baseline EXCEPT !.entries = @ \ {e}]
  /\ UNCHANGED <<file, sums, cite, record, history, accepted>>

(* A commit; the gate accepts it or not. *)
Commit ==
  /\ Citing /\ Len(history["gate"]) < MaxCommits
  /\ history' = [p \in Name |-> Append(history[p], file[p])]
  /\ UNCHANGED <<file, sums, cite, record, baseline>>
  /\ accepted' = IF ExitCode' = 0 THEN Problems' ELSE accepted

Next ==
  \/ \E p \in Shipped, h \in Hash \cup {Absent} : EditFile(p, h)
  \/ \E listed \in {Shipped, Shipped \cup {"gen"}, Path} : Rehash(listed)
  \/ \E p \in Path : Unlist(p)
  \/ \E s \in Site, h \in Hash : State(s, h)
  \/ \E s \in Design, h \in Hash : StateMapped(s, h)
  \/ Remeasure
  \/ \E r \in Types : Retype(r)
  \/ \E h \in Generated : Replay(h)
  \/ BreakBaseline
  \/ \E h \in Citable \cup {Absent} : Change("gate", h)
  \/ \E h \in {file["log"], Absent} : Change("twin", h)
  \/ \E sha \in Citable : Cite(sha)
  \/ \E p \in Name, sha \in Hash : \E i \in DOMAIN history[p] : Record(p, i, sha)
  \/ \E e \in baseline.entries : DropEntry(e)
  \/ Commit

Spec == Init /\ [][Next]_vars

-----------------------------------------------------------------------------
(* The types of the state; a commit holds whole trees. *)
TypeOK ==
  /\ file \in [Path -> Hash \cup {Absent}] /\ sums \in [Path -> Hash \cup {Absent}]
  /\ claim \in [Site -> Hash] /\ mapped \in [Design -> Hash]
  /\ receipt \in [ready : BOOLEAN, kind : {"metric", "proof", "other"}, pairs : BOOLEAN,
                  blocks : SUBSET {"authority", "fallback"}, leaks : BOOLEAN, replay : BOOLEAN]
  /\ cite = None \/ cite \in [name : {"gate", "gen"}, shape : {"role", "object", "bare"}, sha : Hash]
  /\ record = None \/ Len(record.hops) \in 1 .. MaxCommits - 1
  /\ \A p \in Name : /\ history[p] \in Seq(Hash \cup {Absent})
                     /\ Len(history[p]) \in 1 .. MaxCommits
  /\ pinned \in BOOLEAN /\ git \in BOOLEAN /\ edits \in Nat /\ half \in {"package", "citations", "gate"}
  /\ baseline.parses \in BOOLEAN /\ Cardinality(accepted \cup baseline.entries) <= 1

(* A metric packet that passes is about one source and one netlist: the     *)
(* receipt, the binding receipt and all axes name one file of the package as *)
(* the candidate, which is that of the authority block, and one as its       *)
(* netlist, and the negative controls a file other than the candidate,       *)
(* whoever edited which in turn.  That the netlist is mapped from the        *)
(* candidate, and that the negative control is not that netlist, is left to  *)
(* the replay (verify_public_receipts.py:305-311, 353-405).                  *)
SameCandidate ==
  ExitCode = 0 /\ receipt.ready /\ receipt.kind = "metric" =>
    \E p, m, n \in {q \in Path \ {"twin"} : Present(q)} :
      /\ \A s \in Design \cup {"authority"} : claim[s] = file[p]
      /\ \A s \in Design : mapped[s] = file[m]
      /\ claim["negative"] = file[n] /\ file[n] # file[p]

(* "SHA256SUMS binds ALL": in a package that passes every shipped file has   *)
(* its line and its content, and the area that is claimed stands in a log    *)
(* that is so bound; who wrote that log is left to the replay                *)
(* (verify_public_receipts.py:161-188, 460-500).                             *)
NothingShipsUnbound ==
  ExitCode = 0 =>
    /\ \A p \in Shipped : Present(p) => sums[p] = file[p]
    /\ \E p \in {"log", "gen"} : sums[p] = file[p] /\ file[p] = claim["printed"]

(* What a package that passes has shipped: one candidate, all of it bound.  *)
PackageInv == TypeOK /\ SameCandidate /\ NothingShipsUnbound

(* An auditor who has run replay.sh finds what the author found.  The log of *)
(* a replay, if nobody listed it, makes and settles no finding but that of   *)
(* an abbreviated digest, which is looked for in whatever file there is, and *)
(* that of a citation of the log itself.  A first replay makes one only if   *)
(* the log it wrote is cited by another hash                                 *)
(* (verify_public_receipts.py:120-123, 684-704, 1104-1117, 1266-1276).       *)
OfTheReplay == {<<"abbrev">>} \cup IF cite # None /\ cite.name = "gen"
                                  THEN {<<"citations">>, <<"stale", cite, file["gen"]>>} ELSE {}
ReplayKeepsVerdict ==
  []["gen" \notin Listed /\ (\E h \in Hash : Replay(h)) =>
       /\ Problems' \ OfTheReplay' = Problems \ OfTheReplay
       /\ ~Present("gen") =>
            Problems' \subseteq Problems \cup {<<"stale", cite, file'["gen"]>>}]_vars

(* Whatever lineage of p an author may invent: at most two hops, with any   *)
(* commit or ref and any hash, that end at the current content.             *)
Fabricated(p) ==
  {[prior |-> sha, current |-> file[p], superseded_by |-> {hops[1].commit}, hops |-> hops] :
     sha \in Hash \ {file[p]},
     hops \in UNION {{h \in [1 .. n -> [commit : {Mutable} \cup DOMAIN history[p],
                                        misquoted : {FALSE}, result : Hash]] :
                        h[n].result = file[p]} : n \in 1 .. 2}}

Accepted(p, rec) == Superseded(p, rec.prior, rec) \/ Settled(p, rec)

(* No invented lineage is accepted.  The hash it starts from was the content *)
(* of that very file at some commit; and when no content ever came back, the *)
(* hops are all the changes since, none left out ("the exact compression     *)
(* the chain exists to prevent").                                            *)
CitationBacked ==
  half = "citations" =>
    \A p \in Name : Present(p) => \A rec \in Fabricated(p) :
      Accepted(p, rec) =>
        \E i \in DOMAIN history[p] :
          /\ history[p][i] = rec.prior
          /\ NeverReturns(history[p]) /\ file[p] = Last(history[p]) =>
               rec.hops = HonestRecord(history[p], i).hops

(* A true lineage is accepted, as the excuse of a citation that was not      *)
(* corrected and beside the corrected one: the gate does not "red on every   *)
(* receipt its own remedy repaired".                                         *)
HonestLineageAccepted ==
  half = "citations" /\ git =>
    \A p \in Name : \A i \in DOMAIN history[p] :
      /\ file[p] = Last(history[p]) /\ history[p][i] # file[p]
      /\ \A j \in i .. Len(history[p]) : history[p][j] # Absent
      => LET rec == HonestRecord(history[p], i)
         IN  Superseded(p, rec.prior, rec) /\ Settled(p, rec)

(* A published lineage does not change its meaning "as the branch moves": a  *)
(* record that is accepted is so after every commit that leaves its file.    *)
LineageIsPermanent ==
  [][Commit => \A p \in Name : Present(p) =>
       \A rec \in Fabricated(p) : Accepted(p, rec) => Accepted(p, rec)']_vars

(* A citation of a file that was ever committed passes only while there is   *)
(* one file it can mean, which has the cited content or had it once: neither *)
(* a deletion nor a second file of that name takes it out of the check, if   *)
(* the history can be read or the citation is not a bare key                 *)
(* (verify_public_receipts.py:697-752, 843-866).                             *)
HasEvidence(c) ==
  \E p \in Name : /\ Hits(c) = {p}
                  /\ file[p] = c.sha \/ \E i \in DOMAIN history[p] : history[p][i] = c.sha
EvidenceStands ==
  ExitCode = 0 /\ cite # None /\ baseline.entries = {} /\ Committed(cite) /\ (git \/ cite.shape # "bare")
  => HasEvidence(cite)

(* What the gate lets through only becomes less: a finding that was settled  *)
(* once does not come back under the entry that excused it.                  *)
NoRegrowth == [][accepted' \subseteq accepted]_vars
=============================================================================
