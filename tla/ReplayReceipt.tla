--------------------------- MODULE ReplayReceipt ---------------------------
(***************************************************************************)
(* The one-command replay of the public receipt packages                    *)
(* (athanor/replay_public_receipt.py).  It looks for the pinned tools,      *)
(* clears a package's replay_out, runs the package's replay.sh and turns    *)
(* what happened into an exit code: 0 reproduced, 1 not reproduced, 2 a     *)
(* tool crashed, 3 a tool could not be provided.                            *)
(*                                                                         *)
(* Tools may be installed and removed between the steps of an invocation,   *)
(* also between the look at a tool and its use, and scripts between two     *)
(* invocations.  What replay.sh leaves in replay_out and how it ends is a   *)
(* choice.                                                                  *)
(***************************************************************************)
EXTENDS Integers, Sequences, FiniteSets

CONSTANTS
  Pkg,          \* the packages, in the order of their names
  Tool,         \* the tool variables: YOSYS_BIN, STA_BIN, LIBERTY
  Needs,        \* for each package the tools its replay.sh refers to
  Searched,     \* how many places are searched for a tool, the first first
  Stuck,        \* the packages whose replay_out cannot be removed
  LogCap,       \* how much of a log is read (65536 characters)
  Ceiling,      \* after how much no further log is read (8 * LogCap)
  MaxLog        \* the longest log

ASSUME ReplayAssumption ==
  /\ Pkg \subseteq Nat /\ IsFiniteSet(Pkg)
  /\ Needs \in [Pkg -> SUBSET Tool]
  /\ {Searched, LogCap, Ceiling, MaxLog} \subseteq Nat \ {0}

NoPlace  == 0
Place    == 1 .. Searched
FileKind == {"none", "pinned", "other"}

Log  == [len : 1 .. MaxLog, crash : BOOLEAN]   \* crash: the last line is a tool's
Logs == {l \in UNION {[1 .. n -> Log] : n \in 0 .. 2} :
           Cardinality({j \in DOMAIN l : l[j].crash}) <= 1}

VARIABLES
  envVar,    \* the place an environment variable names for a tool, NoPlace if unset
  installed, \* what is at each place of a tool
  script,    \* the packages that have a replay.sh
  out,       \* their replay_out: "none", or whether a "crash" is read in its logs
  pc,        \* "idle", "clear", "resolve" or "run" of the next package, "done"
  todo,      \* the packages that are still to be replayed
  path,      \* the place of each resolved tool, as replay.sh gets it
  verdict,   \* the exit code of each package of this invocation, NoVerdict before
  exit,      \* the exit code of the invocation
  truth,     \* what really happened to each package: 3 without its pinned tools
  swapped,   \* the packages of which a resolved tool was then overwritten
  missed     \* the packages whose crash is told where the wrapper does not look

tooling    == <<envVar, installed, script>>
replayVars == <<envVar, installed, script, out, pc, todo, path, verdict, exit, truth, swapped, missed>>

NoVerdict == -1
NoPath    == [t \in Tool |-> NoPlace]

-----------------------------------------------------------------------------
(* The place that a tool is taken from: an environment variable wins, then  *)
(* the first place with a file; there is no second choice.                  *)
FirstPlace(t) ==
  LET there == {l \in Place : installed[t][l] # "none"}
  IN  IF there = {} THEN NoPlace ELSE CHOOSE l \in there : \A k \in there : l <= k

Candidate(t) == IF envVar[t] # NoPlace THEN envVar[t] ELSE FirstPlace(t)

(* resolve_yosys, resolve_sta, resolve_liberty: the file must be there and  *)
(* be the pinned one; otherwise a ProvisioningError.                        *)
Resolved(t) == Candidate(t) # NoPlace /\ installed[t][Candidate(t)] = "pinned"

(* Mutant: replay.sh is left to find the tool itself. *)
RunsAgain(t) == IF Candidate(t) = NoPlace THEN "none" ELSE installed[t][Candidate(t)]

(* What replay.sh runs: whatever is at the resolved path by then. *)
Runs(t) == installed[t][path[t]]

(* _read_replay_out_logs: the head of every log, up to a total.  The        *)
(* message of a crash is the last line of its log.                          *)
ReadBefore(logs) ==      \* how much precedes each log
  LET before[n \in 1 .. Len(logs) + 1] == IF n = 1 THEN 0 ELSE before[n - 1] + logs[n - 1].len
  IN  before

ReadWhole(logs) == {j \in DOMAIN logs : ReadBefore(logs)[j] < Ceiling /\ logs[j].len <= LogCap}

Told(logs) == IF logs = << >> THEN "none"
              ELSE IF \E j \in ReadWhole(logs) : logs[j].crash THEN "crash" ELSE "quiet"

(* Mutant: only what replay.sh prints itself is looked at. *)
CrashSeenPrinted(said, told) == said

(* Whether a signature of a crash is in what replay.sh prints or in a log. *)
CrashSeen(said, told) == said \/ told = "crash"

(* Mutant: replay_out is not cleared by the wrapper. *)
ClearedLater(p) == out[p]

(* shutil.rmtree(out_dir, ignore_errors=True) *)
Cleared(p) == IF p \in Stuck THEN out[p] ELSE "none"

(* Mutant: the last package decides. *)
WorstLast(a, b) == b

(* worst = max(worst, rc) *)
Worst(a, b) == IF b > a THEN b ELSE a

(* How replay.sh can end.  A crash is told on its output, in a log of       *)
(* replay_out, or in a log beside it: three packages write theirs there.    *)
Crashes(logs) == {j \in DOMAIN logs : logs[j].crash}

Replays == {h \in [truth : 0 .. 2, said : BOOLEAN, logs : Logs, beside : BOOLEAN] :
              h.truth = 2 <=> h.said \/ h.beside \/ Crashes(h.logs) # {}}

Endings == {[truth |-> h.truth, said |-> h.said, told |-> Told(h.logs),
             missed |-> h.beside \/ ~(Crashes(h.logs) \subseteq ReadWhole(h.logs))] : h \in Replays}

(* A replay.sh whose rm -rf of replay_out fails stops there. *)
EndingsOf(p) ==
  IF p \in Stuck /\ out[p] # "none"
  THEN {[truth |-> 1, said |-> FALSE, told |-> out[p], missed |-> FALSE]} ELSE Endings

ReplayExit(e) == IF e.truth = 0 THEN 0 ELSE IF CrashSeen(e.said, e.told) THEN 2 ELSE 1

-----------------------------------------------------------------------------
ReplayInit ==
  /\ envVar = NoPath /\ installed = [t \in Tool |-> [l \in Place |-> "none"]]
  /\ script = Pkg /\ out = [p \in Pkg |-> "none"]
  /\ pc = "idle" /\ todo = << >> /\ path = NoPath /\ exit = NoVerdict
  /\ verdict = [p \in Pkg |-> NoVerdict] /\ truth = [p \in Pkg |-> NoVerdict]
  /\ swapped = {} /\ missed = {}

(* main, up to the packages: what the options decide at once. *)
Answer(code) == pc' = "done" /\ exit' = code /\ UNCHANGED todo
Begin(ps)    == IF ps = << >> THEN Answer(0)
                ELSE pc' = "clear" /\ todo' = ps /\ exit' = 0

List == Answer(0)
(* toolchain_policy.json may be missing or broken when it is read; the       *)
(* exception of _load_policy leaves main and the interpreter exits with 1.   *)
NoPolicy == Answer(1)
PrintEnv == Answer(IF \A t \in Tool : Resolved(t) THEN 0 ELSE 3)
NoSuchPackage == Answer(3)
NoArgument == Answer(2)          \* parser.error
One == \E p \in Pkg : Begin(<<p>>)
SortedPkgs(S) == CHOOSE s \in [1 .. Cardinality(S) -> S] :
                   \A i, j \in DOMAIN s : i < j => s[i] < s[j]
All == Begin(SortedPkgs(script))

Invoke == /\ pc = "idle"
          /\ List \/ NoPolicy \/ PrintEnv \/ NoSuchPackage \/ NoArgument \/ One \/ All
          /\ UNCHANGED <<tooling, out, path, verdict, truth, swapped, missed>>

(* replay_package(pkg) ends with a code; real is what really happened. *)
Finish(p, code, real) ==
  /\ verdict' = [verdict EXCEPT ![p] = code]
  /\ truth' = [truth EXCEPT ![p] = real]
  /\ exit' = Worst(exit, code)
  /\ todo' = Tail(todo)
  /\ path' = NoPath
  /\ pc' = IF Tail(todo) = << >> THEN "done" ELSE "clear"

NoScript == /\ pc = "clear" /\ Head(todo) \notin script
            /\ Finish(Head(todo), 3, 3)
            /\ UNCHANGED <<tooling, out, swapped, missed>>

Clear == /\ pc = "clear" /\ Head(todo) \in script
         /\ out' = [out EXCEPT ![Head(todo)] = Cleared(Head(todo))]
         /\ pc' = "resolve"
         /\ UNCHANGED <<tooling, todo, path, verdict, exit, truth, swapped, missed>>

ResolveFails == /\ pc = "resolve" /\ \E t \in Needs[Head(todo)] : ~Resolved(t)
                /\ Finish(Head(todo), 3, 3)
                /\ UNCHANGED <<tooling, out, swapped, missed>>

(* Version or hash of every tool was right; its path goes to replay.sh. *)
Resolve == /\ pc = "resolve" /\ \A t \in Needs[Head(todo)] : Resolved(t)
           /\ path' = [t \in Tool |-> IF t \in Needs[Head(todo)] THEN Candidate(t) ELSE NoPlace]
           /\ pc' = "run"
           /\ UNCHANGED <<tooling, out, todo, verdict, exit, truth, swapped, missed>>

ReplayPackage == LET p == Head(todo) IN
  /\ pc = "run"
  /\ \E e \in EndingsOf(p) :
       /\ out' = [out EXCEPT ![p] = e.told]
       /\ missed' = IF e.missed THEN missed \cup {p} ELSE missed
       /\ Finish(p, ReplayExit(e), IF \A t \in Needs[p] : Runs(t) = "pinned" THEN e.truth ELSE 3)
  /\ UNCHANGED <<tooling, swapped>>

(* The shell is back: the next invocation starts afresh. *)
Return == /\ pc = "done" /\ pc' = "idle" /\ exit' = NoVerdict
          /\ verdict' = [p \in Pkg |-> NoVerdict] /\ truth' = [p \in Pkg |-> NoVerdict]
          /\ swapped' = {} /\ missed' = {}
          /\ UNCHANGED <<tooling, out, todo, path>>

(* Somebody puts a file where a tool is looked for, or takes it away, or,    *)
(* between invocations, sets a variable or adds or removes a script.         *)
Install(t, l, f) ==
  /\ pc # "done" /\ installed[t][l] # f
  /\ installed' = [installed EXCEPT ![t][l] = f]
  /\ swapped' = IF path[t] = l THEN swapped \cup {Head(todo)} ELSE swapped
  /\ UNCHANGED <<envVar, script>>

Reinstall == /\ \/ \E t \in Tool, l \in Place, f \in FileKind : Install(t, l, f)
                \/ /\ pc = "idle" /\ UNCHANGED <<installed, swapped>>
                   /\ \/ \E t \in Tool, l \in Place \cup {NoPlace} :
                           envVar' = [envVar EXCEPT ![t] = l] /\ UNCHANGED script
                      \/ \E p \in Pkg : script' = (script \ {p}) \cup ({p} \ script) /\ UNCHANGED envVar
             /\ UNCHANGED <<out, pc, todo, path, verdict, exit, truth, missed>>

ReplayNext ==
  Invoke \/ NoScript \/ Clear \/ ResolveFails \/ Resolve \/ ReplayPackage \/ Return \/ Reinstall

ReplaySpec == ReplayInit /\ [][ReplayNext]_replayVars

-----------------------------------------------------------------------------
(* Type invariant. *)
ReplayTypeOK ==
  /\ envVar \in [Tool -> Place \cup {NoPlace}] /\ installed \in [Tool -> [Place -> FileKind]]
  /\ script \subseteq Pkg /\ out \in [Pkg -> {"none", "quiet", "crash"}]
  /\ pc \in {"idle", "clear", "resolve", "run", "done"}
  /\ pc \in {"clear", "resolve", "run"} => todo # << >>
  /\ path \in [Tool -> Place \cup {NoPlace}] /\ (pc # "run" => path = NoPath)
  /\ exit \in {NoVerdict} \cup 0 .. 3
  /\ verdict \in [Pkg -> {NoVerdict} \cup 0 .. 3] /\ truth \in [Pkg -> {NoVerdict} \cup 0 .. 3]

(* Every package whose replay_out can be removed gets the code of what      *)
(* happened to it, in whatever order tools come and go, with two            *)
(* exceptions: a crash that is told only where the wrapper does not look    *)
(* counts as a verdict, and a tool that was overwritten between the look at *)
(* it and its use counts as the pinned one.  A replay with another tool has *)
(* no other cause (replay_public_receipt.py:16-28, 330-345, 368-392).       *)
VerdictTrue ==
  \A p \in Pkg \ Stuck : \/ verdict[p] = truth[p]
                         \/ verdict[p] = 1 /\ truth[p] = 2 /\ p \in missed
                         \/ verdict[p] \in 0 .. 2 /\ truth[p] = 3 /\ p \in swapped

(* The codes are codes, and those of what happened.                         *)
CodesInv == ReplayTypeOK /\ VerdictTrue

(* A package that has a replay.sh, whose replay_out can be removed, and that *)
(* ends without a replay has no replay_out of an earlier success, however    *)
(* tools come and go.  One without a replay.sh keeps what it has: the        *)
(* wrapper returns before it looks (replay_public_receipt.py:313-324).       *)
NoStaleOutput ==
  \A p \in script \ Stuck : verdict[p] = 3 /\ pc = "done" => out[p] = "none"

(* An invocation that replays packages exits with 0 only if each of them    *)
(* reproduced its claims, and with the pinned tools unless one of them was  *)
(* overwritten between the look at it and its use: no package hides behind  *)
(* another, whatever cannot be removed (replay_public_receipt.py:428-434).  *)
ExitZeroIsEarned ==
  pc = "done" /\ exit = 0 =>
    \A p \in Pkg : verdict[p] # NoVerdict => truth[p] = 0 \/ (truth[p] = 3 /\ p \in swapped)

-----------------------------------------------------------------------------
(* What the documentation says and the code refutes.  Code 1 means that a   *)
(* replay ran and did not reproduce a claim                                 *)
(* (replay_public_receipt.py:21-28).                                        *)
RedMeansReplayed == pc = "done" /\ exit = 1 => \E p \in Pkg : truth[p] = 1
=============================================================================
