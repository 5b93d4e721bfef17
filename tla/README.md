# A TLA+ verification of the OpenC910 fork

The repository holds two programs. The first is the Verilog RTL of the C910
processor (`src/C910_RTL_FACTORY/gen_rtl`, about 400 modules). The second is a
set of Python tools (`src/athanor`) that decide whether a change to that RTL or
to its published evidence may be merged, exported or believed. This directory
models parts of both, checks the models with TLC and proves what they promise
for all values of the constants with TLAPS. Paths below are relative to `src/`;
`ciu/` stands for `C910_RTL_FACTORY/gen_rtl/ciu/rtl/`.

## 1. Inventory

### The RTL

| component | state | operations | what is hard | what makes it correct |
|---|---|---|---|---|
| `ct_prio` arbiter | priority matrix | grant, consume | rows are updated apart from each other | always an order; one grant; bounded waiting |
| `ct_fifo` queue | two pointers, valid bits, entries | create, pop, write ahead of create | full and empty look alike to the pointers; gated clock | it is a queue |
| barrier buffer of `ct_piu_top`, `ct_ciu_bmbif_kid` | barrier state, grant/complete bits; a matrix and a queue per target | two halves and data arrive; request, grant, take, finish, answer | the parts arrive in any order, four targets at their own speed, nobody looks at queue full | every target finishes every barrier once before it is answered, and it is answered |
| `ct_ciu_ncq` counters | outstanding counts per PIU and in total, copies per barrier | issue, return, barrier | issue, return and barrier in one cycle | counts are exact; a barrier waits for what was before it, and no longer |
| `ct_ciu_ncq` queues, `ct_ciu_apbif` | raq, waq, woq, wdq, dsq, destination flags; bridge state | address, data and response of reads and writes | data and addresses of a write travel apart | data follow their address; the two paths do not mix; dsq is big enough |
| `ct_ciu_snb_*` snoop buffers | read and write entries, a register between grant and creation, a queue of write data to take | arbitrate, create, take data, snoop, memory, answer | room is seen a cycle before it is used; address dependences, retries | room is there when it is used; data is asked for once; coherence, no deadlock |
| `ct_ciu_ctcq`, `ct_ebiu_*`, `ct_ciu_vb` | sync state machine, write counters, victim entries | DVM sync, bus writes, evictions | completion counts | a sync waits for all cores |
| `plic`, `clint` | pending, active, claimed bits; timers | set, claim, complete | claim races with a new interrupt | each interrupt is claimed once |
| `l2c` | tag and data pipeline | lookup, refill, write back | hazards of the pipeline | one owner of a line |
| core (`ifu` .. `biu`) | out-of-order core | fetch .. retire | everything | the ISA |
| `had`, `rst`, `clk` | debug and reset | | | |

The PIUs talk to the rest of the ciu with request/grant pairs that hold within
one clock cycle. Everything is synchronous to one clock; the concurrency is that
of all blocks in one cycle, and of latencies over cycles.

### The Python tools

| component | state | operations | what is hard | what makes it correct |
|---|---|---|---|---|
| `replay_public_receipt.py` | `replay_out` of each package, exit code | resolve tools, clear, replay, classify | tools come and go, several packages and one exit code, logs are read in part | the exit code is what happened; no stale output |
| `check_stacked_pr_approvals.py` | none; it reads a pull request | three calls, evaluate | the pull request changes between calls | a pass means two reviewers stand behind the head |
| `check_scrub_hash_closure.py` | none; it reads two trees | superseded, moved, excused, survives | mending a citation makes others stale | clean means no stale citation |
| `check_scratch_path_convention.py` | a baseline of findings | find, compare, emit | trees mix, the baseline rots | findings never grow |
| `full_top_ppa_harness.py` | table of modules; receipt, manifest, screen and cache keys of a package | read the log, sum; state sources, key a run, validate | shared modules, order of sections; the files are written one at a time | the sum is the area of the flat design; a package that passes compares two runs of one set of inputs |
| `export_safety_gate.py`, `gen_fleet_handle_denylist.py` | the denylist, a stamped copy of a roster | derive, load, scan a commit or a text, call the verifier | the list is edited, committed and merged apart from the roster; commit and working tree | names of the roster are reported in the commit, by the list of the commit |
| `verify_public_receipts.py` | a baseline of stale citations | check manifest, replay, area, metric binding, export strings, citations and lineage | parts of a package are edited one at a time; git history; a replay writes into the package | a package that passes is bound, about one design, and its citations have a true history |
| `check_replay_env.py` | none | find the forms of a variable | where a form stands in the script | no substituted tool is ever run |
| `check_public_readme.py` | none | compare texts | | |
| `athanor_artifacts/*/bridge_passivity_check.py` | none | compare two netlists | | |

The tools are single processes. Their surroundings are concurrent: reviewers and
authors act between two reads, tools are installed, trees are edited.

The hazards that follow from all this are listed, with their lines, in
`PROJECT.json`.

## 2. Modules

| module | models | composed of |
|---|---|---|
| `CtPrio` | `ct_prio` | |
| `CtPrioWait` | `CtPrio` with a history of who passed whom | `CtPrio`, `LruArbiter` |
| `LruArbiter` | abstract: a queue of ports; the first that requests goes to the end | |
| `CtFifo` | `ct_fifo`; other modules step its records with `FifoEdge` | `BoundedQueue` |
| `BoundedQueue` | abstract: a queue with put, take and both | |
| `Barrier` | the merging buffers of the PIUs and the kids of the targets | `CtPrio`, `CtFifo`, `BarrierService` |
| `BarrierService` | abstract: a barrier is open, visits and finishes at every target, is answered | |
| `NcqBarrier` | section BAR of `ct_ciu_ncq`, with its counters | |
| `NcqRoute` | the queues of `ct_ciu_ncq` and the machine of `ct_ciu_apbif` | `CtFifo` (dsq) |
| `SabWrite` | the write half of `ct_ciu_snb_arb` with the entries of `ct_ciu_snb_sab_entry` | `CtPrioWait`, `CtFifo` |
| `ReplayReceipt`, `ApprovalGate`, `ScrubClosure`, `ScratchPaths` | the tool of that name | |
| `Lineage` | `_verify_hops`: a supersession record against the history of a file | |
| `PublicReceipts` | `verify_public_receipts`, and the authors of a package | `Lineage` |
| `ExportGate` | `export_safety_gate`, `gen_fleet_handle_denylist`, and those who edit what they read | `PublicReceipts` |
| `ComposedArea` | the area of `full_top_ppa_harness` | |
| `PpaReceipt` | the receipt contract of `full_top_ppa_harness`, and the author of a package | |
| `ReplayEnv` | `check_replay_env`, and the shell that runs a `replay.sh` | |
| `CtPrioProofs`, `CtFifoProofs` | theorems of the two building blocks | `SeqLemmas` |
| `SabWriteProofs`, `BarrierProofs`, `NcqRouteProofs`, `NcqBarrierProofs` | theorems of the module of that name | the two above, `SeqLemmas` |
| `ToolProofs` | theorems of all tools | the modules of the tools, `SeqLemmas` |
| `SeqLemmas` | lemmas about sequences, counts, natural numbers, sums and concatenations | |
| `MC*` | values of the constants, one module for each model and a `.cfg` for each run | |

**RTL.** One step is one rising edge of the clock. A register is a variable,
`Next` computes all registers from the old ones, a wire is an operator. A bit
vector that names ports, slots, PIUs or targets is a set of them. What the
surroundings drive in the cycle is quantified in `Next`: it is a member of
`Inputs` (or of `Port`, `BOOLEAN`, ...), which contains what they can do and not
what they should do. Addresses and data are left out but for what routes them.

In `Barrier` the record `in` names, for the cycle, the halves and data that reach
each PIU, which targets take the head of their queue, which finish, which PIU has no
write left in the ebiu, and which responses are taken. `Serial` targets hold one
barrier (`ct_ciu_ctcq.v`); any other target may refuse what it is offered, also for
ever (`ct_ciu_snb_arb.v`), which includes one that never does (`ct_ciu_ncq.v`).
`sent` is the memory of the master (`ct_lsu_wmb_entry.v`), which sends a read half,
a write half and a beat of data for one barrier and waits for its answer.

In `NcqBarrier` the variable `issued` is a history: the outstanding transactions
in order, each with the barriers that must wait for it. The RTL has only counts.
`inOrder` is the discipline of the ebiu and the apb bridge: `Init` chooses it and
no step changes it, so one run covers returns in issue order and in any order.

In `NcqRoute` raq, waq, woq and wdq are sequences, which `ImplementsQueue` of
`CtFifo` justifies; dsq is hand-written in the RTL and modelled as a ring. A
queue entry of wdq carries the destination of its address as a history; the
routing never looks at it. `MayRead` and `MayWrite` do not count transactions
that wait in rdq or wbq, so the model allows a little more than the RTL.

`SabWrite` drives the modules of the arbiter and the queue with the very wires
of `ct_ciu_snb_arb.v`: an edge is an edge of `CtPrioWait`, of the register
`sab_aw_crt_entry`, of the queue `wd_sel` and of all write entries. Of an entry
it keeps whether it is idle, waits for data, or runs; a running entry may be
freed in any edge, which stands for its snoops, its memory access and its
dependences. The piu may answer `wd_sel` at once or later, as the read data of
a snoop goes first. In this composition the properties of `CtPrio` and `CtFifo`
are checked as well, since it drives both with all they may see.

**Tools.** One step is one call or one observable effect. `ReplayReceipt` has a
step for clearing, one for the look at the tools (`Resolve`, `ResolveFails`) and
one for the run of `replay.sh`, and tools may be replaced between any two: what
runs is whatever is then at the path that was resolved (`Runs`). `truth` is a
history: what really happened to a package; `swapped` and `missed` are histories
too, of the packages with a tool overwritten between look and run, and of those
whose crash is told where the wrapper does not look. `replay.sh` is any of
`Endings`; a crash is told on its output, is the last line of a log, or stands
in a log beside `replay_out`, where three packages write theirs. Logs may be
longer than what is read of one (`MaxLog > LogCap`).

`ApprovalGate` has a step for each call; pushes, reviews, dismissals and a change
of the base fall between them. In `ScrubClosure` a content is a number, its hash;
`text` says what it cites. Authors edit, rename, copy and remove files, add
citations, mend them, also by pointing them to another name, and keep old hashes
in records; the check is an operator on the two trees, as the tool is a function
of them. `ScratchPaths` has the committed and the working
tree, because the tool mixes them. `ComposedArea` reads the log line by line, as
the tool does, and `Total` sums as `composed_area_from_yosys_stat` does, from
below; `Flat`, what it is compared with, counts the instances of every module
from the top down.

In `PpaReceipt` a hash is the content that is hashed. The author changes
inputs, measures a leg (which writes its numbers and its key together), and
writes manifest, screen and receipt, each by an action of its own and in any
order. `last` and `ran` are histories: from which run the numbers of a leg are,
and which run each key was given to. `ReplayEnv` chooses a script of the forms
of one variable and runs it as the shell does, form by form.

In `PublicReceipts` a hash is a content too. The package holds four files that are
shipped, the candidate, the netlist it was mapped to, the design of the negative
controls and a log, and a log that a replay generates; `twin` is a file of the
repository with the name of the candidate. `claim` is the hash at each place where a
receipt names one, and `mapped` the `mapped_netlist_sha256` beside it where there is
one: of the candidate, the binding receipt and each axis. `cite` is a citation of
the candidate or of the generated log; `git` says whether the verifier can read the
history. Anybody may replay, whatever is cited. `sums` is SHA256SUMS, a finding on
the other files it lists is `pinned`, and a missing SHA256SUMS is `pinned = FALSE`.
`Passed` has one field for each check of `verify`; `Problems` keeps one finding for
each that fails, and a stale citation with its hashes, for it is what the baseline
lists (`_baseline_keys`). `half` says which authors are at work: those of the
package, those of a citation of it, or those of what the gate reads; a replay
happens beside both kinds of author of the package. `Init` chooses it and no step
changes it: `verify` concatenates what the checks of the package and of the
citations find, and nothing relates the two, so their product would add states and
no behaviour.

`Lineage` sees the history of a file as the sequence of its contents, one for
each commit of one line of history. A hop names a commit or a ref that moves.
`CitationBacked` and `LineageIsPermanent` quantify over every record of at most
two hops an author may invent, not only over those some step writes.

`ExportGate` adds the roster of the other repository, the working tree, the
committed tree and the denylist in each of them. A file is a set of tokens, one
for each severity and one for each name; the kinds of file are those the scan
tells apart. An entry of the list has a form: as generated, with capitals, or
with spaces around it.

## 3. Runs

All properties hold in the runs that are expected to pass; the numbers are
distinct states. An invariant with a name in `Inv` (`MatrixInv`, `FifoInv`,
`BarrierInv`, `CountsInv`, `CodesInv`, `PackageInv`, `GateInv`) is the type
invariant of its module together with the named parts that belong to one
question; each part has a comment of its own in the module.

| run | bounds | states | shows |
|---|---|---|---|
| `sab_write` | 2 PIUs and bmbif, 3 write entries, queue of 3 | 412 722 | the arbiter: order, one grant, no second pass, implements `LruArbiter`; the queue: ring, gating, implements `BoundedQueue`; a request finds the room it saw, data is asked for exactly once |
| `barrier` | 2 PIUs, a target that may refuse and a serial one, 2 kinds of barrier | 7 769 | one place per barrier and target, kid queues never overflow, kids agree, request bus stable, gating, implements `BarrierService`; every barrier is answered unless a target refuses it for ever |
| `ncq_barrier` | 2 PIUs, counters to 2, returns in order or in any order | 26 096 | counts exact, copies never above the counts, every barrier finishes; in order, a barrier covers what was before it |
| `ncq_route` | 2 PIUs, queues of 1, dsq of 5 | 499 440 | data follow the address, one path at a time, dsq never overflows |
| `replay` | 2 packages, one with a `replay_out` that cannot be removed, 2 tools in 2 places, up to 2 logs of up to twice what is read of one | 1 318 233 | exit codes are what happened but in two named cases, no stale output, success is earned |
| `approval` | 2 reviewers, 2 commits, 4 reviews | 1 567 072 | pass and refusal are earned |
| `tree_checks` | scrub: 3 files at the base, 4 names, 6 contents; scratch paths: 1 file of 2 lines, 2 handles | 526 255 | a clean scrub is closed, findings are real; scratch findings never grow |
| `package_checks` | 3 modules, up to 2 instances, every order; 2 contents of each input, 6 edits; scripts of up to 4 forms | 877 168 | the sum is the flat area; a package that passes compares runs of what it states, a key names one run; a script without findings never runs a substitute |
| `receipts` | 4 hashes; 3 edits of a package; 6 ways to cite and 3 commits; 4 edits of what the gate reads | 733 367 | what passes is bound and about one source and one netlist, a replay changes no finding but those of an abbreviated digest and of a citation of its log, cited files cannot vanish, known findings only disappear, names are reported in the commit |
| `lineage` | 3 contents and deletions of two files, 3 commits, any record of up to 2 hops | 243 360 | no invented lineage and every true one is accepted, and what is accepted stays so |

Why these bounds. An arbiter or a ring has no behaviour at more ports or slots
that it lacks at three, where a third port can come between two others and the
pointers wrap at no power of two; the theorems below remove the bounds for
every safety property. The queue
of `sab_write` is as deep as there are entries, as in the RTL. Two PIUs and one
target of each kind contain every pair that can race (a target that takes at
once does nothing that one which may refuse does not); four PIUs add PIUs that
do the same, and in the code only PIU 0 and 1 have counters in the ncq (2 and 3
are tied to 0, `ct_ciu_ncq.v:1612-1616`). Counters that stop at 2 reach their
limit, which 31 would hide. `ncq_route` takes queues of one entry because that
is the smallest at which each is both empty and full, and a dsq of exactly the
size that `DepthsAssumption` asks for, so that one entry fewer would overflow:
in the RTL the sum is 4 * 3 + 2 = 14 of 16. Two packages have an earlier and a
later one, which is all that `--all` distinguishes; a log that is twice as long
as what is read of it has its last line beyond, and the second of two logs is
read or not depending on the first (`Ceiling`). In `receipts` the four hashes are
those of the four files of the package; three commits
have room for a lineage of two hops, one of which can be left out, and `lineage`
has the three contents that takes (the other two kinds of author rest there,
and each state is asked about some two hundred records of either file); four edits
are a name that joins the roster, a list that is made anew, a hand that edits
it, and a commit (a name in a text is a fifth, and is reached from a name that
was in the roster from the start). The two parts of `tree_checks` share no state,
as those of `package_checks`. In `package_checks` six edits are a change of
an input, the two measurements and the three files that must follow. The three
parts of that run share no state; each runs while the other two rest.
`MaxReviews` is 4, so that two reviewers approve and both change their mind.

In the passing runs of some tools the bounds also state conditions under which
the promise holds: in `approval` the reviews fit on one page and no push brings
an earlier head back; in `tree_checks` a scrub changes a file at most once. Other
conditions are part of the properties, which except by name what the code gets
wrong (`missed`, `swapped` and `Stuck` in `ReplayReceipt`, an old content that
lives on under another name in `FindingsAreReal`, a history that cannot be read
in `EvidenceStands`); section 6 tells what TLC finds when the exception is taken
out. Two runs show what the code does that its documentation does not allow.

| violated run | drops | finds |
|---|---|---|
| `replay_no_policy` | nothing: the policy file may be missing | the wrapper exits with 1, "verdict red", and nothing was replayed |
| `approval_page` | reviews fill more than a page | a withdrawn approval counts |

`PROJECT.json` quotes the sentences these contradict. Every property of a
passing run has a mutant: a wrong variant of one definition, written above it in
its module, with which TLC finds the property violated.

Deadlock is checked but for `tree_checks` (an author may be done),
`package_checks` (the log and the script end, the edits are bounded) and
`receipts` and `lineage` (the edits and commits are bounded).

### Fairness

`barrier` assumes weak fairness of the clock; that a master sends the rest
of a barrier it has begun; that a target finishes what it took; that the writes
of a PIU drain out of the ebiu, which were sent before the barrier; that
responses are taken; and that a serial target takes a barrier it is offered and
has room for, as the ctcq does in every idle state of its machine
(`ct_ciu_ctcq.v:619`). All of it is weak: the wire stays up until it is answered.
Nothing is assumed of when another target takes a barrier, because the snoop
buffer may withhold the grant and move its priority on all the same
(`ct_ciu_snb_arb.v:1282-1290`). `BarrierAnswered` therefore promises an answer
unless such a target is offered one and the same barrier for ever and refuses it:
what is left to show is that neither the other PIUs, nor the kids, nor the
serial targets keep a barrier from its answer. `ncq_barrier` assumes that for each
PIU and channel a return is taken again and again while one is due; it assumes
nothing of issues, so other transactions may be issued for ever.

The fairness sets are conditions on inputs, `SomeEdge(Wish)`: an edge in which
the wish comes true. They never force two blocks to move in different cycles.

## 4. Proofs

Every safety property and action property of the passing runs is a theorem, for
all values of the constants that meet the named assumptions; so are the
refinements of the network, of the arbiter and of the queue. Each
`Spec => []Inv` goes through an inductive invariant, named below, of which the
proof has one step per action.

**`SeqLemmas`** says what the proofs need of sequences: how appending, taking
the head and removing an item change where a value stands (`Places`, `Marks`) and
how often; when two concatenated rows stay equal as items move along
(`RowStep`). The theorems of the library about induction take an operator, which
no prover here can instantiate; `Least` and `Upward` say the same about sets of
naturals: a set that is not empty has a least member, and one that is closed
upward step by step from a member holds all that is above it. `SumStep` gives
the fold of the community modules its recursion: a sum is a member and the sum of
the others. From it follow `SumLinear`, `SumPart`, `SumRenamed`, `SumExchange`
and `TopDown`: in a graph without cycles, what the top is worth, added up from
below, is what the nodes are worth by themselves, each as often as it is reached.
`FlattenIs` says the same of concatenations: a row of sequences joined from its
first one on is the row joined from its last one on, which is how a log is read.

**`CtPrioProofs`**, for any number of ports (`NumAssumption`).

- `MatrixIsOrder`, `MatrixInvariant`: `Spec => []MatrixInv`. The order is
  inductive together with the type once one knows that at most one port is
  consumed in a cycle, which an order gives (`ClrBusOneHot`): two granted ports
  would have to outrank each other. `NextPrioOrder` shows that moving one port
  behind all others keeps an order, `OrderGivesWinner` that a non-empty set of
  requesters has a least member, the only one granted (`AlwaysOneGrant`).
- `BoundedOvertaking`: `WaitSpec => []NoSecondPass`. The inductive invariant is
  `ServedIsBehind`, every port served while i waits is ranked behind i; without
  it `NoSecondPass` says nothing of the next cycle. What is counted are turns,
  consumptions by `clr`; where `clr` does not wait for the grant, as at the
  snoop buffer, a port may spend its turns unserved.
- `MatrixIsLru`: `Spec => ImplementsLru`, the refinement of `LruArbiter`. The
  place of a port in the abstract queue is the number of ports ahead of it
  (`AheadIsRank`); `MovesToEnd` shows that a consumed port goes behind all, and
  all that were behind it move up by one.

**`CtFifoProofs`**, for any depth and any data (`DepthAssumption`,
`DataAssumption`).

- `RingAlwaysConsistent`, `FifoInvariant`: `FifoSpec => []FifoInv`; pointers and
  valid bits form a ring, by the cases of create and pop and of which pointer is
  ahead. `Legal`, how the instances drive the queue, is needed: creating into a
  full ring breaks it.
- `FifoIsQueue`: `FifoSpec => ImplementsQueue`, the refinement of `BoundedQueue`.
  `CountStep` says how the number of entries changes, `ContentsStep` that the
  contents after the edge are those of put, take and both.
- `FifoGating`: while a clock enable is off, the registers behind it would have
  kept their values.

**`SabWriteProofs`**, for any number of ports and write entries, with `wd_sel` at
least as deep as there are entries (`WdepthAssumption`, `SelAssumption`).
`SabIInv` has at its heart `SelAgrees`: the items of `wd_sel` are as many as the
entries whose data was asked for and not taken (`Asked`), for each port and in
all. From this follow `RoomIsFound` (`CreateFindsRoom`: the entry that is about
to be created is not one of the `Asked`, so one place is left), and
`AskedMeansAwaited`. As the snoop buffer drives `ct_prio` and `ct_fifo` legally,
their theorems carry over (`SabUsesQueue`, `SabOvertaking`); the second is about
turns and says nothing of service (section 6).

**`BarrierProofs`**, for any number of PIUs and any targets (`NPIUAssumption`,
`TargetAssumption`, `NarrowAssumption`). `BarrierIInv` is the type and four
parts: `KidsInv` (every kid has the same order, and a ring), `PhaseInv` (what the
state of a PIU says about its bits), `OwnEntries` (an entry belongs to one PIU, no
two to the same one) and `Places` (a barrier that was granted is, for each
target, in exactly one of queue, target and answered bits). `Places` is what
makes it work: a PIU has at most one entry per queue, so a full queue leaves
nobody to ask, and nobody needs to look at full. It gives `BarriersAreKept`,
`KidsAlwaysAgree`, `BarrierGating` (the gates of the merging buffers, of the
arbiters of the kids and of their queues), `BusIsStable`, and the refinement
`NetworkImplementsService`, in which an edge maps to a step of each PIU at once.

**`NcqRouteProofs`**, for any number of PIUs and any depths with room in dsq
(`DepthsAssumption`). `RouteIInv` adds to the type `PathInv` (the bridge and
its two flags), `OrderInv` and `CountInv`. `OrderInv` compares two rows: the
destinations in dsq followed by those of the addresses that wait, and the
destinations of the data followed by those of the addresses without data, are
the same sequence. Hence `DataFindsItsPath`. `CountInv` relates the writes of
a PIU without data to its counter `sid`, which bounds what dsq can hold
(`DsqHasRoom`). `PathsExclude` is `PathInv`.

**`NcqBarrierProofs`**, for any number of PIUs and any limit of the counters
(`CapAssumption`). `NcqIInv` adds to the counts `TagInv`: where returns come in
order, those that an open barrier waits for are the oldest of those its counter
counts, as many as the counter says. `CountersAreExact` and
`FinishedBarrierCovers` follow.

**`ToolProofs`**, a part for each tool.

- The receipt contract (`InputsAssumption`): `PassAlwaysComparable` and
  `KeyAlwaysNamesRun` by `KeysOfRuns`, the key of each leg, and of each run ever
  made, is the one computed from the inputs of that run. It is needed because a
  pass looks only at the keys that are there now.
- The replay environment, for scripts of any length: `ScriptNeverSubstitutes`.
  `EnvIInv` says what the forms that were run leave in the variable.
- The approval gate, for any reviewers and commits: `PassAlwaysEarned` and
  `RefusalAlwaysDue`, by `ReviewInv`, where no push brings an earlier head back
  (`~Rewind`) and the reviews fit on one page (`MaxReviews <= PerPage`): without
  either TLC finds a pass that is not earned.
- The scratch-path convention: `FindingsNeverRegrow`, by `BaselineInv`, the baseline
  of a tree holds nothing that was not accepted.
- The hash closure, for any number of files and names, whatever citations are added,
  mended, pointed to other names or recorded: `CleanAlwaysClosed` where a scrub
  changes each file once (`WriteOnce`), and `FindingsAlwaysReal` without that
  condition: a closed tree gets a finding only if a file was changed whose old
  content HEAD has under another name. `ScrubInv` says that a text cites only hashes
  that its files had, and, under `WriteOnce`, which of them it may still cite after
  an edit (`AfterTheEdit`).
- The receipts, for any hashes, citations, histories of any length and any number of
  edits and replays (`HashAssumption`, `BoundsAssumption`, `PublishedAssumption`):
  `PackageAlwaysBound` (one source, one netlist, another source for the negative
  control; how they come from each other is left to the replay),
  `AcceptedNeverRegrow`, `CitationAlwaysBacked`, `LineageAlwaysPermanent`, and,
  where git can read the history, `HonestAlwaysAccepted` and `EvidenceAlwaysStands`
  (the latter also without, but for a bare key). `ReplayAlwaysKeepsVerdict` goes by
  `ReplayLeavesOthers`, what a replay leaves of a citation of the candidate, and
  `ReplayAnswers`, what it makes of a citation of the log it writes. `ReceiptsInv`
  ties the package, the histories (`Commits`, a content of each file for each
  commit) and the baseline (`Excuses`) together. That an honest lineage of any
  length is accepted goes by `Upward` over its changes (`ChangesUpto`).
- The export gate (`TierAssumption`): `GateAlwaysReports`, by `ListInv` (`ListStart`,
  `ListStep`): a list that carries the stamp of a roster (`Stamped`) has the
  entries of that roster.
- The replay wrapper (`ReplayAssumption`), for logs of any length and tools that
  come and go at any time: `CodesAlwaysTrue`, `OutputNeverStale` and
  `ZeroAlwaysEarned`. What they except is part of their statements: packages
  whose `replay_out` cannot be removed (not in the last), a crash told where
  nobody looks (only in the first), a tool overwritten between look and run.
  `ReplayInv` bounds every code by that of the invocation, and says that a
  package which is to be replayed has been cleared and that the resolved paths
  are those of pinned tools or of tools in `swapped`.
- The area of a composed design, for any number of modules, counts, areas and
  any order of the sections (`AreaAssumption`): `AreaAlwaysFlat`. `AreaInv` says
  what the table holds already by what is left of the log (`Between`, `Within`
  and behind its sections, `After`): all sections that were read are in it as
  `EntryOf` has them, the one that is being read as far as its lines went. When
  nothing is left the table is that of the design (`Parsed`), `TotalIs` gives the
  recursion of the total its equations, and `TopDown` turns them into the count
  of instances from the top (`TotalIsFlat`).

A replay does change verdicts, and the proof of `ReplayKeepsVerdict` shows
exactly which. An abbreviated digest in a receipt is looked for in whatever file
is there, so the log of a first replay can settle it and that of a second one
bring it back: edit the log, take it off SHA256SUMS, replay with the digest,
replay without it. A citation of the log itself, strict, is a finding before the
replay and may be settled after it; a bare key is no citation before it and may be
stale after it. All other findings stay, and a first replay adds none but that
its log is cited by another hash.

Only model-checked:

- liveness, `BarrierAnswered` and `BarrierFinishes`, under the fairness of
  section 3: `ENABLED` and fairness are beyond the provers;
- the two runs that find a violation.

## 5. Plan

1. Done: the arbiter and the queue with their abstract specifications; the
   barrier network and the write half of the snoop buffer composed of them; the
   ncq; all tools that have a state or an order to get wrong; the proofs of all
   their safety properties.
2. Next, RTL: the dependences of a snoop buffer entry and its read half, the
   sync machine of the ctcq, the no_op counters of the ebiu, the plic (claim and
   complete of an interrupt), the reorder buffer and free lists of the rtu.
   `Barrier` then takes the ctcq as a module in place of a choice.
3. Proofs: of each new component with its inductive invariant.

## 6. Not modelled, and what reading found

- The pipelines of the core, the L2 cache and the debug unit: their state is far
  beyond explicit-state checking, and their protocols need the snoop buffer
  first. Test benches and third-party peripherals are not the program.
- `check_public_readme.py` and the four `bridge_passivity_check.py` are stateless
  comparisons of texts: one pass, one actor, nothing that can come in another
  order. `rewrite_plic_granu_overlay` of `full_top_ppa_harness.py` replaces one
  line of a text.
- Text: regular expressions, JSON syntax, hashes and the form of messages are
  abstracted to what they tell apart. That a signature in the output is a crash
  is taken as true in `ReplayReceipt`; "No such file or directory" may also come
  from a check that misses a file, and is then reported as a tool error.
- `NcqRoute` takes reads as single beats: `ncq_ar_ebiu_ostd_cnt` counts a
  return, not a last beat (`ct_ciu_ncq.v:813-821`), and `ncq_piu_rbus` always
  says length 0. `ciu_so_ostd_dis` is covered by an ebiu that is not ready.
- `NcqBarrier` counts returns and not transactions (`ct_ciu_ncq.v:1620,1649`):
  when the ebiu answers out of order, a shareable barrier can be reported before
  an older transaction of the other PIU has returned, because a younger one did.
  No document of the repository says that this may not happen, and the run
  therefore states the order as its assumption.
- `ct_ciu_snb_arb.v:1282-1290` moves the priority of write requests on whenever
  there is one, also when a full buffer withholds the grant. A requester can so
  lose its turn again and again, and no property says that it is served:
  `NoSecondPass` counts turns, and `BarrierAnswered` excepts a barrier that such a
  target refuses for ever.
- `ct_ciu_snb_arb.v:1435` puts no item into `wd_sel` for a barrier or an evict,
  and the entry decides by itself, from its own bits, whether it waits for data.
  `AskedIsAwaited` is the agreement of the two.
- `ct_ciu_apbif.v:276-278,308` serves a read before a write; a stream of apb
  reads holds an apb write back.
- `gated_clk_cell` passes its clock through in this RTL, so simulation never
  exercises the enables; the `GatingTransparent` properties do.
- `replay_public_receipt.py`: OpenSTA is taken from `PATH` when nothing else
  names it (the version is checked); `parser.error` exits with 2, the code of a
  crashed tool; a package without `replay.sh` returns 3 and keeps its
  `replay_out` (`:313`). The properties of `replay` except three things by name,
  and TLC refutes them without each exception. Without `missed`: a crash at the
  end of a log that is longer than what is read of it (`:305`), in a log behind
  the ceiling, or in a log beside `replay_out` becomes a red verdict, against the
  comment at `:368-372`. Without `swapped`: a tool replaced between the look at it
  (`:330`) and its use (`:348`) runs, and nothing sees it. With `Stuck` packages
  included: the output of an earlier success survives a provisioning error,
  because errors of `rmtree` are ignored (`:324`, against `:319`). `--all`
  looks for the tools of a package when its turn comes, so a missing tool is
  reported after other packages were replayed (`:430`, against `:16`).
- `check_stacked_pr_approvals.py` drops the reviews of other commits before it
  takes the latest one of a reviewer. With `Rewind = TRUE` the model finds a
  reviewer who approved a commit, asked for changes on a later one and counts
  again when the first commit is pushed again (`:86`, against `:68`).
- `check_scrub_hash_closure.py` knows only the hashes of the base; one that a
  file had between two edits of a scrub may survive. It looks for a hash without
  the name beside it. So a file that is copied and then edited leaves a finding on
  a citation that was pointed to the copy, although the tree is closed and the
  comments at `:181-183` and `:194-198` have it otherwise; and two files of the base
  with the same bytes share a hash, so that the edit of one turns true citations
  of the other into findings. `FindingsAreReal` excepts these two.
- `check_scratch_path_convention.py` takes names from the committed tree and
  bytes from the working tree, so in a tree that was repaired and not committed
  the check is green although the committed tree is not (`:149`, against `:117`).
- `check_scratch_path_convention.py` binds an entry to a line number, so an
  unrelated line above makes the entry an orphan and the finding new: red, never
  green.
- `full_top_ppa_harness.py`: the validator compares the files of a package with
  each other and never looks at the sources again (`:368`), so `PassIsComparable`
  speaks of the inputs the package states; the hashes in `replay.sh` are what
  ties them to the tree. A receipt as `named_partial_receipt` makes it (`:144`)
  has no digest of the sources and does not pass next to a manifest.
- `check_replay_env.py` looks for `$VAR` and the forms with `?`, `-` and `=`; a
  plain assignment `VAR=tool` is none of them. Where a guard stands does not
  matter to the check, and `NeverSubstituted` shows that it need not.
- `verify_public_receipts.py`: a git that fails leaves no history (`:720-724`),
  and the bare key of a deleted file is then no citation any more, against
  `:706-709`; `EvidenceStands` excepts it. That the mapped netlist is mapped from the
  candidate, and that the negative control is not that netlist, no check says
  (`:398` compares it with the candidate): both are left to the replay.
  `gold_sha256` (`:293`) must be bound and is one more such hash. A replay that
  writes JSON with citations of its own is not modelled. A commit is a number,
  so abbreviated hashes and branches with a hexadecimal name, which `:952` lets
  through, are outside. Hops may skip a detour that comes back to the same
  content (`:1081` asks a hop only for the content before it);
  `CitationBacked` demands completeness of histories without one. A bare key that
  fits a file of the package and another of the repository is reported as a
  deleted file, or is no citation if neither was ever committed (`:857-877`). An
  entry of the baseline without one of its keys raises `KeyError` and ends with
  exit code 1, where the docstring wants 2 for a failure of the tool (`:1344`,
  against `:1330`). A relative `--artifact-root` ends a clean verification with
  `ValueError` (`:1442`). Logs of a replay that are committed are neither bound
  nor scanned (`:82-100`, `:177-203`). A lineage needs the history of the
  branch: after a squash its commits are gone, and the record is refused.
- `export_safety_gate.py` scans a commit and runs the receipt verifier on the
  working tree (`:487`, against `:4-9` for the scan), so one verdict may be about
  two trees. A verifier that gave no verdict (2) becomes a finding (1, `:495`). A
  list that is stamped but old passes, which the comment at `:289` says. A file
  with a NUL byte is skipped (`:444`).
