----------------------------- MODULE ToolProofs -----------------------------
(***************************************************************************)
(* The python tools, for all contents, reviewers, files and scripts: the    *)
(* receipt of a bounded package and its cache keys, the replay environment, *)
(* the approval gate, the scratch-path convention, the hash closure of a    *)
(* scrub, the verifier of published receipts, the export safety gate, the   *)
(* replay wrapper and the area of a composed design.  Each theorem is of    *)
(* one tool.                                                                *)
(***************************************************************************)
EXTENDS ComposedArea, PpaReceipt, ReplayEnv, ApprovalGate, ScratchPaths, ScrubClosure, ExportGate,
        ReplayReceipt, SeqLemmas

-----------------------------------------------------------------------------
(* The key of a run on the inputs in, with overlay o in the manifest. *)
KeyOf(mode, in, o) ==
  CacheKey(mode, [arb |-> in.arb, rest |-> in.rest, overlay |-> o], in.screen, in.tool,
           OverlayOf(mode, in.overlay))

KeyedBy(mode, key, run) == \E in, o : key = KeyOf(mode, in, o) /\ run = Run(mode, in)

(* The key of a leg is that of its last run, and so is that of every run    *)
(* that was ever made: what is measured and its key are written together.   *)
KeysOfRuns ==
  /\ DOMAIN keys = Mode /\ DOMAIN last = Mode
  /\ \A mode \in Mode : KeyedBy(mode, keys[mode], last[mode])
  /\ \A r \in ran : \E mode \in Mode : KeyedBy(mode, r.key, r.run)

(* Equal keys are those of equal runs: a key holds all that its leg is      *)
(* built from (cache_key, source_manifest_sha256).                          *)
LEMMA KeyDeterminesRun ==
  \A m1, m2 \in Mode : \A in1, in2, o1, o2 :
    KeyOf(m1, in1, o1) = KeyOf(m2, in2, o2) => Run(m1, in1) = Run(m2, in2)
<1> SUFFICES ASSUME NEW m1 \in Mode, NEW m2 \in Mode, NEW in1, NEW in2, NEW o1, NEW o2,
                    KeyOf(m1, in1, o1) = KeyOf(m2, in2, o2)
             PROVE  Run(m1, in1) = Run(m2, in2)
  OBVIOUS
<1> DEFINE k1 == KeyOf(m1, in1, o1)
           k2 == KeyOf(m2, in2, o2)
<1>1. /\ k1.mode = m1 /\ k1.source = [arb |-> in1.arb, rest |-> in1.rest, overlay |-> o1]
      /\ k1.screen = in1.screen /\ k1.tool = in1.tool /\ k1.overlay = OverlayOf(m1, in1.overlay)
  BY DEF KeyOf, CacheKey
<1>2. /\ k2.mode = m2 /\ k2.source = [arb |-> in2.arb, rest |-> in2.rest, overlay |-> o2]
      /\ k2.screen = in2.screen /\ k2.tool = in2.tool /\ k2.overlay = OverlayOf(m2, in2.overlay)
  BY DEF KeyOf, CacheKey
<1>3. k1 = k2
  OBVIOUS
<1> HIDE DEF k1, k2
<1>4. m1 = m2 /\ in1.screen = in2.screen /\ in1.tool = in2.tool
  BY <1>1, <1>2, <1>3
<1>5. [arb |-> in1.arb, rest |-> in1.rest, overlay |-> o1].arb = in1.arb
      /\ [arb |-> in1.arb, rest |-> in1.rest, overlay |-> o1].rest = in1.rest
  OBVIOUS
<1>6. in1.arb = in2.arb /\ in1.rest = in2.rest
  BY <1>1, <1>2, <1>3, <1>5
<1>7. m1 = "gate" => in1.overlay = in2.overlay
  BY <1>1, <1>2, <1>3, <1>4 DEF OverlayOf
<1> QED
  BY <1>4, <1>6, <1>7 DEF Run, Mode

(* A run and its key, on the inputs of the world. *)
LEMMA MeasuredIsKeyed ==
  ASSUME NEW mode \in Mode, NEW overlay
  PROVE  KeyedBy(mode, CacheKey(mode, SourceManifest(overlay).digest, world["screen"], world["tool"],
                                OverlayOf(mode, world["overlay"])),
                 Run(mode, world))
<1>1. SourceManifest(overlay).digest = [arb |-> world.arb, rest |-> world.rest, overlay |-> overlay]
  BY DEF SourceManifest, SourceManifestSha
<1> QED
  BY <1>1 DEF KeyedBy, KeyOf

(* The published package has the keys of its two runs.                      *)
LEMMA KeysOfRunsInit == PpaInit => KeysOfRuns
<1> SUFFICES ASSUME PpaInit PROVE KeysOfRuns
  OBVIOUS
<1>1. \A mode \in Mode : KeyedBy(mode, keys[mode], last[mode])
  <2> SUFFICES ASSUME NEW mode \in Mode PROVE KeyedBy(mode, keys[mode], last[mode])
    OBVIOUS
  <2>1. keys[mode] = CacheKey(mode, SourceManifest(Published).digest, world["screen"], world["tool"],
                              OverlayOf(mode, world["overlay"]))
    BY DEF PpaInit, Input
  <2>2. last[mode] = Run(mode, world)
    BY DEF PpaInit
  <2> QED
    BY <2>1, <2>2, MeasuredIsKeyed
<1>2. \A r \in ran : \E mode \in Mode : KeyedBy(mode, r.key, r.run)
  <2> SUFFICES ASSUME NEW r \in ran PROVE \E mode \in Mode : KeyedBy(mode, r.key, r.run)
    OBVIOUS
  <2>1. PICK mode \in Mode : r = [key |-> keys[mode], run |-> last[mode]]
    BY DEF PpaInit
  <2>2. r.key = keys[mode] /\ r.run = last[mode]
    BY <2>1
  <2> QED
    BY <1>1, <2>2
<1> QED
  BY <1>1, <1>2 DEF KeysOfRuns, PpaInit

(* A measurement adds a run with its key; nothing else touches either.      *)
LEMMA KeysOfRunsNext == KeysOfRuns /\ [PpaNext]_ppaVars => KeysOfRuns'
<1> SUFFICES ASSUME KeysOfRuns, [PpaNext]_ppaVars PROVE KeysOfRuns'
  OBVIOUS
<1>1. ASSUME NEW mode \in Mode, NEW overlay, NEW outcome, Measure(mode, overlay, outcome)
      PROVE  KeysOfRuns'
  <2> DEFINE key == CacheKey(mode, SourceManifest(overlay).digest, world["screen"], world["tool"],
                             OverlayOf(mode, world["overlay"]))
             run == Run(mode, world)
  <2>1. KeyedBy(mode, key, run)
    BY MeasuredIsKeyed
  <2>2. /\ keys' = [keys EXCEPT ![mode] = key] /\ last' = [last EXCEPT ![mode] = run]
        /\ ran' = ran \cup {[key |-> key, run |-> run]}
    BY <1>1 DEF Measure
  <2> HIDE DEF key, run
  <2>3. \A m \in Mode : KeyedBy(m, keys'[m], last'[m])
    BY <2>1, <2>2 DEF KeysOfRuns
  <2>4. \A r \in ran' : \E m \in Mode : KeyedBy(m, r.key, r.run)
    BY <2>1, <2>2 DEF KeysOfRuns
  <2>5. DOMAIN keys' = Mode /\ DOMAIN last' = Mode
    BY <2>2 DEF KeysOfRuns
  <2> QED
    BY <2>3, <2>4, <2>5 DEF KeysOfRuns, KeyedBy, KeyOf
<1>2. ASSUME UNCHANGED <<keys, last, ran>> PROVE KeysOfRuns'
  BY <1>2 DEF KeysOfRuns, KeyedBy, KeyOf
<1>3. CASE PpaNext
  BY <1>1, <1>2, <1>3 DEF PpaNext, ChangeInput, WriteManifest, AmendManifest, WriteScreen, WriteReceipt, NamedPartial
<1>4. CASE UNCHANGED ppaVars
  BY <1>2, <1>4 DEF ppaVars
<1> QED
  BY <1>3, <1>4

(* The invariant both theorems rest on.                                      *)
LEMMA KeysOfRunsAlways == PpaSpec => []KeysOfRuns
BY KeysOfRunsInit, KeysOfRunsNext, PTL DEF PpaSpec

(* Both legs of a package that passes were last run on what it states.      *)
THEOREM PassAlwaysComparable == PpaSpec => []PassIsComparable
<1>1. KeysOfRuns => PassIsComparable
  <2> SUFFICES ASSUME KeysOfRuns, Pass, NEW mode \in Mode PROVE last[mode] = Run(mode, Stated)
    BY DEF PassIsComparable
  <2>1. PICK in, o : keys[mode] = KeyOf(mode, in, o) /\ last[mode] = Run(mode, in)
    BY DEF KeysOfRuns, KeyedBy
  <2>2. /\ Stated.arb = manifest.arb /\ Stated.rest = manifest.rest
        /\ Stated.overlay = ppaReceipt.overlay /\ Stated.screen = screen /\ Stated.tool = ppaReceipt.tool
    BY DEF Stated
  <2>3. keys[mode] = KeyOf(mode, Stated, manifest.overlay)
    BY <2>2 DEF Pass, KeyOf, SourceManifestSha
  <2>4. KeyOf(mode, in, o) = KeyOf(mode, Stated, manifest.overlay)
    BY <2>1, <2>3
  <2>5. Run(mode, in) = Run(mode, Stated)
    BY <2>4, KeyDeterminesRun
  <2> QED
    BY <2>1, <2>5
<1> QED
  BY <1>1, KeysOfRunsAlways, PTL

(* Two runs that were given one key are the same run.                       *)
THEOREM KeyAlwaysNamesRun == PpaSpec => []KeyNamesRun
<1>1. KeysOfRuns => KeyNamesRun
  <2> SUFFICES ASSUME KeysOfRuns, NEW a \in ran, NEW b \in ran, a.key = b.key PROVE a.run = b.run
    BY DEF KeyNamesRun
  <2>1. PICK m1 \in Mode :
         \E in, o : a.key = KeyOf(m1, in, o) /\ a.run = Run(m1, in)
    BY DEF KeysOfRuns, KeyedBy
  <2>1a. PICK in1, o1 : a.key = KeyOf(m1, in1, o1) /\ a.run = Run(m1, in1)
    BY <2>1
  <2>2. PICK m2 \in Mode :
         \E in, o : b.key = KeyOf(m2, in, o) /\ b.run = Run(m2, in)
    BY DEF KeysOfRuns, KeyedBy
  <2>2a. PICK in2, o2 : b.key = KeyOf(m2, in2, o2) /\ b.run = Run(m2, in2)
    BY <2>2
  <2>3. KeyOf(m1, in1, o1) = KeyOf(m2, in2, o2)
    BY <2>1a, <2>2a
  <2>4. Run(m1, in1) = Run(m2, in2)
    BY <2>1, <2>2, <2>3, KeyDeterminesRun
  <2> QED
    BY <2>1a, <2>2a, <2>4
<1> QED
  BY <1>1, KeysOfRunsAlways, PTL

-----------------------------------------------------------------------------
(* What is left of a script is forms of the script, and a script that fails *)
(* is left at once.  Where no form has a default, the tool is what the      *)
(* caller gave, and a guard that nothing was given for is still to come.    *)
EnvIInv ==
  /\ shText \in Seq(Form) /\ rest \in Seq(Form) /\ failed \in BOOLEAN
  /\ failed => rest = << >>
  /\ \A i \in 1 .. Len(rest) : NamesForm({rest[i]})
  /\ ~Defaulted => /\ "substituted" \notin tools
                   /\ value = IF provided THEN "pinned" ELSE "unset"
  /\ ~Defaulted /\ Required /\ ~provided /\ ~failed =>
       \E i \in 1 .. Len(rest) : rest[i] = "guard"

LEMMA EnvStart == EnvInit => EnvIInv
<1>. SUFFICES ASSUME EnvInit PROVE EnvIInv
  OBVIOUS
<1>1. shText \in Seq(Form) /\ rest = shText /\ DOMAIN shText = 1 .. Len(shText) /\ Len(shText) \in Nat
  BY FormsAssumption, LenProperties DEF EnvInit
<1>2. \A i \in 1 .. Len(rest) : NamesForm({rest[i]})
  BY <1>1 DEF NamesForm
<1>3. Required => \E i \in 1 .. Len(rest) : rest[i] = "guard"
  BY <1>1 DEF Required, NamesForm
<1>. QED BY <1>1, <1>2, <1>3 DEF EnvIInv, EnvInit

LEMMA EnvStep == EnvIInv /\ [EnvNext]_envVars => EnvIInv'
<1>. SUFFICES ASSUME EnvIInv, [EnvNext]_envVars PROVE EnvIInv'
  OBVIOUS
<1>1. CASE UNCHANGED envVars
  BY <1>1 DEF envVars, EnvIInv, NamesForm, Defaulted, Required
<1>2. CASE Shell
  <2>. DEFINE f == Head(rest)
              v == IF value = "unset" /\ f \in {"default", "assign"} THEN "substituted" ELSE value
              fails == value = "unset" /\ (f = "guard" \/ (f = "use" /\ nounset))
  <2>1. /\ rest # << >> /\ failed' = fails
        /\ rest' = IF fails THEN << >> ELSE Tail(rest)
        /\ value' = IF f = "assign" THEN v ELSE value
        /\ tools' = IF f = "guard" \/ fails THEN tools ELSE tools \cup {v}
        /\ UNCHANGED <<shText, nounset, provided>>
    BY <1>2 DEF Shell
  <2>2. /\ rest \in Seq(Form) /\ shText \in Seq(Form) /\ ~failed
        /\ \A i \in 1 .. Len(rest) : NamesForm({rest[i]})
    BY <2>1 DEF EnvIInv
  <2>3. /\ Len(rest) \in Nat \ {0} /\ f = rest[1] /\ f \in Form
        /\ Tail(rest) \in Seq(Form) /\ Len(Tail(rest)) = Len(rest) - 1
        /\ \A i \in 1 .. Len(rest) - 1 : Tail(rest)[i] = rest[i + 1]
    BY <2>1, <2>2, EmptySeq, HeadTailProperties, LenProperties
  <2>4. NamesForm({f})
    BY <2>2, <2>3
  <2>5. \A forms : NamesForm(forms)' <=> NamesForm(forms)
    BY <2>1 DEF NamesForm
  <2>6. (Defaulted' <=> Defaulted) /\ (Required' <=> Required)
    BY <2>1 DEF Defaulted, Required, NamesForm
  <2>7. ~Defaulted => f \notin {"default", "assign"}
    BY <2>4 DEF Defaulted, NamesForm
  <2>. HIDE DEF f
  <2>8. rest' \in Seq(Form) /\ failed' \in BOOLEAN /\ (failed' => rest' = << >>)
    BY <2>1, <2>3, EmptySeq
  <2>9. ASSUME NEW i \in 1 .. Len(rest') PROVE (\E k \in DOMAIN shText : shText[k] \in {rest'[i]})
    <3>1. CASE fails
      BY <2>1, <3>1
    <3>2. CASE ~fails
      <4>1. rest'[i] = rest[i + 1] /\ i + 1 \in 1 .. Len(rest)
        BY <2>1, <2>3, <3>2
      <4>. QED BY <2>1, <2>2, <4>1 DEF NamesForm
    <3>. QED BY <3>1, <3>2
  <2>10. ~Defaulted => /\ "substituted" \notin tools'
                       /\ value' = IF provided' THEN "pinned" ELSE "unset"
    <3>1. SUFFICES ASSUME ~Defaulted
                   PROVE  "substituted" \notin tools' /\ value' = IF provided' THEN "pinned" ELSE "unset"
      OBVIOUS
    <3>2. "substituted" \notin tools /\ value = IF provided THEN "pinned" ELSE "unset"
      BY <3>1 DEF EnvIInv
    <3>. QED BY <2>1, <2>7, <3>1, <3>2
  <2>11. ~Defaulted /\ Required /\ ~provided' /\ ~failed' =>
           \E i \in 1 .. Len(rest') : rest'[i] = "guard"
    <3>1. SUFFICES ASSUME ~Defaulted, Required, ~provided, ~fails
                   PROVE  \E i \in 1 .. Len(rest') : rest'[i] = "guard"
      BY <2>1
    <3>2. PICK i \in 1 .. Len(rest) : rest[i] = "guard"
      BY <2>2, <3>1 DEF EnvIInv
    <3>3. value = "unset"
      BY <3>1 DEF EnvIInv
    <3>4. i # 1
      BY <2>3, <3>1, <3>2, <3>3
    <3>5. i - 1 \in 1 .. Len(rest') /\ rest'[i - 1] = "guard"
      BY <2>1, <2>3, <3>1, <3>2, <3>4
    <3>. QED BY <3>5
  <2>12. (\A i \in 1 .. Len(rest) : NamesForm({rest[i]}))'
    BY <2>1, <2>9 DEF NamesForm
  <2>. QED BY <2>1, <2>2, <2>6, <2>8, <2>10, <2>11, <2>12 DEF EnvIInv
<1>. QED BY <1>1, <1>2 DEF EnvNext

(* A replay.sh that the gate has no finding for never runs a tool that was  *)
(* put in place of a pinned one, and fails if the tool it uses was not      *)
(* provided (check_replay_env.py:11-20).                                    *)
THEOREM ScriptNeverSubstitutes == EnvSpec => []NeverSubstituted
<1>1. EnvIInv => NeverSubstituted
  <2>. SUFFICES ASSUME EnvIInv, ~EnvFindings PROVE NeverSubstituted
    BY DEF NeverSubstituted
  <2>1. CASE Used
    BY <2>1, EmptySeq DEF EnvFindings, NeverSubstituted, EnvIInv
  <2>2. CASE ~Used
    <3>1. ~Defaulted
      BY <2>2 DEF Used, Defaulted, NamesForm, Form
    <3>. QED BY <2>2, <3>1 DEF NeverSubstituted, EnvIInv
  <2>. QED BY <2>1, <2>2
<1>. QED BY <1>1, EnvStart, EnvStep, PTL DEF EnvSpec

-----------------------------------------------------------------------------
(* The reviews of the head are the last ones: a head that is pushed is new, *)
(* and a review is of the head.                                             *)
Reviewed == [user : Reviewer, state : Position \cup {"COMMENTED", "DISMISSED"}, commit : Sha]

ReviewInv ==
  /\ reviews \in Seq(Reviewed) /\ Len(reviews) <= MaxReviews
  /\ headSha \in Sha /\ headSha \in seen
  /\ \A j \in 1 .. Len(reviews) : reviews[j].commit \in seen
  /\ \A i, j \in 1 .. Len(reviews) :
       i < j /\ reviews[i].commit = headSha => reviews[j].commit = headSha

LEMMA ReviewStart == ReviewInit => ReviewInv
<1>. SUFFICES ASSUME ReviewInit PROVE ReviewInv
  OBVIOUS
<1>1. reviews = << >> /\ headSha \in Sha /\ seen = {headSha} /\ Len(reviews) = 0
  BY DEF ReviewInit
<1>. QED BY <1>1, GateAssumption DEF ReviewInv

LEMMA ReviewStep == ~Rewind /\ ReviewInv /\ [ReviewNext]_reviewVars => ReviewInv'
<1>. SUFFICES ASSUME ~Rewind, ReviewInv, [ReviewNext]_reviewVars PROVE ReviewInv'
  OBVIOUS
<1>. USE DEF pull, check
<1>0. reviews \in Seq(Reviewed) /\ Len(reviews) \in Nat /\ DOMAIN reviews = 1 .. Len(reviews)
      /\ \A j \in 1 .. Len(reviews) : reviews[j] \in Reviewed
  BY LenProperties, ElementOfSeq DEF ReviewInv
<1>1. ASSUME UNCHANGED <<headSha, reviews, seen>> PROVE ReviewInv'
  BY <1>1 DEF ReviewInv, Reviewed, Position
<1>2. CASE Push
  <2>1. PICK c \in Sha \ {headSha} : c \notin seen /\ headSha' = c /\ seen' = seen \cup {c} /\ UNCHANGED reviews
    BY <1>2 DEF Push
  <2>2. \A j \in 1 .. Len(reviews) : reviews[j].commit \in seen /\ reviews[j].commit # c
    BY <2>1 DEF ReviewInv
  <2>3. reviews' = reviews /\ \A j \in 1 .. Len(reviews') : reviews'[j].commit # headSha'
    BY <2>1, <2>2
  <2>. QED BY <2>1, <2>2, <2>3 DEF ReviewInv, Reviewed, Position
<1>3. CASE Submit
  <2>1. PICK r \in Review : r.commit = headSha /\ reviews' = Append(reviews, r) /\ UNCHANGED <<headSha, seen>>
                               /\ Len(reviews) < MaxReviews
    BY <1>3 DEF Submit
  <2>2. r \in Reviewed
    BY DEF Review, Reviewed
  <2>3. /\ reviews' \in Seq(Reviewed) /\ Len(reviews') = Len(reviews) + 1
        /\ reviews'[Len(reviews) + 1] = r
        /\ \A j \in 1 .. Len(reviews) : reviews'[j] = reviews[j]
    BY <1>0, <2>1, <2>2, AppendProperties
  <2>4. Len(reviews') <= MaxReviews
    BY <1>0, <2>1, <2>3, GateAssumption
  <2>5. \A j \in 1 .. Len(reviews') : j = Len(reviews) + 1 \/ j \in 1 .. Len(reviews)
    BY <1>0, <2>3
  <2>6. headSha' \in Sha /\ headSha' \in seen' /\ \A j \in 1 .. Len(reviews') : reviews'[j].commit \in seen'
    BY <2>1, <2>3, <2>5 DEF ReviewInv
  <2>7. ASSUME NEW i \in 1 .. Len(reviews'), NEW j \in 1 .. Len(reviews'), i < j, reviews'[i].commit = headSha'
        PROVE  reviews'[j].commit = headSha'
    <3>1. CASE j = Len(reviews) + 1
      BY <2>1, <2>3, <3>1
    <3>2. CASE j # Len(reviews) + 1
      <4>1. j \in 1 .. Len(reviews) /\ i \in 1 .. Len(reviews)
        BY <1>0, <2>5, <2>7, <3>2
      <4>. QED BY <2>1, <2>3, <2>7, <4>1 DEF ReviewInv
    <3>. QED BY <3>1, <3>2
  <2>. QED BY <2>3, <2>4, <2>6, <2>7 DEF ReviewInv, Reviewed, Position
<1>4. CASE Dismiss
  <2>1. PICK d \in DOMAIN reviews :
          reviews' = [reviews EXCEPT ![d].state = "DISMISSED"] /\ UNCHANGED <<headSha, seen>>
    BY <1>4 DEF Dismiss
  <2>2. [reviews[d] EXCEPT !.state = "DISMISSED"] \in Reviewed
    BY <1>0 DEF Reviewed
  <2>3. reviews' = [j \in 1 .. Len(reviews) |->
                      IF j = d THEN [reviews[d] EXCEPT !.state = "DISMISSED"] ELSE reviews[j]]
    BY <1>0, <2>1
  <2>4. reviews' \in [1 .. Len(reviews) -> Reviewed]
    BY <1>0, <2>2, <2>3
  <2>5. reviews' \in Seq(Reviewed) /\ Len(reviews') = Len(reviews)
    BY <1>0, <2>4
  <2>6. \A j \in 1 .. Len(reviews) : reviews'[j].commit = reviews[j].commit
    BY <1>0, <2>3 DEF Reviewed
  <2>. QED BY <2>1, <2>5, <2>6 DEF ReviewInv, Reviewed, Position
<1>5. CASE Fails \/ ReadRepo \/ ReadPr \/ ReadReviews \/ Rerun \/ Retarget \/ UNCHANGED reviewVars
  BY <1>1, <1>5 DEF Fails, ReadRepo, ReadPr, ReadReviews, Rerun, Retarget, reviewVars
<1>. QED BY <1>2, <1>3, <1>4, <1>5 DEF ReviewNext

(* What is read of the reviews is all of them. *)
LEMMA PageIsAll ==
  ASSUME MaxReviews <= PerPage, ReviewInv
  PROVE  Page(reviews) = reviews
<1>1. reviews \in Seq(Reviewed) /\ Len(reviews) \in Nat /\ Len(reviews) <= PerPage
  BY LenProperties, GateAssumption DEF ReviewInv
<1>2. Page(reviews) = SubSeq(reviews, 1, Len(reviews))
  BY <1>1, GateAssumption DEF Page
<1>. QED BY <1>1, <1>2

(* The last position on the head is the last position. *)
LEMMA ApprovalsStand ==
  ASSUME ReviewInv
  PROVE  ApprovalsAtHead(reviews, headSha) = Standing
<1>0. Len(reviews) \in Nat /\ DOMAIN reviews = 1 .. Len(reviews)
      /\ \A j \in 1 .. Len(reviews) : reviews[j] \in Reviewed
  BY LenProperties, ElementOfSeq DEF ReviewInv
<1>1. ASSUME NEW u \in Reviewer, NEW j \in Said(reviews, u, headSha),
             reviews[j].state = "APPROVED", \A k \in Said(reviews, u, headSha) : k <= j
      PROVE  Stands(u)
  <2>1. j \in 1 .. Len(reviews) /\ reviews[j].user = u /\ reviews[j].commit = headSha
    BY <1>0 DEF Said
  <2>2. reviews[j] = [user |-> u, state |-> "APPROVED", commit |-> headSha]
    BY <1>0, <1>1, <2>1 DEF Reviewed
  <2>3. ASSUME NEW k \in j + 1 .. Len(reviews), reviews[k].user = u, reviews[k].state \in Position
        PROVE  FALSE
    <3>1. k \in 1 .. Len(reviews) /\ j < k
      BY <1>0, <2>1
    <3>2. reviews[k].commit = headSha
      BY <2>1, <3>1 DEF ReviewInv
    <3>3. k \in Said(reviews, u, headSha)
      BY <1>0, <2>3, <3>1, <3>2 DEF Said
    <3>. QED BY <1>1, <2>1, <3>1, <3>3
  <2>. QED BY <1>0, <2>1, <2>2, <2>3 DEF Stands
<1>2. ASSUME NEW u \in Reviewer, Stands(u)
      PROVE  \E j \in Said(reviews, u, headSha) :
               reviews[j].state = "APPROVED" /\ \A k \in Said(reviews, u, headSha) : k <= j
  <2>1. PICK j \in 1 .. Len(reviews) :
          /\ reviews[j] = [user |-> u, state |-> "APPROVED", commit |-> headSha]
          /\ \A k \in j + 1 .. Len(reviews) : reviews[k].user = u => reviews[k].state \notin Position
    BY <1>0, <1>2 DEF Stands
  <2>2. j \in Said(reviews, u, headSha) /\ reviews[j].state = "APPROVED"
    BY <1>0, <2>1 DEF Said, Position
  <2>3. ASSUME NEW k \in Said(reviews, u, headSha), ~(k <= j) PROVE FALSE
    <3>1. k \in 1 .. Len(reviews) /\ reviews[k].user = u /\ reviews[k].state \in Position
      BY <1>0 DEF Said
    <3>2. k \in j + 1 .. Len(reviews)
      BY <1>0, <2>1, <2>3, <3>1
    <3>. QED BY <2>1, <3>1, <3>2
  <2>. QED BY <2>2, <2>3
<1>. QED BY <1>1, <1>2 DEF ApprovalsAtHead, Standing

LEMMA StandingFinite ==
  ASSUME ReviewInv
  PROVE  Cardinality(Standing) \in Nat
<1>1. Len(reviews) \in Nat /\ DOMAIN reviews = 1 .. Len(reviews)
  BY LenProperties DEF ReviewInv
<1>. DEFINE R == 1 .. Len(reviews)
            who == [j \in R |-> reviews[j].user]
            T == {who[j] : j \in R}
<1>2. IsFiniteSet(T)
  <2>1. who \in Surjection(R, T)
    BY DEF Surjection
  <2>2. IsFiniteSet(R)
    BY <1>1, FS_Interval
  <2>. HIDE DEF R, T, who
  <2>. QED BY <2>1, <2>2, FS_Surjection
<1>3. Standing \subseteq T
  BY <1>1 DEF Standing, Stands
<1>4. Cardinality(Standing) \in Nat
  BY <1>2, <1>3, FS_Subset, FS_CardinalityType
<1>. QED BY <1>4 DEF Cardinality, Cardinality

(* The invariant both theorems rest on. *)
LEMMA ReviewAlways == ASSUME ~Rewind PROVE ReviewSpec => []ReviewInv
BY ReviewStart, ReviewStep, PTL DEF ReviewSpec

(* When the gate passes a stacked pull request whose head is still the one  *)
(* it has read, two reviewers stand behind the head now                     *)
(* (check_stacked_pr_approvals.py:24-29, 79-91).                            *)
THEOREM PassAlwaysEarned ==
  ASSUME ~Rewind, MaxReviews <= PerPage
  PROVE  ReviewSpec => PassIsEarned
<1>1. ReviewInv /\ [ReviewNext]_reviewVars =>
        [ReadReviews /\ code' = 0 /\ pr.base = "feature" /\ pr.head = headSha
           => Cardinality(Standing) >= REQUIRED]_reviewVars
  <2>. SUFFICES ASSUME ReviewInv, ReadReviews, code' = 0, pr.base = "feature", pr.head = headSha
                PROVE  Cardinality(Standing) >= REQUIRED
    OBVIOUS
  <2>1. Evaluate(pr, reviews) = 0
    BY PageIsAll DEF ReadReviews
  <2>2. Cardinality(ApprovalsAtHead(reviews, headSha)) >= REQUIRED
    BY <2>1 DEF Evaluate
  <2>. QED BY <2>2, ApprovalsStand
<1>2. ReviewSpec => []ReviewInv
  BY ReviewAlways
<1>. QED BY <1>1, <1>2, PTL DEF ReviewSpec, PassIsEarned

(* And it refuses no pull request that two reviewers stand behind           *)
(* (check_stacked_pr_approvals.py:106-121).                                 *)
THEOREM RefusalAlwaysDue ==
  ASSUME ~Rewind, MaxReviews <= PerPage
  PROVE  ReviewSpec => RefusalIsDue
<1>1. ReviewInv /\ [ReviewNext]_reviewVars =>
        [ReadReviews /\ code' = 1 /\ pr.head = headSha
           => Cardinality(Standing) < REQUIRED]_reviewVars
  <2>. SUFFICES ASSUME ReviewInv, ReadReviews, code' = 1, pr.head = headSha
                PROVE  Cardinality(Standing) < REQUIRED
    OBVIOUS
  <2>1. Evaluate(pr, reviews) = 1
    BY PageIsAll DEF ReadReviews
  <2>2. ~(Cardinality(ApprovalsAtHead(reviews, headSha)) >= REQUIRED)
    BY <2>1 DEF Evaluate
  <2>3. ~(Cardinality(Standing) >= REQUIRED)
    BY <2>2, ApprovalsStand
  <2>4. Cardinality(Standing) \in Nat
    BY StandingFinite
  <2>. QED BY <2>3, <2>4 DEF REQUIRED
<1>2. ReviewSpec => []ReviewInv
  BY ReviewAlways
<1>. QED BY <1>1, <1>2, PTL DEF ReviewSpec, RefusalIsDue

-----------------------------------------------------------------------------
(* As long as nobody derived the baseline anew, its entries are findings of *)
(* the last commit.                                                         *)
Tree == [text : [Artifact -> Text], there : BOOLEAN, baseline : SUBSET Finding]

BaselineInv ==
  /\ workTree \in Tree
  /\ ~workTree.there => workTree.baseline = {}
  /\ ~emitted => workTree.baseline \subseteq lastGreen

(* The check on a fresh checkout: the findings are the entries. *)
LEMMA GreenIsExact ==
  ASSUME BaselineInv, Green(workTree)
  PROVE  FindingsIn(workTree.text) = workTree.baseline
<1>. DEFINE flagged == ScratchFindings(workTree, workTree)
            known == Known(workTree)
<1>1. \A X : Keys(X) = X
  BY DEF Keys, Key
<1>2. Orphans(known, flagged) = {} /\ Unbaselined(known, flagged) = {}
  BY DEF Green, ScratchExit
<1>3. known \subseteq flagged /\ flagged \subseteq known
  BY <1>1, <1>2 DEF Orphans, Unbaselined, Key
<1>4. known = workTree.baseline
  BY DEF Known, BaselineInv
<1>5. flagged = FindingsIn(workTree.text)
  BY DEF ScratchFindings, FindingsIn, Finding, Missing
<1>. HIDE DEF flagged, known
<1>. QED BY <1>3, <1>4, <1>5

LEMMA BaselineStart == ScratchInit => BaselineInv
BY DEF ScratchInit, BaselineInv, Tree, FindingsIn

LEMMA BaselineStep == BaselineInv /\ [ScratchNext]_scratchVars => BaselineInv'
<1>. SUFFICES ASSUME BaselineInv, [ScratchNext]_scratchVars PROVE BaselineInv'
  OBVIOUS
<1>0. workTree \in Tree
  BY DEF BaselineInv
<1>1. CASE WriteFile
  BY <1>0, <1>1 DEF WriteFile, ChangeWork, BaselineInv, Tree
<1>2. CASE DropFinding
  BY <1>0, <1>2 DEF DropFinding, ChangeWork, BaselineInv, Tree
<1>3. CASE DropBaseline
  BY <1>0, <1>3 DEF DropBaseline, ChangeWork, BaselineInv, Tree
<1>4. CASE EmitBaseline
  BY <1>0, <1>4 DEF EmitBaseline, ChangeWork, BaselineInv, Tree, ScratchFindings, FindingsIn
<1>5. CASE CommitGreen
  BY <1>0, <1>5, GreenIsExact DEF CommitGreen, BaselineInv, Tree
<1>6. CASE UNCHANGED scratchVars
  BY <1>0, <1>6 DEF scratchVars, BaselineInv, Tree
<1>. QED BY <1>1, <1>2, <1>3, <1>4, <1>5, <1>6 DEF ScratchNext

(* As long as nobody derives the baseline anew, every commit that the check *)
(* lets through has only findings that the one before had                   *)
(* (check_scratch_path_convention.py:15-38, 258-280).                       *)
THEOREM FindingsNeverRegrow == ScratchSpec => FindingsShrink
<1>1. BaselineInv /\ [ScratchNext]_scratchVars =>
        [CommitGreen /\ ~emitted => lastGreen' \subseteq lastGreen]_scratchVars
  BY GreenIsExact DEF CommitGreen, BaselineInv
<1>. QED BY <1>1, BaselineStart, BaselineStep, PTL DEF ScratchSpec, FindingsShrink

-----------------------------------------------------------------------------
(* A file of the base has the content it had there or one that no file had. *)
Own(p, h) == h = base[p] \/ \A q \in TreePath : base[q] # h

Hash0 == Nat \ {0}
Says  == [cites : SUBSET (TreePath \X Hash0), records : SUBSET [name : TreePath, hashes : SUBSET Hash0]]

(* When a file is written at most once, a hash that is said to be that of p *)
(* is its old one, or its new one and p is written already; a record is     *)
(* made of a hash that was old by then.                                     *)
OldOrNew(p, h) == h = base[p] \/ (h = head[p] /\ head[p] # base[p])
Outdated(h)    == \E o \in TreePath : base[o] = h /\ head[o] # base[o]

AfterTheEdit(t) ==
  /\ \A c \in t.cites : OldOrNew(c[1], c[2])
  /\ \A r \in t.records : /\ \E h \in r.hashes : Outdated(h)
                          /\ \A h \in r.hashes : OldOrNew(r.name, h) \/ Outdated(h)

ScrubInv ==
  /\ text \in Seq(Says)
  /\ base \in [TreePath -> Nat] /\ head \in [TreePath -> Nat] /\ Root = InTree(base)
  /\ \A p \in TreePath : base[p] <= Len(text) /\ head[p] <= Len(text)
  /\ \A p \in Root : head[p] # 0 => Own(p, head[p])
  /\ WriteOnce => \A h \in 1 .. Len(text) : AfterTheEdit(text[h])

LEMMA ScrubStart == ScrubInit => ScrubInv
<1>. SUFFICES ASSUME ScrubInit PROVE ScrubInv
  OBVIOUS
<1>. USE DEF NoFile
<1>1. PICK n \in 1 .. Cardinality(Root) :
        /\ {base[p] : p \in Root} = 1 .. n
        /\ text \in [1 .. n -> [cites : {{<<p, base[p]>> : p \in Q} : Q \in SUBSET Root}, records : {{}}]]
  BY DEF ScrubInit, Cardinality, Cardinality
<1>2. base \in [TreePath -> Nat] /\ head = base /\ Root = InTree(base)
  BY DEF ScrubInit
<1>3. \A p \in TreePath : base[p] = 0 \/ p \in Root
  BY <1>2 DEF InTree
<1>4. \A p \in TreePath : base[p] <= n
  BY <1>1, <1>2, <1>3
<1>5. ASSUME NEW h \in 1 .. n
      PROVE  text[h] \in Says /\ AfterTheEdit(text[h])
  <2>1. PICK Q \in SUBSET Root : text[h].cites = {<<p, base[p]>> : p \in Q}
    BY <1>1
  <2>2. text[h].records = {} /\ text[h] = [cites |-> text[h].cites, records |-> text[h].records]
    BY <1>1
  <2>3. \A p \in Q : <<p, base[p]>> \in TreePath \X Hash0
    BY <1>2 DEF InTree, Hash0
  <2>4. text[h].cites \in SUBSET (TreePath \X Hash0)
    BY <2>1, <2>3
  <2>5. text[h] \in Says
    BY <2>2, <2>4 DEF Says
  <2>6. AfterTheEdit(text[h])
    BY <2>1, <2>2 DEF AfterTheEdit, OldOrNew
  <2>. QED BY <2>5, <2>6
<1>6. text \in [1 .. n -> Says] /\ n \in Nat
  BY <1>1, <1>5
<1>7. text \in Seq(Says) /\ Len(text) = n
  BY <1>6
<1>. QED BY <1>2, <1>4, <1>5, <1>7 DEF ScrubInv, Own, InTree

LEMMA ScrubFacts ==
  ASSUME ScrubInv
  PROVE  /\ Len(text) \in Nat /\ \A h \in 1 .. Len(text) : text[h] \in Says
         /\ Root \subseteq TreePath
         /\ \A p \in TreePath : base[p] \in Nat /\ head[p] \in Nat
BY LenProperties, ElementOfSeq DEF ScrubInv, InTree

(* A file that was written stays as it is. *)
LEMMA WrittenStays ==
  ASSUME WriteOnce, ScrubNext, head \in [TreePath -> Nat],
         NEW p \in TreePath, head[p] # base[p]
  PROVE  head'[p] = head[p]
<1>. USE DEF Untouched, Writable, WriteContent, NoFile, New
<1>1. ASSUME NEW q \in TreePath, EditText(q) PROVE head'[p] = head[p]
  BY <1>1 DEF EditText
<1>2. ASSUME NEW q \in TreePath, NEW o \in TreePath, NEW c, AddCitation(q, o) \/ Mend(q, c, o) \/ KeepRecord(q, c, o)
      PROVE  head'[p] = head[p]
  BY <1>2 DEF AddCitation, Mend, KeepRecord
<1>3. ASSUME NEW o \in TreePath, NEW q \in TreePath, Rename(o, q) \/ Copy(o, q) PROVE head'[p] = head[p]
  BY <1>3 DEF Rename, Copy
<1>4. ASSUME NEW q \in TreePath, RemoveFile(q) PROVE head'[p] = head[p]
  BY <1>4 DEF RemoveFile
<1>. QED BY <1>1, <1>2, <1>3, <1>4 DEF ScrubNext

(* So what is said of the hashes stays true. *)
LEMMA SaysStays ==
  ASSUME WriteOnce, ScrubInv, ScrubNext, base' = base, NEW t \in Says, AfterTheEdit(t)
  PROVE  AfterTheEdit(t)'
<1>1. \A p \in TreePath : head[p] # base[p] => head'[p] = head[p]
  BY WrittenStays DEF ScrubInv
<1>2. /\ \A p \in TreePath : \A h : OldOrNew(p, h) => h = base'[p] \/ (h = head'[p] /\ head'[p] # base'[p])
      /\ \A h : Outdated(h) => \E o \in TreePath : base'[o] = h /\ head'[o] # base'[o]
  BY <1>1 DEF OldOrNew, Outdated
<1>3. (\A c \in t.cites : c[1] \in TreePath) /\ (\A r \in t.records : r.name \in TreePath)
  BY DEF Says
<1>. QED BY <1>2, <1>3 DEF AfterTheEdit, OldOrNew, Outdated

LEMMA WriteStep ==
  ASSUME ScrubInv, ScrubNext, NEW q \in TreePath, NEW t \in Says, WriteContent(q, t),
         WriteOnce => AfterTheEdit(t)
  PROVE  ScrubInv'
<1>. DEFINE n == Len(text)
<1>0. n \in Nat /\ text \in Seq(Says) /\ (\A h \in 1 .. n : text[h] \in Says)
  BY ScrubFacts DEF ScrubInv
<1>1. /\ text' = Append(text, t) /\ head' = [head EXCEPT ![q] = n + 1] /\ base' = base
  BY DEF WriteContent, Fresh
<1>2. /\ text' \in Seq(Says) /\ Len(text') = n + 1 /\ text'[n + 1] = t
      /\ \A h \in 1 .. n : text'[h] = text[h]
  BY <1>0, <1>1, AppendProperties
<1>3. \A p \in TreePath : base[p] \in Nat /\ base[p] <= n /\ head[p] \in Nat /\ head[p] <= n
  BY ScrubFacts DEF ScrubInv
<1>4. base' \in [TreePath -> Nat] /\ head' \in [TreePath -> Nat] /\ Root = InTree(base)'
  BY <1>0, <1>1 DEF ScrubInv, InTree
<1>5. \A p \in TreePath : base'[p] <= n + 1 /\ head'[p] <= n + 1
  BY <1>0, <1>1, <1>3 DEF ScrubInv
<1>6. ASSUME NEW p \in Root, head'[p] # 0 PROVE Own(p, head[p])'
  <2>1. CASE p = q
    <3>1. head'[p] = n + 1
      BY <1>1, <2>1 DEF ScrubInv
    <3>2. \A o \in TreePath : base[o] # n + 1
      BY <1>0, <1>3
    <3>. QED BY <1>1, <3>1, <3>2 DEF Own
  <2>2. CASE p # q
    BY <1>1, <1>6, <2>2 DEF ScrubInv, Own
  <2>. QED BY <2>1, <2>2
<1>7. ASSUME WriteOnce, NEW h \in 1 .. n + 1 PROVE AfterTheEdit(text[h])'
  <2>. DEFINE u == IF h = n + 1 THEN t ELSE text[h]
  <2>1. u \in Says /\ AfterTheEdit(u)
    <3>1. CASE h = n + 1
      BY <1>7, <3>1
    <3>2. CASE h # n + 1
      <4>1. h \in 1 .. n /\ u = text[h]
        BY <1>0, <3>2
      <4>. QED BY <1>0, <1>7, <4>1 DEF ScrubInv
    <3>. QED BY <3>1, <3>2
  <2>2. text'[h] = u
    BY <1>0, <1>2
  <2>. HIDE DEF u
  <2>3. PICK v \in Says : v = text'[h] /\ AfterTheEdit(v)
    BY <2>1, <2>2
  <2>4. AfterTheEdit(v)'
    BY <1>1, <1>7, <2>3, SaysStays
  <2>. QED BY <2>3, <2>4 DEF AfterTheEdit, OldOrNew, Outdated
<1>. QED BY <1>2, <1>4, <1>5, <1>6, <1>7 DEF ScrubInv

(* A file of the base that is moved or removed is absent then. *)
LEMMA MoveStep ==
  ASSUME ScrubInv, ScrubNext, UNCHANGED <<text, base>>, head' \in [TreePath -> Nat],
         \A p \in TreePath : \E q \in TreePath : head'[p] \in {0, head[q]},
         \A p \in Root : head'[p] \in {0, head[p]}
  PROVE  ScrubInv'
<1>1. ASSUME NEW p \in TreePath PROVE base'[p] <= Len(text') /\ head'[p] <= Len(text')
  <2>1. PICK q \in TreePath : head'[p] \in {0, head[q]}
    OBVIOUS
  <2>2. Len(text) \in Nat /\ head[q] <= Len(text) /\ base[p] <= Len(text)
    BY ScrubFacts DEF ScrubInv
  <2>3. head'[p] <= Len(text)
    BY <2>1, <2>2
  <2>. QED BY <2>2, <2>3
<1>2. \A p \in Root : head'[p] # 0 => Own(p, head'[p])
  BY DEF ScrubInv
<1>3. ASSUME WriteOnce, NEW h \in 1 .. Len(text) PROVE AfterTheEdit(text[h])'
  <2>1. text[h] \in Says /\ AfterTheEdit(text[h])
    BY <1>3, ScrubFacts DEF ScrubInv
  <2>2. PICK v \in Says : v = text'[h] /\ AfterTheEdit(v)
    BY <2>1
  <2>3. AfterTheEdit(v)'
    BY <1>3, <2>2, SaysStays
  <2>. QED BY <2>2, <2>3 DEF AfterTheEdit, OldOrNew, Outdated
<1>. QED BY <1>1, <1>2, <1>3 DEF ScrubInv, Own, InTree

(* What a file of HEAD says is one of the contents. *)
LEMMA SaysOfHead ==
  ASSUME ScrubInv, NEW q \in TreePath, q \in InTree(head)
  PROVE  text[head[q]] \in Says /\ (WriteOnce => AfterTheEdit(text[head[q]]))
<1>1. head[q] \in 1 .. Len(text)
  BY ScrubFacts DEF ScrubInv, InTree, NoFile
<1>. QED BY <1>1, ScrubFacts DEF ScrubInv

(* A citation of a file as it is in HEAD. *)
LEMMA NewCitation ==
  ASSUME ScrubInv, NEW p \in InTree(head)
  PROVE  /\ p \in TreePath /\ head[p] \in Hash0 /\ OldOrNew(p, head[p])
         /\ CitationOf(p) \in TreePath \X Hash0 /\ CitationOf(p)[1] = p /\ CitationOf(p)[2] = head[p]
BY ScrubFacts DEF InTree, NoFile, Hash0, OldOrNew, CitationOf

LEMMA ScrubStep == ScrubInv /\ [ScrubNext]_scrubVars => ScrubInv'
<1>. SUFFICES ASSUME ScrubInv, [ScrubNext]_scrubVars PROVE ScrubInv'
  OBVIOUS
<1>. USE DEF NoFile
<1>1. CASE UNCHANGED scrubVars
  BY <1>1 DEF scrubVars, ScrubInv, AfterTheEdit, OldOrNew, Outdated, Own, InTree
<1>2. ASSUME ScrubNext, NEW q \in TreePath, EditText(q) PROVE ScrubInv'
  <2>1. q \in InTree(head) /\ WriteContent(q, text[head[q]])
    BY <1>2 DEF EditText, Writable
  <2>. QED BY <1>2, <2>1, SaysOfHead, WriteStep
<1>3. ASSUME ScrubNext, NEW q \in TreePath, NEW p \in InTree(head), q \in InTree(head), NEW cs,
             cs \subseteq text[head[q]].cites,
             WriteContent(q, [text[head[q]] EXCEPT !.cites = cs \cup {CitationOf(p)}])
      PROVE  ScrubInv'
  <2>. DEFINE t == text[head[q]]
              u == [t EXCEPT !.cites = cs \cup {CitationOf(p)}]
  <2>1. t \in Says /\ (WriteOnce => AfterTheEdit(t)) /\ WriteContent(q, u) /\ cs \subseteq t.cites
    BY <1>3, SaysOfHead
  <2>. HIDE DEF t
  <2>2. u.cites = cs \cup {CitationOf(p)} /\ u.records = t.records /\ u \in Says
    BY <2>1, NewCitation DEF Says
  <2>. HIDE DEF u
  <2>3. WriteOnce => AfterTheEdit(u)
    BY <2>1, <2>2, NewCitation DEF AfterTheEdit
  <2>. QED BY <1>3, <2>1, <2>2, <2>3, WriteStep
<1>4. ASSUME ScrubNext, NEW q \in TreePath, NEW p \in TreePath, NEW c, AddCitation(q, p) \/ Mend(q, c, p)
      PROVE  ScrubInv'
  <2>1. CASE AddCitation(q, p)
    <3>1. /\ q \in InTree(head) /\ p \in InTree(head)
          /\ WriteContent(q, [text[head[q]] EXCEPT !.cites = text[head[q]].cites \cup {CitationOf(p)}])
      BY <2>1 DEF AddCitation, Writable
    <3>. QED BY <1>3, <1>4, <3>1
  <2>2. CASE Mend(q, c, p)
    <3>1. /\ q \in InTree(head) /\ p \in InTree(head)
          /\ WriteContent(q, [text[head[q]] EXCEPT !.cites = (text[head[q]].cites \ {c}) \cup {CitationOf(p)}])
      BY <2>2 DEF Mend, Writable
    <3>. QED BY <1>3, <1>4, <3>1
  <2>. QED BY <1>4, <2>1, <2>2
<1>8. ASSUME ScrubNext, NEW q \in TreePath, NEW p \in TreePath, NEW c, KeepRecord(q, c, p) PROVE ScrubInv'
  <2>. DEFINE t == text[head[q]]
  <2>1. q \in InTree(head) /\ c \in t.cites /\ head[c[1]] # c[2] /\ p \in InTree(head)
    BY <1>8 DEF KeepRecord, Writable
  <2>2. PICK hs \in {{c[2]}, {c[2], head[p]}} :
          WriteContent(q, [cites |-> t.cites \ {c}, records |-> t.records \cup {[name |-> p, hashes |-> hs]}])
    BY <1>8 DEF KeepRecord
  <2>. DEFINE r == [name |-> p, hashes |-> hs]
              u == [cites |-> t.cites \ {c}, records |-> t.records \cup {r}]
  <2>3. t \in Says /\ (WriteOnce => AfterTheEdit(t))
    BY <2>1, SaysOfHead
  <2>4. /\ c[1] \in TreePath /\ c[2] \in Hash0 /\ head[p] \in Hash0
        /\ WriteOnce => Outdated(c[2]) /\ OldOrNew(p, head[p])
    BY <2>1, <2>3, NewCitation DEF Says, AfterTheEdit, OldOrNew, Outdated
  <2>. HIDE DEF t
  <2>5. r \in [name : TreePath, hashes : SUBSET Hash0] /\ r.name = p /\ r.hashes = hs
    BY <2>4
  <2>6. WriteOnce => (\E h \in hs : Outdated(h)) /\ (\A h \in hs : OldOrNew(p, h) \/ Outdated(h))
    BY <2>2, <2>4
  <2>. HIDE DEF r
  <2>7. u.cites = t.cites \ {c} /\ u.records = t.records \cup {r} /\ u \in Says
    BY <2>3, <2>5 DEF Says
  <2>8. WriteContent(q, u)
    BY <2>2 DEF r
  <2>. HIDE DEF u
  <2>9. WriteOnce => AfterTheEdit(u)
    BY <2>3, <2>5, <2>6, <2>7 DEF AfterTheEdit
  <2>. QED BY <1>8, <2>7, <2>8, <2>9, WriteStep
<1>5. ASSUME ScrubNext, NEW p \in TreePath, NEW q \in TreePath, Rename(p, q) \/ Copy(p, q) PROVE ScrubInv'
  <2>1. /\ head' = [head EXCEPT ![q] = head[p], ![p] = 0] \/ head' = [head EXCEPT ![q] = head[p]]
        /\ UNCHANGED <<text, base>> /\ base[q] = 0
    BY <1>5 DEF Rename, Copy, New
  <2>2. q \notin Root /\ head \in [TreePath -> Nat] /\ Root \subseteq TreePath
    BY <2>1 DEF ScrubInv, InTree
  <2>3. head' \in [TreePath -> Nat]
    BY <2>1, <2>2
  <2>4. ASSUME NEW o \in TreePath PROVE \E x \in TreePath : head'[o] \in {0, head[x]}
    BY <2>1, <2>2
  <2>5. ASSUME NEW o \in Root PROVE head'[o] \in {0, head[o]}
    BY <2>1, <2>2
  <2>. QED BY <1>5, <2>1, <2>3, <2>4, <2>5, MoveStep
<1>6. ASSUME ScrubNext, NEW p \in TreePath, RemoveFile(p) PROVE ScrubInv'
  <2>1. head' = [head EXCEPT ![p] = 0] /\ UNCHANGED <<text, base>>
    BY <1>6 DEF RemoveFile
  <2>2. head \in [TreePath -> Nat] /\ Root \subseteq TreePath
    BY DEF ScrubInv, InTree
  <2>3. /\ head' \in [TreePath -> Nat] /\ \A o \in TreePath : head'[o] \in {0, head[o]}
    BY <2>1, <2>2
  <2>. QED BY <1>6, <2>1, <2>2, <2>3, MoveStep
<1>7. CASE ScrubNext
  BY <1>2, <1>4, <1>5, <1>6, <1>7, <1>8 DEF ScrubNext
<1>. QED BY <1>1, <1>7

(* The invariant both theorems rest on. *)
LEMMA ScrubAlways == ScrubSpec => []ScrubInv
BY ScrubStart, ScrubStep, PTL DEF ScrubSpec

(* If a scrub changes every file at most once and the check is clean, HEAD  *)
(* is closed, whatever was edited, copied, renamed or removed and whatever  *)
(* file a citation was pointed to (check_scrub_hash_closure.py:2-22,        *)
(* 357-380).                                                                *)
THEOREM CleanAlwaysClosed == ASSUME WriteOnce PROVE ScrubSpec => []CleanMeansClosed
<1>1. ScrubInv => CleanMeansClosed
  <2>. SUFFICES ASSUME ScrubInv, ScrubExit = 0 PROVE Closed(head)
    BY DEF CleanMeansClosed
  <2>. USE DEF NoFile
  <2>1. Surviving = {} /\ Moved = {}
    BY DEF ScrubExit
  <2>2. \A p \in TreePath : base[p] # 0 /\ head[p] # base[p] => p \in Gone
    BY <2>1 DEF Gone, SupersededContent, InTree
  <2>3. ASSUME NEW q \in InTree(head), NEW c \in text[head[q]].cites PROVE c[2] = head[c[1]]
    <3>1. q \in TreePath /\ text[head[q]] \in Says /\ AfterTheEdit(text[head[q]])
      BY SaysOfHead DEF InTree
    <3>2. c[1] \in TreePath /\ c[2] # 0 /\ (c[2] = base[c[1]] \/ c[2] = head[c[1]])
      BY <3>1 DEF Says, AfterTheEdit, OldOrNew, Hash0
    <3>3. c[1] \notin Gone \/ c[2] # base[c[1]]
      BY <2>1 DEF Surviving
    <3>. QED BY <2>2, <3>2, <3>3
  <2>4. ASSUME NEW q \in InTree(head), NEW r \in text[head[q]].records
        PROVE  /\ head[r.name] \in r.hashes \ {0} /\ r.hashes \subseteq {base[r.name], head[r.name]}
    <3>1. q \in TreePath /\ text[head[q]] \in Says /\ AfterTheEdit(text[head[q]])
      BY SaysOfHead DEF InTree
    <3>2. /\ r.hashes \subseteq Hash0 /\ \E h \in r.hashes : Outdated(h)
          /\ \A h \in r.hashes : OldOrNew(r.name, h) \/ Outdated(h)
      BY <3>1 DEF Says, AfterTheEdit
    <3>3. ASSUME NEW h \in r.hashes, Outdated(h)
          PROVE  h = base[r.name] /\ head[r.name] \in r.hashes \ {0}
      <4>1. PICK o \in TreePath : base[o] = h /\ head[o] # base[o]
        BY <3>3 DEF Outdated
      <4>2. o \in Gone
        BY <2>2, <3>2, <4>1 DEF Hash0
      <4>3. Excused(r, h)
        BY <2>1, <4>1, <4>2 DEF Surviving
      <4>. QED BY <4>3 DEF Excused, InTree
    <3>. QED BY <3>2, <3>3 DEF OldOrNew
  <2>. QED BY <2>3, <2>4 DEF Closed
<1>. QED BY <1>1, ScrubAlways, PTL

(* A finding is real but in one case, however often files were written: a   *)
(* closed tree gets one only if a file was changed whose old content HEAD   *)
(* has under another name, given to a copy or that of a file that was the   *)
(* same in the base (check_scrub_hash_closure.py:176-204, 366-371).         *)
THEOREM FindingsAlwaysReal == ScrubSpec => []FindingsAreReal
<1>1. ScrubInv => FindingsAreReal
  <2>. SUFFICES ASSUME ScrubInv, ScrubExit = 1, Closed(head)
                PROVE  \E p \in Gone \cap InTree(head), o \in InTree(head) :
                         head[o] = base[p] /\ (o \notin Root \/ base[o] = base[p])
    BY DEF FindingsAreReal
  <2>. USE DEF NoFile
  <2>1. PICK q \in InTree(head), p \in Gone :
          \/ \E c \in text[head[q]].cites : c[2] = base[p]
          \/ \E r \in text[head[q]].records : base[p] \in r.hashes /\ ~Excused(r, base[p])
    BY DEF ScrubExit, Surviving
  <2>2. p \in TreePath /\ base[p] # 0 /\ head[p] # base[p]
        /\ (head[p] = 0 => \A o \in InTree(head) : head[o] # base[p])
    BY DEF Gone, SupersededContent, Moved, InTree
  <2>3. q \in TreePath /\ text[head[q]] \in Says
    BY SaysOfHead DEF InTree
  <2>4. \E o \in TreePath : head[o] = base[p]
    <3>1. ASSUME NEW c \in text[head[q]].cites, c[2] = base[p] PROVE head[c[1]] = base[p] /\ c[1] \in TreePath
      BY <2>3, <3>1 DEF Closed, Says
    <3>2. ASSUME NEW r \in text[head[q]].records, base[p] \in r.hashes, ~Excused(r, base[p])
          PROVE  head[r.name] = base[p] /\ r.name \in TreePath
      <4>1. /\ r.name \in TreePath /\ head[r.name] \in r.hashes \ {0}
            /\ base[p] \in {base[r.name], head[r.name]}
        BY <2>3, <3>2 DEF Closed, Says
      <4>2. CASE head[r.name] # base[p]
        <5>1. base[p] = base[r.name] /\ base[r.name] # 0 /\ head[r.name] # base[r.name]
          BY <2>2, <4>1, <4>2
        <5>2. r.name \in Gone /\ r.name \in InTree(head)
          BY <4>1, <5>1 DEF Gone, SupersededContent, Moved, InTree
        <5>. QED BY <3>2, <4>1, <5>1, <5>2 DEF Excused
      <4>. QED BY <4>1, <4>2
    <3>. QED BY <2>1, <3>1, <3>2
  <2>5. PICK o \in TreePath : head[o] = base[p]
    BY <2>4
  <2>6. o \in InTree(head) /\ p \in InTree(head)
    BY <2>2, <2>5 DEF InTree
  <2>7. o \in Root => base[o] = base[p]
    BY <2>2, <2>5 DEF ScrubInv, Own
  <2>. QED BY <2>5, <2>6, <2>7
<1>. QED BY <1>1, ScrubAlways, PTL

-----------------------------------------------------------------------------
(* The published receipts.  Then is the equation of Lineage's ChangesUpto.   *)
Then(past, i, f) ==
  [n \in i .. Len(past) |->
     IF n = i THEN << >>
     ELSE IF past[n] = past[n - 1] THEN f[n - 1] ELSE Append(f[n - 1], n)]

(* ChangesUpto is a recursive function: it is one that solves its equation,  *)
(* because there is one that does.                                           *)
LEMMA ChangesChosen == \A past, i : ChangesUpto(past, i) = CHOOSE f : f = Then(past, i, f)
BY Zenon DEF ChangesUpto, Then

LEMMA ChangesUnfold == \A past, i : (\E f : f = Then(past, i, f)) => ChangesUpto(past, i) = Then(past, i, ChangesUpto(past, i))
BY ChangesChosen, Zenon

LEMMA ChangesExist ==
  ASSUME NEW past, Len(past) \in Nat, NEW i \in Nat
  PROVE  \E f : f = Then(past, i, f)
<1>. DEFINE Upto(n, f) == \A k \in i .. n : f[k] =
                 IF k = i THEN << >>
                 ELSE IF past[k] = past[k - 1] THEN f[k - 1] ELSE Append(f[k - 1], k)
            T == {n \in Nat : \E f : Upto(n, f)}
<1>1. i \in T
  <2>1. Upto(i, [k \in {i} |-> << >>])
    OBVIOUS
  <2>. QED BY <2>1
<1>2. ASSUME NEW n \in Nat, i <= n, n \in T PROVE n + 1 \in T
  <2>1. PICK f : Upto(n, f)
    BY <1>2
  <2>. DEFINE s == IF past[n + 1] = past[n] THEN f[n] ELSE Append(f[n], n + 1)
              g == [k \in i .. n + 1 |-> IF k = n + 1 THEN s ELSE f[k]]
  <2>2. \A k \in i .. n : g[k] = f[k]
    OBVIOUS
  <2>3. g[n + 1] = s
    BY <1>2
  <2>. HIDE DEF g
  <2>4. ASSUME NEW k \in i .. n + 1
        PROVE  g[k] = IF k = i THEN << >>
                      ELSE IF past[k] = past[k - 1] THEN g[k - 1] ELSE Append(g[k - 1], k)
    <3>1. CASE k = n + 1
      <4>1. k # i /\ k - 1 = n /\ n \in i .. n
        BY <1>2, <3>1
      <4>2. g[k - 1] = f[n] /\ g[k] = s
        BY <2>2, <2>3, <3>1, <4>1
      <4>. QED BY <3>1, <4>1, <4>2
    <3>2. CASE k # n + 1
      <4>1. k \in i .. n /\ (k # i => k - 1 \in i .. n)
        BY <3>2
      <4>. QED BY <2>1, <2>2, <4>1
    <3>. QED BY <3>1, <3>2
  <2>5. Upto(n + 1, g)
    BY <2>4
  <2>. QED BY <2>5
<1>. HIDE DEF T
<1>3. \A n \in Nat : i <= n => n \in T
  BY <1>1, <1>2, Upward
<1>4. CASE i <= Len(past)
  <2>1. PICK f : Upto(Len(past), f)
    BY <1>3, <1>4 DEF T
  <2>. DEFINE g == [k \in i .. Len(past) |-> f[k]]
  <2>2. g = Then(past, i, g)
    BY <2>1 DEF Then
  <2>. QED BY <2>2
<1>5. CASE ~(i <= Len(past))
  <2>. DEFINE g == [k \in i .. Len(past) |-> << >>]
  <2>1. g = Then(past, i, g)
    BY <1>5 DEF Then
  <2>. QED BY <2>1
<1>. QED BY <1>4, <1>5

LEMMA ChangesAre ==
  ASSUME NEW past, Len(past) \in Nat, NEW i \in Nat, i <= Len(past)
  PROVE  /\ ChangesUpto(past, i)[i] = << >>
         /\ \A n \in i + 1 .. Len(past) :
              ChangesUpto(past, i)[n] =
                IF past[n] = past[n - 1] THEN ChangesUpto(past, i)[n - 1]
                ELSE Append(ChangesUpto(past, i)[n - 1], n)
<1>. DEFINE c == ChangesUpto(past, i)
<1>1. c = Then(past, i, c)
  BY ChangesExist, ChangesUnfold
<1>. HIDE DEF c
<1>2. c[i] = << >>
  BY <1>1 DEF Then
<1>3. ASSUME NEW n \in i + 1 .. Len(past)
      PROVE  c[n] = IF past[n] = past[n - 1] THEN c[n - 1] ELSE Append(c[n - 1], n)
  <2>1. n \in i .. Len(past) /\ n # i
    OBVIOUS
  <2>. QED BY <1>1, <2>1 DEF Then
<1>. QED BY <1>2, <1>3 DEF c

(* The commits s lead from what the file was at commit i to what it is at n.*)
From(past, i, s, k) == IF k = 1 THEN past[i] ELSE past[s[k - 1]]

Leads(past, i, n, s) ==
  /\ s \in Seq(i + 1 .. n) /\ Len(s) <= n - i
  /\ \A k \in 1 .. Len(s) : /\ past[s[k] - 1] = From(past, i, s, k)
                            /\ past[s[k]] # From(past, i, s, k)
  /\ past[n] = From(past, i, s, Len(s) + 1)

(* And so they do at the next commit. *)
LEMMA LeadsOn ==
  ASSUME NEW past, NEW i \in Nat, NEW n \in Nat, i <= n, NEW s, Leads(past, i, n, s),
         NEW t, t = IF past[n + 1] = past[n] THEN s ELSE Append(s, n + 1)
  PROVE  Leads(past, i, n + 1, t)
<1>1. s \in Seq(i + 1 .. n) /\ Len(s) \in Nat /\ Len(s) <= n - i /\ (\A k \in 1 .. Len(s) : s[k] \in i + 1 .. n)
  BY LenProperties, ElementOfSeq DEF Leads
<1>2. s \in Seq(i + 1 .. n + 1)
  <2>1. i + 1 .. n \subseteq i + 1 .. n + 1
    OBVIOUS
  <2>. QED BY <1>1, <2>1
<1>3. CASE past[n + 1] = past[n]
  BY <1>1, <1>2, <1>3 DEF Leads, From
<1>4. CASE past[n + 1] # past[n]
  <2>1. /\ t \in Seq(i + 1 .. n + 1) /\ Len(t) = Len(s) + 1 /\ t[Len(s) + 1] = n + 1
        /\ \A k \in 1 .. Len(s) : t[k] = s[k]
    BY <1>1, <1>2, <1>4, AppendProperties
  <2>2. ASSUME NEW k \in 1 .. Len(s) + 1 PROVE From(past, i, t, k) = From(past, i, s, k)
    <3>1. k # 1 => k - 1 \in 1 .. Len(s)
      BY <1>1
    <3>. QED BY <2>1, <3>1 DEF From
  <2>3. ASSUME NEW k \in 1 .. Len(t)
        PROVE  past[t[k] - 1] = From(past, i, t, k) /\ past[t[k]] # From(past, i, t, k)
    <3>1. CASE k = Len(s) + 1
      <4>1. t[k] = n + 1 /\ t[k] - 1 = n
        BY <2>1, <3>1
      <4>2. past[n] = From(past, i, t, k)
        BY <1>1, <2>2, <3>1 DEF Leads
      <4>. QED BY <1>4, <4>1, <4>2
    <3>2. CASE k # Len(s) + 1
      <4>1. k \in 1 .. Len(s)
        BY <1>1, <2>1, <3>2
      <4>. QED BY <1>1, <2>1, <2>2, <4>1 DEF Leads
    <3>. QED BY <3>1, <3>2
  <2>4. past[n + 1] = From(past, i, t, Len(t) + 1)
    <3>1. Len(t) + 1 # 1 /\ Len(t) + 1 - 1 = Len(s) + 1
      BY <1>1, <2>1
    <3>. QED BY <2>1, <3>1 DEF From
  <2>. QED BY <1>1, <2>1, <2>3, <2>4 DEF Leads
<1>. QED BY <1>3, <1>4

LEMMA ChangesLead ==
  ASSUME NEW past, Len(past) \in Nat, NEW i \in Nat, i <= Len(past)
  PROVE  Leads(past, i, Len(past), ChangesAfter(past, i))
<1>. DEFINE c == ChangesUpto(past, i)
            T == {n \in Nat : n <= Len(past) => Leads(past, i, n, c[n])}
<1>1. i \in T
  <2>1. c[i] = << >>
    BY ChangesAre
  <2>2. Leads(past, i, i, << >>)
    <3>1. << >> \in Seq(i + 1 .. i) /\ Len(<< >>) = 0 /\ 1 .. 0 = {}
      OBVIOUS
    <3>2. past[i] = From(past, i, << >>, Len(<< >>) + 1)
      BY <3>1 DEF From
    <3>. QED BY <3>1, <3>2 DEF Leads
  <2>. HIDE DEF c
  <2>. QED BY <2>1, <2>2
<1>2. ASSUME NEW n \in Nat, i <= n, n \in T PROVE n + 1 \in T
  <2>1. SUFFICES ASSUME n + 1 <= Len(past) PROVE Leads(past, i, n + 1, c[n + 1])
    OBVIOUS
  <2>2. Leads(past, i, n, c[n])
    BY <1>2, <2>1
  <2>3. n + 1 \in i + 1 .. Len(past) /\ n + 1 - 1 = n
    BY <1>2, <2>1
  <2>4. c[n + 1] = IF past[n + 1] = past[n] THEN c[n] ELSE Append(c[n], n + 1)
    BY <2>3, ChangesAre
  <2>. HIDE DEF c
  <2>. QED BY <1>2, <2>2, <2>4, LeadsOn
<1>. HIDE DEF T
<1>3. \A n \in Nat : i <= n => n \in T
  BY <1>1, <1>2, Upward
<1>4. Leads(past, i, Len(past), c[Len(past)])
  BY <1>3 DEF T
<1>. QED BY <1>4 DEF ChangesAfter

(* The lineage of the history after commit i, as a record. *)
LEMMA HonestIs ==
  ASSUME NEW past, Len(past) \in Nat, NEW i \in 1 .. Len(past), past[i] # past[Len(past)]
  PROVE  LET s == ChangesAfter(past, i)
             r == HonestRecord(past, i)
         IN  /\ Leads(past, i, Len(past), s) /\ Len(s) \in 1 .. Len(past) - i
             /\ \A k \in 1 .. Len(s) : s[k] \in i + 1 .. Len(past)
             /\ r.prior = past[i] /\ r.current = past[Len(past)] /\ r.superseded_by = {s[1]}
             /\ r.hops = [k \in 1 .. Len(s) |->
                            [commit |-> s[k], misquoted |-> FALSE, result |-> past[s[k]]]]
<1>. DEFINE s == ChangesAfter(past, i)
            n == Len(past)
            r == HonestRecord(past, i)
<1>1. Leads(past, i, n, s)
  BY ChangesLead
<1>2. /\ r.prior = past[i] /\ r.current = past[n] /\ r.superseded_by = {s[1]}
      /\ r.hops = [k \in DOMAIN s |->
                     [commit |-> s[k], misquoted |-> FALSE, result |-> past[s[k]]]]
  BY DEF HonestRecord
<1>. HIDE DEF s, r
<1>3. s \in Seq(i + 1 .. n) /\ Len(s) \in Nat /\ DOMAIN s = 1 .. Len(s) /\ Len(s) <= n - i
      /\ \A k \in 1 .. Len(s) : s[k] \in i + 1 .. n
  BY <1>1, LenProperties, ElementOfSeq DEF Leads
<1>4. Len(s) # 0
  <2>1. SUFFICES ASSUME Len(s) = 0 PROVE FALSE
    OBVIOUS
  <2>2. past[n] = From(past, i, s, 1)
    BY <1>1, <2>1 DEF Leads
  <2>. QED BY <2>2 DEF From
<1>. QED BY <1>1, <1>2, <1>3, <1>4 DEF s, r

(* _verify_hops finds nothing in the lineage of the history itself. *)
LEMMA HonestHolds ==
  ASSUME NEW past, Len(past) \in Nat, DOMAIN past = 1 .. Len(past),
         NEW i \in 1 .. Len(past), past[i] # past[Len(past)],
         \A j \in i .. Len(past) : past[j] \in Hash
  PROVE  LET r == HonestRecord(past, i)
         IN  ChainHolds(past, r, past[i], past[Len(past)])
<1>. DEFINE s == ChangesAfter(past, i)
            n == Len(past)
            r == HonestRecord(past, i)
            h == r.hops
<1>1. /\ Leads(past, i, n, s) /\ Len(s) \in 1 .. n - i
      /\ \A k \in 1 .. Len(s) : s[k] \in i + 1 .. n
      /\ r.superseded_by = {s[1]}
      /\ h = [k \in 1 .. Len(s) |-> [commit |-> s[k], misquoted |-> FALSE, result |-> past[s[k]]]]
  BY HonestIs
<1>2. /\ DOMAIN h = 1 .. Len(s) /\ Len(h) = Len(s) /\ h # << >>
      /\ \A k \in 1 .. Len(s) : h[k].commit = s[k] /\ h[k].misquoted = FALSE /\ h[k].result = past[s[k]]
  <2>. HIDE DEF h, s
  <2>1. DOMAIN h = 1 .. Len(s) /\ 1 \in 1 .. Len(s) /\ Len(s) \in Nat
    BY <1>1
  <2>2. Len(h) = Len(s)
    BY <1>1, <2>1
  <2>3. h # << >>
    BY <2>1, <2>2
  <2>4. \A k \in 1 .. Len(s) : h[k].commit = s[k] /\ h[k].misquoted = FALSE /\ h[k].result = past[s[k]]
    BY <1>1
  <2>. QED BY <2>1, <2>2, <2>3, <2>4
<1>. HIDE DEF h, s, r
<1>3. ASSUME NEW k \in 1 .. Len(s) PROVE Before(h, past[i], k) = From(past, i, s, k)
  <2>1. k # 1 => k - 1 \in 1 .. Len(s)
    BY <1>1
  <2>. QED BY <1>2, <2>1 DEF Before, From
<1>4. ASSUME NEW k \in 1 .. Len(s) PROVE HopHolds(past, h, past[i], k)
  <2>1. /\ s[k] \in i + 1 .. n /\ s[k] \in DOMAIN past /\ s[k] - 1 \in DOMAIN past /\ s[k] # 0
    BY <1>1
  <2>2. past[s[k] - 1] = From(past, i, s, k) /\ past[s[k]] # From(past, i, s, k)
    BY <1>1 DEF Leads
  <2>3. BlobAt(past, s[k]) = past[s[k]] /\ BlobAt(past, s[k] - 1) = past[s[k] - 1]
    BY <2>1 DEF BlobAt
  <2>4. Named(past, h[k].commit) = s[k] /\ h[k].commit # Mutable
    BY <1>2, <2>1 DEF Named, Mutable
  <2>5. h[k].result \in Hash
    <3>1. s[k] \in i .. n
      BY <2>1
    <3>. QED BY <1>2, <3>1
  <2>. QED BY <1>2, <1>3, <2>2, <2>3, <2>4, <2>5 DEF HopHolds
<1>5. h[Len(h)].result = past[n]
  <2>1. past[n] = From(past, i, s, Len(s) + 1) /\ Len(s) + 1 # 1 /\ Len(s) + 1 - 1 = Len(s)
    BY <1>1 DEF Leads
  <2>2. Len(s) \in 1 .. Len(s)
    BY <1>1
  <2>. QED BY <1>2, <2>1, <2>2 DEF From
<1>6. h[1].commit \in r.superseded_by
  BY <1>1, <1>2
<1>. QED BY <1>2, <1>4, <1>5, <1>6 DEF ChainHolds, h, r

-----------------------------------------------------------------------------
(* Where no content comes back, a file with one content at two commits has  *)
(* it at all between them, and no change is between them.                   *)
LEMMA NoChange ==
  ASSUME NEW past, Len(past) \in Nat, NEW i \in Nat,
         NEW a \in i .. Len(past), NEW b \in a .. Len(past),
         \A k \in a .. b : past[k] = past[a]
  PROVE  ChangesUpto(past, i)[b] = ChangesUpto(past, i)[a]
<1>. DEFINE c == ChangesUpto(past, i)
            T == {n \in Nat : n <= b => c[n] = c[a]}
<1>0. a \in Nat /\ i <= Len(past)
  OBVIOUS
<1>1. a \in T
  BY <1>0
<1>2. ASSUME NEW n \in Nat, a <= n, n \in T PROVE n + 1 \in T
  <2>1. SUFFICES ASSUME n + 1 <= b PROVE c[n + 1] = c[a]
    OBVIOUS
  <2>2. n + 1 \in i + 1 .. Len(past) /\ n + 1 - 1 = n /\ n \in a .. b /\ n + 1 \in a .. b
    BY <1>2, <2>1
  <2>3. c[n + 1] = IF past[n + 1] = past[n] THEN c[n] ELSE Append(c[n], n + 1)
    BY <1>0, <2>2, ChangesAre
  <2>4. past[n + 1] = past[n] /\ c[n] = c[a]
    BY <1>2, <2>2
  <2>. QED BY <2>3, <2>4
<1>. HIDE DEF T
<1>3. \A n \in Nat : a <= n => n \in T
  BY <1>0, <1>1, <1>2, Upward
<1>4. b \in T
  BY <1>3
<1>. QED BY <1>4 DEF T

(* The next change of a content is the one that ended it. *)
ChangesOn(past, i, a, d) ==
  a < d /\ ChangesUpto(past, i)[d] = Append(ChangesUpto(past, i)[a], d)

LEMMA OneChange ==
  ASSUME NEW past, Len(past) \in Nat, DOMAIN past = 1 .. Len(past), NeverReturns(past),
         NEW i \in 1 .. Len(past), NEW a \in i .. Len(past), NEW d \in 2 .. Len(past),
         past[d - 1] = past[a], past[d] # past[d - 1]
  PROVE  ChangesOn(past, i, a, d)
<1>1. a < d
  <2>1. SUFFICES ASSUME d <= a PROVE FALSE
    OBVIOUS
  <2>2. d - 1 \in DOMAIN past /\ a \in DOMAIN past /\ d - 1 < a /\ d \in d - 1 .. a
    BY <2>1
  <2>. QED BY <2>2 DEF NeverReturns
<1>2. \A k \in a .. d - 1 : past[k] = past[a]
  <2>1. CASE a = d - 1
    BY <2>1
  <2>2. CASE a # d - 1
    <3>1. a \in DOMAIN past /\ d - 1 \in DOMAIN past /\ a < d - 1
      BY <1>1, <2>2
    <3>. QED BY <3>1 DEF NeverReturns
  <2>. QED BY <2>1, <2>2
<1>3. ChangesUpto(past, i)[d - 1] = ChangesUpto(past, i)[a]
  <2>1. d - 1 \in a .. Len(past)
    BY <1>1
  <2>. QED BY <1>2, <2>1, NoChange
<1>4. d \in i + 1 .. Len(past) /\ i \in Nat /\ i <= Len(past)
  BY <1>1
<1>5. ChangesUpto(past, i)[d] = Append(ChangesUpto(past, i)[d - 1], d)
  BY <1>4, ChangesAre
<1>. QED BY <1>1, <1>3, <1>5 DEF ChangesOn

(* No change is after the commit that made the last content. *)
LEMMA LastChange ==
  ASSUME NEW past, Len(past) \in Nat, DOMAIN past = 1 .. Len(past), NeverReturns(past),
         NEW i \in 1 .. Len(past), NEW a \in i .. Len(past), past[a] = past[Len(past)]
  PROVE  ChangesAfter(past, i) = ChangesUpto(past, i)[a]
<1>1. \A k \in a .. Len(past) : past[k] = past[a]
  <2>. DEFINE n == Len(past)
  <2>1. n \in Nat /\ DOMAIN past = 1 .. n /\ a \in i .. n /\ i \in 1 .. n /\ past[a] = past[n]
    OBVIOUS
  <2>. HIDE DEF n
  <2>2. ASSUME NEW k \in a .. n PROVE past[k] = past[a]
    <3>1. a \in 1 .. n /\ n \in 1 .. n /\ (a = n \/ a < n)
      BY <2>1
    <3>2. CASE a = n
      <4>1. k = a
        BY <2>1, <3>2
      <4>. QED BY <4>1
    <3>3. CASE a < n
      BY <2>1, <3>1, <3>3 DEF NeverReturns
    <3>. QED BY <3>1, <3>2, <3>3
  <2>. QED BY <2>2 DEF n
<1>2. Len(past) \in a .. Len(past)
  OBVIOUS
<1>. QED BY <1>1, <1>2, NoChange DEF ChangesAfter

(* Where nothing came back, changes that lead from commit i to the last one *)
(* are all of them.                                                         *)
LEMMA FirstChange ==
  ASSUME NEW past, Len(past) \in Nat, DOMAIN past = 1 .. Len(past), NeverReturns(past),
         NEW i \in 1 .. Len(past), NEW d \in 2 .. Len(past), i = d - 1, past[d] # past[i]
  PROVE  ChangesUpto(past, i)[d] = << d >> /\ d \in i .. Len(past)
<1>1. ChangesUpto(past, i)[i] = << >> /\ i \in i .. Len(past) /\ past[d - 1] = past[i] /\ past[d] # past[d - 1]
  BY ChangesAre
<1>2. ChangesUpto(past, i)[d] = Append(ChangesUpto(past, i)[i], d)
  <2>1. ChangesOn(past, i, i, d)
    BY <1>1, OneChange
  <2>. QED BY <2>1 DEF ChangesOn
<1>3. Append(<< >>, d) = << d >>
  OBVIOUS
<1>. QED BY <1>1, <1>2, <1>3

LEMMA AllChanges ==
  ASSUME NEW past, Len(past) \in Nat, DOMAIN past = 1 .. Len(past), NeverReturns(past),
         NEW i \in 1 .. Len(past), NEW d \in 2 .. Len(past), i = d - 1, past[d] # past[i]
  PROVE  /\ past[d] = past[Len(past)] => ChangesAfter(past, i) = << d >>
         /\ \A e \in 2 .. Len(past) :
              past[e - 1] = past[d] /\ past[e] # past[e - 1] /\ past[e] = past[Len(past)] =>
                ChangesAfter(past, i) = << d, e >>
<1>1. ChangesUpto(past, i)[d] = << d >> /\ d \in i .. Len(past)
  BY FirstChange
<1>2. past[d] = past[Len(past)] => ChangesAfter(past, i) = << d >>
  BY <1>1, LastChange
<1>3. ASSUME NEW e \in 2 .. Len(past),
             past[e - 1] = past[d], past[e] # past[e - 1], past[e] = past[Len(past)]
      PROVE  ChangesAfter(past, i) = << d, e >>
  <2>1. d < e /\ ChangesUpto(past, i)[e] = Append(ChangesUpto(past, i)[d], e)
    <3>1. ChangesOn(past, i, d, e)
      BY <1>1, <1>3, OneChange
    <3>. QED BY <3>1 DEF ChangesOn
  <2>2. e \in i .. Len(past)
    BY <1>1, <2>1
  <2>3. ChangesAfter(past, i) = ChangesUpto(past, i)[e]
    <3>1. e \in i .. Len(past) /\ past[e] = past[Len(past)]
      BY <1>3, <2>2
    <3>. QED BY <3>1, LastChange
  <2>4. Append(<< d >>, e) = << d, e >>
    BY Tuples
  <2>. QED BY <1>1, <2>1, <2>3, <2>4
<1>. QED BY <1>2, <1>3

(* A hop that holds is a change of the history. *)
Hop(past) == [commit : {0} \cup DOMAIN past, misquoted : {FALSE}, result : Hash]

LEMMA HopIsChange ==
  ASSUME NEW past, Len(past) \in Nat, DOMAIN past = 1 .. Len(past),
         NEW cited \in Hash, NEW h, NEW k, h[k] \in Hop(past),
         HopHolds(past, h, cited, k), Before(h, cited, k) \in Hash
  PROVE  /\ h[k].commit \in 2 .. Len(past)
         /\ past[h[k].commit - 1] = Before(h, cited, k)
         /\ past[h[k].commit] = h[k].result /\ h[k].result # Before(h, cited, k)
         /\ h[k] = [commit |-> h[k].commit, misquoted |-> FALSE, result |-> past[h[k].commit]]
<1>. DEFINE d == h[k].commit
            n == Len(past)
<1>1. /\ d # 0 /\ Named(past, d) = d
      /\ h[k].result # Before(h, cited, k)
      /\ BlobAt(past, d) = h[k].result /\ BlobAt(past, d - 1) = Before(h, cited, k)
  BY DEF HopHolds, Named, Mutable
<1>2. d \in DOMAIN past /\ h[k].misquoted = FALSE /\ h[k].result \in Hash
      /\ h[k] = [commit |-> d, misquoted |-> FALSE, result |-> h[k].result]
  BY <1>1 DEF Hop
<1>. HIDE DEF d
<1>3. past[d] = h[k].result
  BY <1>1, <1>2 DEF BlobAt
<1>4. d - 1 \in DOMAIN past /\ past[d - 1] = Before(h, cited, k)
  BY <1>1, HashAssumption DEF BlobAt
<1>5. d \in 2 .. Len(past)
  BY <1>2, <1>4
<1>. QED BY <1>1, <1>2, <1>3, <1>4, <1>5 DEF d

Complete(past, h, cited, end) ==
  \E i \in DOMAIN past :
    /\ past[i] = cited
    /\ NeverReturns(past) /\ end = past[Len(past)] => h = HonestRecord(past, i).hops

(* A record of at most two hops that holds of a history in which nothing    *)
(* came back names all the changes.                                         *)
LEMMA CompleteRecord ==
  ASSUME NEW past, Len(past) \in Nat, DOMAIN past = 1 .. Len(past),
         NEW cited \in Hash, NEW m \in 1 .. 2, NEW h \in [1 .. m -> Hop(past)],
         \A k \in 1 .. m : HopHolds(past, h, cited, k)
  PROVE  Complete(past, h, cited, h[m].result)
<1>. DEFINE n == Len(past)
            d == h[1].commit
            e == h[2].commit
            Is(k) == h[k] = [commit |-> h[k].commit, misquoted |-> FALSE, result |-> past[h[k].commit]]
<1>1. /\ d \in 2 .. n /\ past[d - 1] = cited /\ past[d] = h[1].result
      /\ past[d] # cited /\ Is(1) /\ h[1].result \in Hash
  <2>1. Before(h, cited, 1) = cited /\ 1 \in 1 .. m
    BY DEF Before
  <2>2. h[1] \in Hop(past) /\ HopHolds(past, h, cited, 1)
    BY <2>1
  <2>3. h[1].result \in Hash
    BY <2>2 DEF Hop
  <2>4. /\ h[1].commit \in 2 .. Len(past)
        /\ past[h[1].commit - 1] = Before(h, cited, 1)
        /\ past[h[1].commit] = h[1].result /\ h[1].result # Before(h, cited, 1)
        /\ h[1] = [commit |-> h[1].commit, misquoted |-> FALSE, result |-> past[h[1].commit]]
    <3>1. Before(h, cited, 1) \in Hash
      BY <2>1
    <3>. HIDE DEF Is, d, n
    <3>. QED BY <2>2, <3>1, HopIsChange
  <2>. QED BY <2>1, <2>3, <2>4
<1>2. CASE m = 2
  <2>1. Before(h, cited, 2) = past[d]
    BY <1>1 DEF Before
  <2>2. h[2] \in Hop(past) /\ HopHolds(past, h, cited, 2)
    BY <1>2
  <2>3. e \in 2 .. n /\ past[e - 1] = past[d] /\ past[e] = h[2].result /\ past[e] # past[e - 1] /\ Is(2)
    <3>1. Before(h, cited, 2) \in Hash
      BY <1>1, <2>1
    <3>2. /\ h[2].commit \in 2 .. Len(past)
          /\ past[h[2].commit - 1] = Before(h, cited, 2)
          /\ past[h[2].commit] = h[2].result /\ h[2].result # Before(h, cited, 2)
          /\ h[2] = [commit |-> h[2].commit, misquoted |-> FALSE, result |-> past[h[2].commit]]
      <4>. HIDE DEF Is, d, n, e
      <4>1. ASSUME NEW k, h[k] \in Hop(past), HopHolds(past, h, cited, k), Before(h, cited, k) \in Hash
            PROVE  /\ h[k].commit \in 2 .. Len(past)
                   /\ past[h[k].commit - 1] = Before(h, cited, k)
                   /\ past[h[k].commit] = h[k].result /\ h[k].result # Before(h, cited, k)
                   /\ h[k] = [commit |-> h[k].commit, misquoted |-> FALSE, result |-> past[h[k].commit]]
        BY <4>1, HopIsChange
      <4>. QED BY <2>2, <3>1, <4>1
    <3>3. e \in 2 .. n /\ Is(2)
      BY <3>2
    <3>4. past[e - 1] = Before(h, cited, 2) /\ past[e] = h[2].result
      BY <3>2
    <3>. HIDE DEF Is, d, n, e
    <3>5. h[2].result # Before(h, cited, 2)
      BY <3>2
    <3>. QED BY <2>1, <3>3, <3>4, <3>5
  <2>5. ASSUME NeverReturns(past), h[m].result = past[n] PROVE h = HonestRecord(past, d - 1).hops
    <3>0. past[e] = past[n]
      BY <1>2, <2>3, <2>5
    <3>1. d - 1 \in 1 .. n
      BY <1>1
    <3>. HIDE DEF d, e, n, Is
    <3>2. ChangesAfter(past, d - 1) = << d, e >>
      <4>1. d \in 2 .. Len(past) /\ past[d] # past[d - 1]
        BY <1>1 DEF n
      <4>2. e \in 2 .. Len(past) /\ past[e - 1] = past[d] /\ past[e] # past[e - 1] /\ past[e] = past[Len(past)]
        BY <2>3, <3>0 DEF n
      <4>3. d - 1 \in 1 .. Len(past)
        BY <3>1 DEF n
      <4>. HIDE DEF d, e
      <4>. QED BY <2>5, <4>1, <4>2, <4>3, AllChanges
    <3>3. HonestRecord(past, d - 1).hops =
            [k \in 1 .. 2 |-> [commit |-> << d, e >>[k], misquoted |-> FALSE, result |-> past[<< d, e >>[k]]]]
      <4>1. DOMAIN << d, e >> = 1 .. 2
        BY Tuples
      <4>. QED BY <3>2, <4>1 DEF HonestRecord
    <3>4. h[1] = [commit |-> d, misquoted |-> FALSE, result |-> past[d]]
          /\ h[2] = [commit |-> e, misquoted |-> FALSE, result |-> past[e]]
      BY <1>1, <2>3 DEF Is, d, e
    <3>5. \A k \in 1 .. 2 : h[k] = [commit |-> << d, e >>[k], misquoted |-> FALSE, result |-> past[<< d, e >>[k]]]
      <4>1. << d, e >>[1] = d /\ << d, e >>[2] = e
        BY Tuples
      <4>2. ASSUME NEW k \in 1 .. 2
            PROVE  h[k] = [commit |-> << d, e >>[k], misquoted |-> FALSE, result |-> past[<< d, e >>[k]]]
        <5>1. CASE k = 1
          BY <3>4, <4>1, <5>1
        <5>2. CASE k = 2
          BY <3>4, <4>1, <5>2
        <5>. QED BY <5>1, <5>2
      <4>. QED BY <4>2
    <3>. QED BY <1>2, <3>3, <3>5
  <2>6. d - 1 \in DOMAIN past
    BY <1>1
  <2>. QED BY <1>1, <2>5, <2>6 DEF Complete
<1>3. CASE m = 1
  <2>2. ASSUME NeverReturns(past), h[m].result = past[n] PROVE h = HonestRecord(past, d - 1).hops
    <3>0. past[d] = past[n]
      BY <1>1, <1>3, <2>2
    <3>1. d - 1 \in 1 .. n
      BY <1>1
    <3>. HIDE DEF d, n, Is
    <3>2. ChangesAfter(past, d - 1) = << d >>
      BY <1>1, <3>0, <2>2, <3>1, AllChanges DEF n
    <3>3. HonestRecord(past, d - 1).hops =
            [k \in 1 .. 1 |-> [commit |-> << d >>[k], misquoted |-> FALSE, result |-> past[<< d >>[k]]]]
      <4>1. DOMAIN << d >> = 1 .. 1
        BY Tuples
      <4>. QED BY <3>2, <4>1 DEF HonestRecord
    <3>4. h[1] = [commit |-> d, misquoted |-> FALSE, result |-> past[d]]
      BY <1>1 DEF Is, d
    <3>5. \A k \in 1 .. 1 : h[k] = [commit |-> << d >>[k], misquoted |-> FALSE, result |-> past[<< d >>[k]]]
      <4>1. << d >>[1] = d
        BY Tuples
      <4>2. ASSUME NEW k \in 1 .. 1
            PROVE  h[k] = [commit |-> << d >>[k], misquoted |-> FALSE, result |-> past[<< d >>[k]]]
        <5>1. k = 1
          OBVIOUS
        <5>. QED BY <3>4, <4>1, <5>1
      <4>. QED BY <4>2
    <3>. QED BY <1>3, <3>3, <3>5
  <2>3. d - 1 \in DOMAIN past
    BY <1>1
  <2>. QED BY <1>1, <2>2, <2>3 DEF Complete
<1>. QED BY <1>2, <1>3

-----------------------------------------------------------------------------
(* The types of a package; histories are of one length, for a commit holds  *)
(* whole trees.                                                             *)
Receipts ==
  [ready : BOOLEAN, kind : {"metric", "proof", "other"}, pairs : BOOLEAN,
   blocks : SUBSET {"authority", "fallback"}, leaks : BOOLEAN, replay : BOOLEAN]

PackageTypes ==
  /\ file \in [Path -> Hash \cup {Absent}] /\ sums \in [Path -> Hash \cup {Absent}]
  /\ claim \in [Site -> Hash] /\ mapped \in [Design -> Hash] /\ receipt \in Receipts
  /\ pinned \in BOOLEAN /\ git \in BOOLEAN /\ edits \in Nat /\ half \in {"package", "citations", "gate"}

Commits(n) == /\ MaxCommits \in Nat /\ n \in 1 .. MaxCommits /\ DOMAIN history = Name
              /\ \A p \in Name : history[p] \in Seq(Hash \cup {Absent}) /\ Len(history[p]) = n

(* What is excused is a stale citation and was accepted before; a citation  *)
(* is of a hash, only the authors of citations have one, and no record is    *)
(* beside that of a generated log.                                           *)
Cited == [name : {"gate", "gen"}, shape : {"role", "object", "bare"}, sha : Hash]
Stale == {<<"stale", c, g>> : c \in Cited, g \in Hash}

Citation == IF half = "citations" THEN cite \in Cited ELSE cite = None

Recorded == \/ record = None
           \/ /\ cite.name # "gen" /\ Len(record.hops) \in 1 .. MaxCommits - 1
              /\ DOMAIN record.hops = 1 .. Len(record.hops)

Excuses ==
  /\ baseline \in [parses : BOOLEAN, entries : SUBSET accepted]
  /\ accepted \subseteq Stale /\ \E e : accepted \subseteq {e}
  /\ Citation /\ Recorded

ReceiptsInv == PackageTypes /\ (\E n : Commits(n)) /\ Excuses

(* The cited files are files of the package or beside it. *)
LEMMA NameIsPath == Name \subseteq Path
BY DEF Name, Path, Shipped

(* The invariant holds of a package as it was published ... *)
LEMMA ReceiptsStart == GateInit => ReceiptsInv
<1>. SUFFICES ASSUME GateInit PROVE ReceiptsInv
  OBVIOUS
<1>0. Start /\ half \in {"package", "citations", "gate"}
  BY PublishedAssumption, Zenon DEF GateInit
<1>1. /\ file \in [Path -> Hash \cup {Absent}] /\ claim \in [Site -> Hash]
      /\ mapped \in [Design -> Hash]
  <2>1. file = [p \in Path |-> IF p \in Shipped THEN AsPublished[p] ELSE Absent]
    BY <1>0, Zenon DEF Start
  <2>2. \A p \in Shipped : file[p] \in Hash
    <3>1. \A p \in Shipped : AsPublished[p] \in Hash /\ p \in Path
      BY PublishedAssumption DEF Path
    <3>. QED BY <2>1, <3>1
  <2>3. file["gate"] \in Hash /\ file["netlist"] \in Hash /\ file["control"] \in Hash /\ file["log"] \in Hash
    BY <2>2 DEF Shipped
  <2>4. file \in [Path -> Hash \cup {Absent}]
    <3>1. \A p \in Shipped : AsPublished[p] \in Hash
      BY PublishedAssumption
    <3>. QED BY <2>1, <3>1
  <2>5. claim \in [Site -> Hash]
    <3>1. claim = [s \in Site |-> file[Subject(s)]]
      BY <1>0, Zenon DEF Start
    <3>2. \A s : Subject(s) \in {"control", "log", "gate"}
      BY DEF Subject
    <3>. QED BY <2>3, <3>1, <3>2
  <2>6. mapped \in [Design -> Hash]
    <3>1. mapped = [s \in Design |-> file["netlist"]]
      BY <1>0, Zenon DEF Start
    <3>. QED BY <2>3, <3>1
  <2>. QED BY <2>4, <2>5, <2>6
<1>2. PackageTypes
  <2>1. sums = file /\ pinned = TRUE /\ edits = 0
    BY <1>0, Zenon DEF Start
  <2>2. receipt = [ready |-> half = "package", kind |-> "metric", blocks |-> {"authority"},
                   pairs |-> FALSE, leaks |-> FALSE, replay |-> TRUE]
    BY <1>0, Zenon DEF Start
  <2>3. (half = "package") \in BOOLEAN
    OBVIOUS
  <2>4. receipt \in Receipts
    BY <2>2, <2>3 DEF Receipts
  <2>5. git \in BOOLEAN
    <3>1. git \in ReadableAtFirst
      BY <1>0, Zenon DEF Start
    <3>. QED BY <3>1 DEF ReadableAtFirst
  <2>. QED BY <1>0, <1>1, <2>1, <2>4, <2>5 DEF PackageTypes
<1>3. Commits(1)
  <2>1. PICK q : history = [p \in Name |-> IF p = q THEN << Absent >> ELSE << file[p] >>]
    <3>1. history \in FirstHistories
      BY <1>0, Zenon DEF Start
    <3>. QED BY <3>1 DEF FirstHistories
  <2>2. ASSUME NEW p \in Name PROVE history[p] \in Seq(Hash \cup {Absent}) /\ Len(history[p]) = 1
    <3>1. file[p] \in Hash \cup {Absent}
      BY <1>1, NameIsPath
    <3>2. PICK h \in Hash \cup {Absent} : history[p] = << h >>
      BY <2>1, <3>1
    <3>3. << h >> \in Seq(Hash \cup {Absent}) /\ Len(<< h >>) = 1
      <4>. DEFINE T == Hash \cup {Absent}
      <4>1. h \in T
        OBVIOUS
      <4>. HIDE DEF T
      <4>2. << h >> \in Seq(T) /\ Len(<< h >>) = 1
        BY <4>1
      <4>. QED BY <4>2 DEF T
    <3>. QED BY <3>2, <3>3
  <2>. QED BY <2>1, <2>2, BoundsAssumption DEF Commits
<1>4. IF half = "citations" THEN cite \in Cited ELSE cite = None
  <2>1. cite \in FirstCitations
    BY <1>0, Zenon DEF Start
  <2>2. CitedAs \subseteq Cited
    BY PublishedAssumption DEF Cited
  <2>. QED BY <2>1, <2>2 DEF FirstCitations
<1>5. ASSUME NEW p \in Path, Hits(cite) = {p} PROVE file[p] \in Hash
  <2>1. p \in Hits(cite)
    BY <1>5
  <2>2. file[p] # Absent
    BY <2>1 DEF Hits, Present
  <2>. QED BY <1>1, <2>2
<1>6. StaleCitation \subseteq Stale /\ \E e : StaleCitation \subseteq {e}
  <2>1. CASE cite = None
    BY <2>1 DEF StaleCitation
  <2>2. CASE cite # None
    <3>1. cite \in Cited
      BY <1>4, <2>2
    <3>2. StaleCitation \subseteq Stale
      BY <1>5, <2>2, <3>1 DEF StaleCitation, Stale
    <3>3. \A p, q : Hits(cite) = {p} /\ Hits(cite) = {q} => p = q
      OBVIOUS
    <3>4. \A e, f \in StaleCitation : e = f
      BY <3>3 DEF StaleCitation
    <3>5. CASE StaleCitation = {}
      BY <3>2, <3>5
    <3>6. CASE StaleCitation # {}
      <4>1. PICK e : e \in StaleCitation
        BY <3>6
      <4>2. StaleCitation \subseteq {e}
        BY <3>4, <4>1
      <4>. QED BY <3>2, <4>2
    <3>. QED BY <3>5, <3>6
  <2>. QED BY <2>1, <2>2
<1>7. baseline = [parses |-> TRUE, entries |-> StaleCitation] /\ accepted = StaleCitation /\ record = None
  BY <1>0, Zenon DEF Start
<1>8. baseline \in [parses : BOOLEAN, entries : SUBSET accepted]
  BY <1>7
<1>. QED BY <1>2, <1>3, <1>4, <1>6, <1>7, <1>8 DEF ReceiptsInv, Excuses, Citation, Recorded

(* A step that excuses nothing new. *)
LEMMA ExcusesStay ==
  ASSUME Excuses, accepted' \subseteq accepted, Citation', Recorded',
         baseline' \in [parses : BOOLEAN, entries : SUBSET accepted']
  PROVE  Excuses'
<1>1. Stale' = Stale
  BY DEF Stale
<1>2. accepted \subseteq Stale /\ \E e : accepted \subseteq {e}
  BY DEF Excuses
<1>3. accepted' \subseteq Stale' /\ \E e : accepted' \subseteq {e}
  BY <1>1, <1>2
<1>. QED BY <1>3 DEF Excuses

(* The authors of the package change no citation. *)
LEMMA AuthorStep ==
  ASSUME ReceiptsInv, UNCHANGED <<cite, record, history, git, accepted, half>>, PackageTypes',
         baseline' \in [parses : BOOLEAN, entries : SUBSET accepted]
  PROVE  ReceiptsInv'
<1>1. (\E n : Commits(n))'
  BY DEF ReceiptsInv, Commits
<1>2. Citation' /\ Recorded'
  BY DEF ReceiptsInv, Excuses, Citation, Recorded, Cited
<1>3. Excuses'
  BY <1>2, ExcusesStay DEF ReceiptsInv
<1>. QED BY <1>1, <1>3 DEF ReceiptsInv

(* A lineage that is recorded has a hop, and fewer than there are commits. *)
LEMMA RecordStep ==
  ASSUME ReceiptsInv, NEW p \in Name, NEW i \in DOMAIN history[p], NEW sha,
         Record(p, i, sha)
  PROVE  ReceiptsInv'
<1>1. /\ cite \in Cited /\ cite' = [cite EXCEPT !.sha = sha] /\ sha \in {cite.sha, file[p]}
      /\ p \in Hits(cite) /\ record' = HonestRecord(history[p], i)
      /\ ChangesAfter(history[p], i) # << >>
      /\ UNCHANGED <<file, sums, pinned, claim, mapped, receipt, half, edits, history, git, baseline, accepted>>
      /\ half = "citations"
  BY DEF ReceiptsInv, Excuses, Citation, Record, Citing
<1>2. cite' \in Cited
  <2>1. file[p] \in Hash
    <3>1. file[p] # Absent /\ file[p] \in Hash \cup {Absent}
      BY <1>1, NameIsPath DEF Hits, Present, ReceiptsInv, PackageTypes
    <3>. QED BY <3>1
  <2>. QED BY <1>1, <2>1 DEF Cited
<1>8. cite'.name = cite.name /\ cite.name # "gen"
  <2>1. p \in Bases(cite) /\ p # "gen"
    BY <1>1 DEF Hits, Name
  <2>. QED BY <1>1, <2>1 DEF Bases, Cited
<1>3. PICK n : Commits(n)
  BY DEF ReceiptsInv
<1>4. Commits(n)'
  BY <1>1, <1>3 DEF Commits
<1>5. Len(record'.hops) \in 1 .. MaxCommits - 1 /\ DOMAIN record'.hops = 1 .. Len(record'.hops)
  <2>. DEFINE past == history[p]
              s == ChangesAfter(past, i)
  <2>1. past \in Seq(Hash \cup {Absent}) /\ Len(past) = n /\ n \in 1 .. MaxCommits
    BY <1>3 DEF Commits
  <2>2. n \in Nat /\ i \in 1 .. n
    BY <2>1
  <2>3. Leads(past, i, n, s)
    <3>. HIDE DEF past
    <3>. QED BY <2>1, <2>2, ChangesLead
  <2>4. s \in Seq(i + 1 .. n) /\ Len(s) <= n - i /\ s # << >>
    BY <1>1, <2>3 DEF Leads
  <2>5. record'.hops = [k \in DOMAIN s |->
                          [commit |-> s[k], misquoted |-> FALSE, result |-> past[s[k]]]]
    BY <1>1 DEF HonestRecord
  <2>. HIDE DEF past, s
  <2>6. Len(s) \in Nat \ {0} /\ DOMAIN s = 1 .. Len(s)
    BY <2>4, EmptySeq, LenProperties
  <2>7. DOMAIN record'.hops = 1 .. Len(s)
    BY <2>5, <2>6
  <2>8. Len(record'.hops) = Len(s)
    BY <2>5, <2>6
  <2>9. MaxCommits \in Nat /\ n <= MaxCommits
    BY <1>3, <2>2 DEF Commits
  <2>10. Len(s) \in 1 .. MaxCommits - 1
    BY <2>2, <2>4, <2>6, <2>9
  <2>. QED BY <2>7, <2>8, <2>10
<1>6. PackageTypes'
  BY <1>1 DEF ReceiptsInv, PackageTypes
<1>7. Excuses'
  <2>1. accepted' \subseteq accepted /\ baseline' \in [parses : BOOLEAN, entries : SUBSET accepted']
    BY <1>1 DEF ReceiptsInv, Excuses
  <2>2. Citation' /\ Recorded'
    BY <1>1, <1>2, <1>5, <1>8 DEF Citation, Recorded, Cited
  <2>. QED BY <2>1, <2>2, ExcusesStay DEF ReceiptsInv
<1>. QED BY <1>4, <1>6, <1>7 DEF ReceiptsInv

(* A commit that is green accepts what the list excuses, and no more. *)
LEMMA CommitStep ==
  ASSUME ReceiptsInv, Commit PROVE ReceiptsInv'
<1>1. /\ history' = [p \in Name |-> Append(history[p], file[p])]
      /\ UNCHANGED <<file, sums, pinned, claim, mapped, receipt, git, cite, record, half, edits, baseline>>
      /\ accepted' = accepted \/ accepted' = baseline.entries
      /\ Len(history["gate"]) < MaxCommits
  BY DEF Commit, Citing, ExitCode
<1>2. PICK n : Commits(n)
  BY DEF ReceiptsInv
<1>3. Commits(n + 1)'
  <2>1. \A p \in Name : file[p] \in Hash \cup {Absent}
    BY NameIsPath DEF ReceiptsInv, PackageTypes
  <2>2. \A p \in Name : history[p] \in Seq(Hash \cup {Absent}) /\ Len(history[p]) = n
    BY <1>2 DEF Commits
  <2>3. ASSUME NEW p \in Name
        PROVE  history'[p] \in Seq(Hash \cup {Absent}) /\ Len(history'[p]) = n + 1
    BY <1>1, <2>1, <2>2, AppendProperties
  <2>4. MaxCommits \in Nat /\ n \in 1 .. MaxCommits /\ n < MaxCommits
    BY <1>1, <1>2, <2>2 DEF Commits, Name
  <2>5. n + 1 \in 1 .. MaxCommits
    <3>1. n \in Nat /\ 1 <= n /\ n <= MaxCommits /\ MaxCommits \in Nat
      BY <1>2, <2>4 DEF Commits
    <3>. QED BY <2>4, <3>1
  <2>. QED BY <1>1, <2>3, <2>4, <2>5 DEF Commits
<1>4. /\ baseline \in [parses : BOOLEAN, entries : SUBSET accepted]
      /\ baseline.entries \subseteq accepted /\ accepted \subseteq Stale
      /\ \E e : accepted \subseteq {e}
  BY DEF ReceiptsInv, Excuses
<1>5. baseline' \in [parses : BOOLEAN, entries : SUBSET accepted']
  BY <1>1, <1>4
<1>6. accepted' \subseteq accepted
  BY <1>1, <1>4
<1>7. Excuses'
  <2>1. Citation' /\ Recorded'
    BY <1>1 DEF ReceiptsInv, Excuses, Citation, Recorded, Cited
  <2>. QED BY <1>5, <1>6, <2>1, ExcusesStay DEF ReceiptsInv
<1>8. PackageTypes'
  BY <1>1 DEF ReceiptsInv, PackageTypes
<1>. QED BY <1>3, <1>7, <1>8 DEF ReceiptsInv

(* ... and every step of its authors keeps it. *)
LEMMA PackageStep == ReceiptsInv /\ Next => ReceiptsInv' /\ accepted' \subseteq accepted
<1>. SUFFICES ASSUME ReceiptsInv, Next PROVE ReceiptsInv' /\ accepted' \subseteq accepted
  OBVIOUS
<1>0. PackageTypes /\ baseline \in [parses : BOOLEAN, entries : SUBSET accepted]
  BY DEF ReceiptsInv, Excuses
<1>. USE DEF Author, Edit, EditReceipt, Citing
<1>1. ASSUME NEW p \in Shipped, NEW h \in Hash \cup {Absent}, EditFile(p, h)
      PROVE  ReceiptsInv' /\ accepted' = accepted
  <2>1. file' = [file EXCEPT ![p] = h] /\ edits' = edits + 1
        /\ UNCHANGED <<sums, pinned, claim, mapped, receipt, cite, record, history, git, accepted, half, baseline>>
    BY <1>1 DEF EditFile
  <2>2. file' \in [Path -> Hash \cup {Absent}]
    BY <1>0, <2>1 DEF PackageTypes
  <2>3. PackageTypes'
    BY <1>0, <2>1, <2>2 DEF PackageTypes
  <2>. QED BY <1>0, <2>1, <2>3, AuthorStep
<1>2. ASSUME NEW listed, Rehash(listed) PROVE ReceiptsInv' /\ accepted' = accepted
  <2>1. sums' = [p \in Path |-> IF p \in listed THEN file[p] ELSE Absent] /\ pinned' = TRUE /\ edits' = edits + 1
        /\ UNCHANGED <<file, claim, mapped, receipt, cite, record, history, git, accepted, half, baseline>>
    BY <1>2 DEF Rehash
  <2>2. PackageTypes'
    BY <1>0, <2>1 DEF PackageTypes
  <2>. QED BY <1>0, <2>1, <2>2, AuthorStep
<1>3. ASSUME NEW p \in Path, Unlist(p) PROVE ReceiptsInv' /\ accepted' = accepted
  <2>1. sums' = [sums EXCEPT ![p] = Absent] /\ edits' = edits + 1
        /\ UNCHANGED <<file, pinned, claim, mapped, receipt, cite, record, history, git, accepted, half, baseline>>
    BY <1>3 DEF Unlist
  <2>2. sums' \in [Path -> Hash \cup {Absent}]
    BY <1>0, <2>1 DEF PackageTypes
  <2>3. PackageTypes'
    BY <1>0, <2>1, <2>2 DEF PackageTypes
  <2>. QED BY <1>0, <2>1, <2>3, AuthorStep
<1>4. ASSUME NEW s, NEW h \in Hash, State(s, h) PROVE ReceiptsInv' /\ accepted' = accepted
  <2>1. claim' = [claim EXCEPT ![s] = h] /\ edits' = edits + 1 /\ pinned' \in BOOLEAN
        /\ UNCHANGED <<file, sums, mapped, receipt, cite, record, history, git, accepted, half, baseline>>
    BY <1>4 DEF State
  <2>2. claim' \in [Site -> Hash]
    BY <1>0, <2>1 DEF PackageTypes
  <2>3. PackageTypes'
    BY <1>0, <2>1, <2>2 DEF PackageTypes
  <2>. QED BY <1>0, <2>1, <2>3, AuthorStep
<1>15. ASSUME NEW s, NEW h \in Hash, StateMapped(s, h) PROVE ReceiptsInv' /\ accepted' = accepted
  <2>1. mapped' = [mapped EXCEPT ![s] = h] /\ edits' = edits + 1 /\ pinned' \in BOOLEAN
        /\ UNCHANGED <<file, sums, claim, receipt, cite, record, history, git, accepted, half, baseline>>
    BY <1>15 DEF StateMapped
  <2>2. mapped' \in [Design -> Hash]
    BY <1>0, <2>1 DEF PackageTypes
  <2>3. PackageTypes'
    BY <1>0, <2>1, <2>2 DEF PackageTypes
  <2>. QED BY <1>0, <2>1, <2>3, AuthorStep
<1>16. ASSUME Remeasure PROVE ReceiptsInv' /\ accepted' = accepted
  <2>1. /\ claim' = [s \in Site |-> IF s \in Design \cup {"authority"} THEN file["gate"] ELSE claim[s]]
        /\ mapped' = [s \in Design |-> file["netlist"]]
        /\ edits' = edits + 1 /\ pinned' \in BOOLEAN
        /\ UNCHANGED <<file, sums, receipt, cite, record, history, git, accepted, half, baseline>>
    BY <1>16 DEF Remeasure
  <2>2. file["gate"] \in Hash /\ file["netlist"] \in Hash
    BY <1>0, <1>16 DEF Remeasure, PackageTypes, Present, Path, Shipped
  <2>3. claim' \in [Site -> Hash] /\ mapped' \in [Design -> Hash]
    BY <1>0, <2>1, <2>2 DEF PackageTypes
  <2>4. PackageTypes'
    BY <1>0, <2>1, <2>3 DEF PackageTypes
  <2>. QED BY <1>0, <2>1, <2>4, AuthorStep
<1>5. ASSUME NEW r \in Types, Retype(r) PROVE ReceiptsInv' /\ accepted' = accepted
  <2>1. receipt' = r /\ edits' = edits + 1 /\ pinned' \in BOOLEAN
        /\ UNCHANGED <<file, sums, claim, mapped, cite, record, history, git, accepted, half, baseline>>
    BY <1>5 DEF Retype
  <2>2. r \in Receipts
    <3>1. receipt \in Receipts
      BY <1>0 DEF PackageTypes
    <3>2. [receipt EXCEPT !.leaks = TRUE] \in Receipts /\ [receipt EXCEPT !.replay = FALSE] \in Receipts
      BY <3>1 DEF Receipts
    <3>3. CASE r \in {[receipt EXCEPT !.leaks = TRUE], [receipt EXCEPT !.replay = FALSE]}
      BY <3>2, <3>3
    <3>4. CASE r \in [ready : {TRUE}, kind : {"metric", "proof", "other"},
                      blocks : SUBSET {"authority", "fallback"}, pairs : BOOLEAN, leaks : {FALSE}, replay : {TRUE}]
      BY <3>4 DEF Receipts
    <3>. QED BY <3>3, <3>4 DEF Types
  <2>3. PackageTypes'
    BY <1>0, <2>1, <2>2 DEF PackageTypes, Receipts
  <2>. QED BY <1>0, <2>1, <2>3, AuthorStep
<1>6. ASSUME NEW h \in Hash, Replay(h) PROVE ReceiptsInv' /\ accepted' = accepted
  <2>1. file' = [file EXCEPT !["gen"] = h] /\ edits' \in {edits, edits + 1}
        /\ UNCHANGED <<sums, pinned, claim, mapped, receipt, cite, record, history, git, accepted, half, baseline>>
    BY <1>6 DEF Replay
  <2>2. file' \in [Path -> Hash \cup {Absent}]
    BY <1>0, <2>1 DEF PackageTypes
  <2>3. PackageTypes'
    BY <1>0, <2>1, <2>2 DEF PackageTypes
  <2>. QED BY <1>0, <2>1, <2>3, AuthorStep
<1>7. CASE BreakBaseline
  <2>1. baseline' = [baseline EXCEPT !.parses = ~baseline.parses] /\ edits' = edits + 1
        /\ UNCHANGED <<file, sums, pinned, claim, mapped, receipt, cite, record, history, git, accepted, half>>
    BY <1>7 DEF BreakBaseline
  <2>2. PackageTypes'
    BY <1>0, <2>1 DEF PackageTypes
  <2>3. baseline' \in [parses : BOOLEAN, entries : SUBSET accepted]
    BY <1>0, <2>1
  <2>. QED BY <2>1, <2>2, <2>3, AuthorStep
<1>8. ASSUME NEW p, NEW h \in Hash \cup {Absent}, Change(p, h) PROVE ReceiptsInv' /\ accepted' = accepted
  <2>1. file' = [file EXCEPT ![p] = h] /\ sums' = [sums EXCEPT ![p] = IF p = "gate" THEN h ELSE sums[p]]
        /\ UNCHANGED <<pinned, claim, mapped, receipt, edits, cite, record, history, git, accepted, half, baseline>>
    BY <1>8 DEF Change
  <2>2. file' \in [Path -> Hash \cup {Absent}]
    BY <1>0, <2>1 DEF PackageTypes
  <2>3. sums' \in [Path -> Hash \cup {Absent}]
    BY <1>0, <2>1 DEF PackageTypes
  <2>4. PackageTypes'
    BY <1>0, <2>1, <2>2, <2>3 DEF PackageTypes
  <2>. QED BY <1>0, <2>1, <2>4, AuthorStep
<1>10. ASSUME NEW sha \in Hash, Cite(sha) PROVE ReceiptsInv' /\ accepted' = accepted
  <2>1. /\ cite \in Cited /\ cite' = [cite EXCEPT !.sha = sha] /\ record' = None /\ half = "citations"
        /\ UNCHANGED <<file, sums, pinned, claim, mapped, receipt, edits, history, git, baseline, accepted, half>>
    BY <1>10 DEF ReceiptsInv, Excuses, Citation, Cite
  <2>2. cite' \in Cited
    BY <2>1 DEF Cited
  <2>3. PackageTypes'
    BY <1>0, <2>1 DEF PackageTypes
  <2>4. (\E n : Commits(n))'
    BY <2>1 DEF ReceiptsInv, Commits
  <2>6. Citation' /\ Recorded'
    BY <2>1, <2>2 DEF Citation, Recorded, Cited
  <2>7. Excuses'
    BY <1>0, <2>1, <2>6, ExcusesStay DEF ReceiptsInv
  <2>. QED BY <2>1, <2>3, <2>4, <2>7 DEF ReceiptsInv
<1>11. ASSUME NEW p \in Name, NEW sha, NEW i \in DOMAIN history[p], Record(p, i, sha)
       PROVE  ReceiptsInv' /\ accepted' = accepted
  BY <1>11, RecordStep DEF Record
<1>12. ASSUME NEW e, DropEntry(e) PROVE ReceiptsInv' /\ accepted' = accepted
  <2>1. baseline' = [baseline EXCEPT !.entries = baseline.entries \ {e}]
        /\ UNCHANGED <<file, sums, pinned, claim, mapped, receipt, edits, cite, record, history, git, accepted, half>>
    BY <1>12 DEF DropEntry
  <2>2. PackageTypes'
    BY <1>0, <2>1 DEF PackageTypes
  <2>3. baseline' \in [parses : BOOLEAN, entries : SUBSET accepted]
    BY <1>0, <2>1
  <2>. QED BY <2>1, <2>2, <2>3, AuthorStep
<1>13. \A h \in {file["log"], Absent} : h \in Hash \cup {Absent}
  BY <1>0 DEF Path, Shipped, PackageTypes
<1>14. CASE Commit
  <2>1. accepted' = accepted \/ accepted' = baseline.entries
    BY <1>14 DEF Commit, ExitCode
  <2>2. accepted' \subseteq accepted
    BY <1>0, <2>1
  <2>. QED BY <1>14, <2>2, CommitStep
<1>17. Citable \subseteq Hash
  BY DEF Citable
<1>. QED
  BY <1>1, <1>2, <1>3, <1>4, <1>5, <1>6, <1>7, <1>8, <1>10, <1>11, <1>12, <1>13, <1>14, <1>15, <1>16,
     <1>17, PublishedAssumption DEF Next

(* A finding that is not a stale citation is excused by no entry. *)
LEMMA ProblemsAreNone ==
  ASSUME ReceiptsInv, ExitCode = 0
  PROVE  /\ StaleCitation = baseline.entries
         /\ \A c \in DOMAIN Passed : Passed[c]
<1>1. Problems = baseline.entries
  BY DEF ExitCode
<1>2. baseline.entries \subseteq Stale
  BY DEF ReceiptsInv, Excuses
<1>3. \A c : <<c>> \notin Stale
  BY DEF Stale
<1>4. \A c \in DOMAIN Passed : Passed[c]
  BY <1>1, <1>2, <1>3 DEF Problems
<1>5. Problems = StaleCitation
  BY <1>4 DEF Problems
<1>. QED BY <1>1, <1>4, <1>5

(* So every check has passed. *)
LEMMA AllPassed ==
  ASSUME ReceiptsInv, ExitCode = 0
  PROVE  /\ VerifySums /\ ~SumsPathEscapes /\ ManifestComplete
         /\ ReceiptBoundToLogs /\ CustomerReadyReceipt
         /\ cite = None \/ CitationHolds(cite, record) \/ StaleCitation # {}
<1>1. \A c \in {"sums", "escapes", "complete", "area", "ready", "citations"} :
        c \in DOMAIN Passed /\ Passed[c]
  BY ProblemsAreNone DEF Passed
<1>. QED BY <1>1 DEF Passed

(* What is listed is in the package and has the hash of its line; the areas, *)
(* the designs and the shipped files are all found through the manifest.     *)
LEMMA PassedShipsBound ==
  ASSUME ReceiptsInv, ExitCode = 0
  PROVE  SameCandidate /\ NothingShipsUnbound
<1>. USE DEF Listed, Present
<1>1. \A p \in Path : sums[p] # Absent => file[p] = sums[p] /\ file[p] # Absent /\ p # "twin"
  BY AllPassed DEF VerifySums, SumsPathEscapes
<1>2. \A p \in Shipped : file[p] # Absent => sums[p] = file[p]
  BY <1>1, AllPassed DEF ManifestComplete, Path
<1>3. PICK p \in {"log", "gen"} : p \in Path /\ sums[p] # Absent /\ file[p] = claim["printed"]
  <2>1. ReceiptBoundToLogs
    BY AllPassed
  <2>2. \E p \in {"log", "gen"} \cap Listed : Present(p) /\ file[p] = claim["printed"]
    BY <2>1, Zenon DEF ReceiptBoundToLogs
  <2>. QED BY <2>2
<1>4. NothingShipsUnbound
  <2>1. sums[p] = file[p]
    BY <1>1, <1>3
  <2>. QED BY <1>2, <1>3, <2>1 DEF NothingShipsUnbound
<1>5. ASSUME receipt.ready, receipt.kind = "metric"
      PROVE  \E d, m, n \in Path \ {"twin"} :
               /\ Present(d) /\ Present(m) /\ Present(n) /\ file[n] # file[d]
               /\ \A s \in Design \cup {"authority"} : claim[s] = file[d]
               /\ \A s \in Design : mapped[s] = file[m]
               /\ claim["negative"] = file[n]
  <2>1. CustomerReadyAuthority /\ SameCandidateMetricBinding
    BY <1>5, AllPassed DEF CustomerReadyReceipt
  <2>2. PICK d \in Path : sums[d] # Absent /\ sums[d] = claim["authority"]
    BY <2>1 DEF CustomerReadyAuthority, Bound
  <2>3. PICK n \in Path : sums[n] # Absent /\ sums[n] = claim["negative"]
    BY <2>1 DEF SameCandidateMetricBinding, Bound
  <2>4. PICK m \in Path : sums[m] # Absent /\ sums[m] = mapped["binding"]
    BY <2>1 DEF SameCandidateMetricBinding, Bound
  <2>5. /\ d # "twin" /\ file[d] = claim["authority"] /\ file[d] # Absent
        /\ n # "twin" /\ file[n] = claim["negative"] /\ file[n] # Absent
        /\ m # "twin" /\ file[m] = mapped["binding"] /\ file[m] # Absent
    BY <1>1, <2>2, <2>3, <2>4
  <2>6. /\ claim["negative"] # claim["binding"] /\ \A x \in Axis : claim[x] = claim["binding"]
        /\ claim["candidate"] = claim["binding"] /\ claim["authority"] = claim["candidate"]
    BY <2>1 DEF CustomerReadyAuthority, SameCandidateMetricBinding
  <2>7. mapped["candidate"] = mapped["binding"] /\ \A x \in Axis : mapped[x] = mapped["binding"]
    BY <2>1 DEF SameCandidateMetricBinding
  <2>8. \A s \in Design \cup {"authority"} : claim[s] = file[d]
    BY <2>5, <2>6 DEF Design
  <2>9. \A s \in Design : mapped[s] = file[m]
    BY <2>5, <2>7 DEF Design
  <2>. QED BY <2>2, <2>3, <2>4, <2>5, <2>6, <2>8, <2>9
<1>. QED BY <1>4, <1>5 DEF SameCandidate

(* Those who edit what the gate reads leave the package alone, but for one  *)
(* line of its manifest.                                                    *)
LEMMA GateStep ==
  ASSUME ReceiptsInv, [GateNext]_gateVars PROVE ReceiptsInv' /\ accepted' \subseteq accepted
<1>1. ASSUME UNCHANGED <<file, sums, claim, mapped, receipt, cite, record, history, git, baseline, accepted, half>>,
             pinned' \in BOOLEAN, edits' \in Nat
      PROVE  ReceiptsInv' /\ accepted' \subseteq accepted
  <2>1. PackageTypes'
    BY <1>1 DEF ReceiptsInv, PackageTypes
  <2>2. baseline' \in [parses : BOOLEAN, entries : SUBSET accepted]
    BY <1>1 DEF ReceiptsInv, Excuses
  <2>. QED BY <1>1, <2>1, <2>2, AuthorStep
<1>2. edits \in Nat /\ pinned \in BOOLEAN
  BY DEF ReceiptsInv, PackageTypes
<1>3. CASE UNCHANGED gateVars
  BY <1>1, <1>2, <1>3 DEF gateVars
<1>4. CASE Gate /\ pinned' \in BOOLEAN
  BY <1>1, <1>2, <1>4 DEF Gate
<1>5. CASE GateNext
  <2>. USE DEF Roster, Generate, HandEdit, Write, Spoil, CommitTree
  <2>1. Next \/ (Gate /\ pinned' \in BOOLEAN)
    BY <1>2, <1>5, Zenon DEF GateNext
  <2>. QED BY <1>4, <2>1, PackageStep
<1>. QED BY <1>3, <1>5

(* The invariant the theorems on receipts rest on. *)
LEMMA ReceiptsAlways == GateSpec => []ReceiptsInv
<1>1. GateInit => ReceiptsInv
  BY ReceiptsStart
<1>2. ReceiptsInv /\ [GateNext]_gateVars => ReceiptsInv'
  BY GateStep
<1>. QED BY <1>1, <1>2, PTL DEF GateSpec

(* It gives the types of the model. *)
LEMMA ReceiptsTyped == ReceiptsInv => TypeOK
<1>. SUFFICES ASSUME ReceiptsInv PROVE TypeOK
  OBVIOUS
<1>1. /\ file \in [Path -> Hash \cup {Absent}] /\ sums \in [Path -> Hash \cup {Absent}]
      /\ claim \in [Site -> Hash] /\ mapped \in [Design -> Hash] /\ git \in BOOLEAN
      /\ receipt \in [ready : BOOLEAN, kind : {"metric", "proof", "other"}, pairs : BOOLEAN,
                      blocks : SUBSET {"authority", "fallback"}, leaks : BOOLEAN, replay : BOOLEAN]
      /\ pinned \in BOOLEAN /\ edits \in Nat
  BY Zenon DEF ReceiptsInv, PackageTypes, Receipts
<1>2. cite = None \/ cite \in [name : {"gate", "gen"}, shape : {"role", "object", "bare"}, sha : Hash]
  BY DEF ReceiptsInv, Excuses, Citation, Cited
<1>3. record = None \/ Len(record.hops) \in 1 .. MaxCommits - 1
  BY DEF ReceiptsInv, Excuses, Recorded
<1>4. \A p \in Name : /\ history[p] \in Seq(Hash \cup {Absent})
                      /\ Len(history[p]) \in 1 .. MaxCommits
  BY DEF ReceiptsInv, Commits
<1>5. baseline.parses \in BOOLEAN /\ Cardinality(accepted \cup baseline.entries) <= 1
  <2>1. PICK e : accepted \subseteq {e}
    BY DEF ReceiptsInv, Excuses
  <2>2. baseline.parses \in BOOLEAN /\ baseline.entries \subseteq accepted
    BY DEF ReceiptsInv, Excuses
  <2>3. accepted \cup baseline.entries \in SUBSET {e}
    BY <2>1, <2>2
  <2>4. IsFiniteSet({e}) /\ Cardinality({e}) = 1
    BY FS_Singleton
  <2>5. Cardinality(accepted \cup baseline.entries) <= 1
    BY <2>3, <2>4, FS_Subset
  <2>6. Cardinality(accepted \cup baseline.entries) = Cardinality(accepted \cup baseline.entries)
    BY DEF Cardinality, Cardinality
  <2>. QED BY <2>2, <2>5, <2>6
<1>6. half \in {"package", "citations", "gate"}
  BY DEF ReceiptsInv, PackageTypes
<1>. QED BY <1>1, <1>2, <1>3, <1>4, <1>5, <1>6 DEF TypeOK

(* A package for which the verifier exits with 0 states one source and one   *)
(* netlist, which are files of it, and all of it is bound by the manifest,   *)
(* whoever edited files, manifest and receipt in whatever order (verify_public_receipts.py:314-425, 1275-1304). *)
THEOREM PackageAlwaysBound == GateSpec => []PackageInv
<1>1. ReceiptsInv => PackageInv
  <2>1. ReceiptsInv /\ ExitCode # 0 => SameCandidate /\ NothingShipsUnbound
    BY Zenon DEF SameCandidate, NothingShipsUnbound
  <2>. QED BY <2>1, ReceiptsTyped, PassedShipsBound, Zenon DEF PackageInv
<1>. QED BY <1>1, ReceiptsAlways, PTL

(* The findings that the last green commit excused only become fewer         *)
(* (verify_public_receipts.py:1310-1449).                                    *)
THEOREM AcceptedNeverRegrow == GateSpec => NoRegrowth
<1>1. ReceiptsInv /\ [GateNext]_gateVars => [accepted' \subseteq accepted]_vars
  BY GateStep
<1>. QED BY <1>1, ReceiptsAlways, PTL DEF GateSpec, NoRegrowth

(* What a record that an author may invent is made of. *)
LEMMA FabricatedIs ==
  ASSUME NEW p \in Name, NEW rec \in Fabricated(p)
  PROVE  /\ rec.prior \in Hash
         /\ \E m \in 1 .. 2 : /\ rec.hops \in [1 .. m -> Hop(history[p])]
                              /\ rec.hops[m].result = file[p] /\ Len(rec.hops) = m
<1>. DEFINE Made == UNION {{h \in [1 .. n -> [commit : {Mutable} \cup DOMAIN history[p],
                                     misquoted : {FALSE}, result : Hash]] :
                        h[n].result = file[p]} : n \in 1 .. 2}
<1>1. Fabricated(p) = {[prior |-> sha, current |-> file[p],
                        superseded_by |-> {hops[1].commit}, hops |-> hops] :
                           sha \in Hash \ {file[p]}, hops \in Made}
  BY DEF Fabricated
<1>2. \A hops \in Made : \E m \in 1 .. 2 : hops \in [1 .. m -> Hop(history[p])] /\ hops[m].result = file[p]
  BY DEF Hop, Mutable
<1>. HIDE DEF Made
<1>4. PICK sha \in Hash \ {file[p]}, hops \in Made :
        rec = [prior |-> sha, current |-> file[p], superseded_by |-> {hops[1].commit}, hops |-> hops]
  BY <1>1
<1>5. PICK m \in 1 .. 2 : hops \in [1 .. m -> Hop(history[p])] /\ hops[m].result = file[p]
  BY <1>2, <1>4
<1>6. Len(hops) = m
  BY <1>5
<1>. QED BY <1>4, <1>5, <1>6

(* Beside a citation that matches or not, a record holds hop by hop. *)
LEMMA AcceptedHolds ==
  ASSUME NEW p \in Name, NEW rec, Accepted(p, rec)
  PROVE  \A k \in DOMAIN rec.hops : HopHolds(history[p], rec.hops, rec.prior, k)
BY DEF Accepted, Superseded, Settled, VerifyHops, ChainHolds

(* A history begins with the first commit. *)
LEMMA HistoryIs ==
  ASSUME ReceiptsInv, NEW p \in Name
  PROVE  /\ history[p] \in Seq(Hash \cup {Absent}) /\ Len(history[p]) \in Nat \ {0}
         /\ DOMAIN history[p] = 1 .. Len(history[p])
<1>1. PICK n : Commits(n)
  BY DEF ReceiptsInv
<1>2. history[p] \in Seq(Hash \cup {Absent}) /\ Len(history[p]) = n /\ n \in 1 .. MaxCommits
  BY <1>1 DEF Commits
<1>. QED BY <1>2, LenProperties

(* A record of at most two hops that is accepted begins at a content which   *)
(* the cited file had at a commit, and leaves no change out where none came  *)
(* back (verify_public_receipts.py:983-1092).                                *)
THEOREM CitationAlwaysBacked == GateSpec => []CitationBacked
<1>1. ASSUME ReceiptsInv, NEW p \in Name, NEW rec \in Fabricated(p), Accepted(p, rec)
      PROVE  \E i \in DOMAIN history[p] :
               /\ history[p][i] = rec.prior
               /\ NeverReturns(history[p]) /\ file[p] = Last(history[p]) =>
                    rec.hops = HonestRecord(history[p], i).hops
  <2>. DEFINE past == history[p]
              h == rec.hops
              cited == rec.prior
  <2>1. Len(past) \in Nat /\ DOMAIN past = 1 .. Len(past)
    BY <1>1, HistoryIs
  <2>2. PICK m \in 1 .. 2 : h \in [1 .. m -> Hop(past)] /\ h[m].result = file[p]
    BY <1>1, FabricatedIs
  <2>3. cited \in Hash
    BY <1>1, FabricatedIs
  <2>4. \A k \in 1 .. m : HopHolds(past, h, cited, k)
    BY <1>1, <2>2, AcceptedHolds
  <2>5. Last(past) = past[Len(past)]
    BY DEF Last
  <2>. HIDE DEF past, h, cited
  <2>6. Complete(past, h, cited, h[m].result)
    BY <2>1, <2>2, <2>3, <2>4, CompleteRecord
  <2>7. \E i \in DOMAIN past :
           /\ past[i] = cited
           /\ NeverReturns(past) /\ h[m].result = past[Len(past)] =>
                h = HonestRecord(past, i).hops
    BY <2>6, Zenon DEF Complete
  <2>. QED BY <2>2, <2>5, <2>7 DEF past, h, cited
<1>2. ReceiptsInv => CitationBacked
  BY <1>1 DEF CitationBacked
<1>. QED BY <1>2, ReceiptsAlways, PTL

(* A true lineage of any length is accepted where the history can be read,   *)
(* beside the citation it excuses and beside the corrected one (verify_public_receipts.py:1181-1261).       *)
THEOREM HonestAlwaysAccepted == GateSpec => []HonestLineageAccepted
<1>1. ASSUME ReceiptsInv, git, NEW p \in Name, NEW i \in DOMAIN history[p],
             file[p] = Last(history[p]), history[p][i] # file[p],
             \A j \in i .. Len(history[p]) : history[p][j] # Absent
      PROVE  LET rec == HonestRecord(history[p], i)
             IN  Superseded(p, rec.prior, rec) /\ Settled(p, rec)
  <2>. DEFINE past == history[p]
              rec == HonestRecord(past, i)
  <2>1. Len(past) \in Nat /\ DOMAIN past = 1 .. Len(past) /\ i \in 1 .. Len(past)
    BY <1>1, HistoryIs
  <2>2. past[Len(past)] = file[p] /\ past[i] # past[Len(past)]
    BY <1>1 DEF Last
  <2>6. \A j \in i .. Len(past) : past[j] \in Hash
    <3>1. past \in Seq(Hash \cup {Absent})
      BY <1>1, HistoryIs
    <3>2. \A j \in 1 .. Len(past) : past[j] \in Hash \cup {Absent}
      <4>. HIDE DEF past
      <4>. QED BY <3>1, ElementOfSeq
    <3>3. \A j \in i .. Len(past) : past[j] # Absent
      BY <1>1
    <3>4. \A j \in i .. Len(past) : j \in 1 .. Len(past)
      <4>. HIDE DEF past
      <4>. QED BY <2>1
    <3>. HIDE DEF past
    <3>. QED BY <3>2, <3>3, <3>4
  <2>. HIDE DEF past
  <2>3. ChainHolds(past, rec, past[i], past[Len(past)])
    BY <2>1, <2>2, <2>6, HonestHolds
  <2>4. rec.prior = past[i] /\ rec.current = past[Len(past)] /\ rec.superseded_by # {}
    BY DEF HonestRecord
  <2>. HIDE DEF rec
  <2>5. Superseded(p, rec.prior, rec) /\ Settled(p, rec)
    BY <1>1, <2>2, <2>3, <2>4 DEF Superseded, Settled, VerifyHops, past
  <2>. QED BY <2>5 DEF rec, past
<1>2. ReceiptsInv => HonestLineageAccepted
  BY <1>1 DEF HonestLineageAccepted
<1>. QED BY <1>2, ReceiptsAlways, PTL

(* A hop that holds does so after a further commit. *)
LEMMA HopsStay ==
  ASSUME NEW V, NEW past \in Seq(V), NEW x \in V, NEW cited \in Hash, NEW m \in Nat,
         NEW h \in [1 .. m -> Hop(past)], \A k \in 1 .. m : HopHolds(past, h, cited, k)
  PROVE  \A k \in 1 .. m : HopHolds(Append(past, x), h, cited, k)
<1>. DEFINE next == Append(past, x)
<1>1. \A c \in DOMAIN past : c \in DOMAIN next /\ next[c] = past[c]
  <2>1. /\ Len(next) = Len(past) + 1 /\ Len(past) \in Nat
        /\ \A c \in 1 .. Len(past) : next[c] = past[c]
    BY AppendProperties, LenProperties
  <2>2. DOMAIN next = 1 .. Len(next) /\ DOMAIN past = 1 .. Len(past)
    <3>1. next \in Seq(V)
      BY AppendProperties
    <3>. HIDE DEF next
    <3>. QED BY <3>1, LenProperties
  <2>. HIDE DEF next
  <2>. QED BY <2>1, <2>2
<1>. HIDE DEF next
<1>2. ASSUME NEW k \in 1 .. m PROVE HopHolds(next, h, cited, k)
  <2>1. h[k] \in Hop(past) /\ h[k].result \in Hash
    BY DEF Hop
  <2>2. Before(h, cited, k) \in Hash
    <3>1. CASE k = 1
      BY <3>1 DEF Before
    <3>2. CASE k # 1
      <4>1. k - 1 \in 1 .. m
        BY <3>2
      <4>2. h[k - 1].result \in Hash
        BY <4>1 DEF Hop
      <4>. QED BY <3>2, <4>2 DEF Before
    <3>. QED BY <3>1, <3>2
  <2>3. /\ h[k].commit # Mutable /\ ~h[k].misquoted
        /\ h[k].result # Before(h, cited, k)
        /\ BlobAt(past, h[k].commit) = h[k].result
        /\ BlobAt(past, h[k].commit - 1) = Before(h, cited, k)
    BY DEF HopHolds, Named
  <2>4. h[k].commit \in DOMAIN past /\ h[k].commit - 1 \in DOMAIN past
    BY <2>1, <2>2, <2>3, HashAssumption DEF BlobAt
  <2>5. BlobAt(next, h[k].commit) = h[k].result
        /\ BlobAt(next, h[k].commit - 1) = Before(h, cited, k)
    BY <1>1, <2>3, <2>4 DEF BlobAt
  <2>. QED BY <2>3, <2>5 DEF HopHolds, Named
<1>. QED BY <1>2 DEF next

(* What a record proves it proves after every further commit that leaves its *)
(* file: no hop names a ref that moves (verify_public_receipts.py:1013-1027).*)
THEOREM LineageAlwaysPermanent == GateSpec => LineageIsPermanent
<1>1. ASSUME ReceiptsInv, Commit, NEW p \in Name, NEW rec \in Fabricated(p), Accepted(p, rec)
      PROVE  Accepted(p, rec)'
  <2>. DEFINE past == history[p]
  <2>1. past \in Seq(Hash \cup {Absent})
    BY <1>1, HistoryIs
  <2>2. file[p] \in Hash \cup {Absent} /\ file'[p] = file[p]
    BY <1>1, NameIsPath DEF ReceiptsInv, PackageTypes, Commit
  <2>3. history'[p] = Append(past, file[p])
    BY <1>1 DEF Commit
  <2>4. rec.prior \in Hash
    BY <1>1, FabricatedIs
  <2>5. PICK m \in 1 .. 2 : rec.hops \in [1 .. m -> Hop(past)]
    BY <1>1, FabricatedIs
  <2>6. \A k \in 1 .. m : HopHolds(past, rec.hops, rec.prior, k)
    BY <1>1, <2>5, AcceptedHolds
  <2>. DEFINE next == Append(past, file[p])
              h == rec.hops
              cited == rec.prior
  <2>7. \A k \in 1 .. m : HopHolds(next, h, cited, k)
    <3>1. m \in Nat /\ cited \in Hash /\ h \in [1 .. m -> Hop(past)]
      BY <2>4, <2>5
    <3>2. \A k \in 1 .. m : HopHolds(past, h, cited, k)
      BY <2>6
    <3>. HIDE DEF past, h, cited
    <3>. QED BY <2>1, <2>2, <3>1, <3>2, HopsStay
  <2>8. \A k \in DOMAIN rec.hops : HopHolds(history'[p], rec.hops, rec.prior, k)
    BY <2>3, <2>5, <2>7
  <2>9. ASSUME ChainHolds(history[p], rec, rec.prior, file[p])
        PROVE  ChainHolds(history'[p], rec, rec.prior, file'[p])
    BY <2>2, <2>8, <2>9 DEF ChainHolds
  <2>10. CASE Superseded(p, rec.prior, rec)
    BY <1>1, <2>2, <2>9, <2>10 DEF Accepted, Superseded, VerifyHops, Commit, Citing
  <2>11. CASE Settled(p, rec)
    BY <1>1, <2>2, <2>9, <2>11 DEF Accepted, Settled, VerifyHops, Commit, Citing
  <2>. QED BY <1>1, <2>10, <2>11 DEF Accepted
<1>2. ReceiptsInv => [Commit => \A p \in Name : Present(p) =>
         \A rec \in Fabricated(p) : Accepted(p, rec) => Accepted(p, rec)']_vars
  BY <1>1
<1>. QED BY <1>2, ReceiptsAlways, PTL DEF LineageIsPermanent

(* A citation of a file that was ever committed passes only while it means   *)
(* one file, which has or had the cited content, unless it is a bare key and *)
(* the history cannot be read (verify_public_receipts.py:648-742, 1110-1262).*)
THEOREM EvidenceAlwaysStands == GateSpec => []EvidenceStands
<1>1. ASSUME ReceiptsInv, ExitCode = 0, cite # None, baseline.entries = {}, Committed(cite),
             git \/ cite.shape # "bare"
      PROVE  HasEvidence(cite)
  <2>1. cite \in Cited
    BY <1>1 DEF ReceiptsInv, Excuses, Citation
  <2>2. CitationHolds(cite, record)
    BY <1>1, AllPassed, ProblemsAreNone
  <2>3. IsCitation(cite)
    BY <1>1 DEF IsCitation, EverExisted
  <2>4. PICK p \in Path : Hits(cite) = {p} /\ Answered(p, cite, record)
    BY <2>2, <2>3 DEF CitationHolds
  <2>5. p \in Name
    <3>1. p \in Bases(cite)
      BY <2>4 DEF Hits
    <3>2. cite.name # "gen"
      <4>1. "gen" \notin Name
        BY DEF Name
      <4>. QED BY <1>1, <4>1 DEF Committed, Bases
    <3>. QED BY <3>1, <3>2 DEF Bases, Name
  <2>6. ASSUME record # None, Superseded(p, cite.sha, record)
        PROVE  \E i \in DOMAIN history[p] : history[p][i] = cite.sha
    <3>1. 1 \in DOMAIN record.hops
      <4>1. Len(record.hops) \in 1 .. MaxCommits - 1 /\ DOMAIN record.hops = 1 .. Len(record.hops)
        BY <1>1, <2>6 DEF ReceiptsInv, Excuses, Recorded
      <4>. QED BY <4>1
    <3>2. HopHolds(history[p], record.hops, cite.sha, 1)
      BY <2>6, <3>1 DEF Superseded, VerifyHops, ChainHolds
    <3>. DEFINE c == record.hops[1].commit - 1
    <3>3. BlobAt(history[p], c) = cite.sha
      BY <3>2 DEF HopHolds, Named, Before
    <3>4. cite.sha # Absent
      BY <2>1, HashAssumption DEF Cited
    <3>. HIDE DEF c
    <3>. QED BY <3>3, <3>4 DEF BlobAt
  <2>. QED BY <2>4, <2>5, <2>6 DEF Answered, HasEvidence
<1>2. ReceiptsInv => EvidenceStands
  BY <1>1 DEF EvidenceStands
<1>. QED BY <1>2, ReceiptsAlways, PTL

(* What a replay leaves of a citation of the candidate. *)
LEMMA ReplayLeavesOthers ==
  ASSUME NEW h, Replay(h), ReceiptsInv, cite # None, cite.name = "gate"
  PROVE  /\ StaleCitation' = StaleCitation
         /\ CitationHolds(cite, record)' <=> CitationHolds(cite, record)
<1>1. file' = [file EXCEPT !["gen"] = h] /\ UNCHANGED <<cite, record, history, git>>
  BY DEF Replay
<1>2. \A p \in Name : p \in Path /\ file'[p] = file[p]
  BY <1>1, NameIsPath DEF ReceiptsInv, PackageTypes, Name
<1>3. Bases(cite)' = Bases(cite) /\ Bases(cite) \subseteq Name
  BY <1>1 DEF Bases, Name
<1>4. Hits(cite)' = Hits(cite) /\ Hits(cite) \subseteq Name
  BY <1>2, <1>3 DEF Hits, Present
<1>5. ASSUME NEW p \in Name PROVE Answered(p, cite, record)' <=> Answered(p, cite, record)
  <2>1. file'[p] = file[p]
    BY <1>2
  <2>2. VerifyHops(p, record, record.prior)' <=> VerifyHops(p, record, record.prior)
    BY <1>1, <2>1 DEF VerifyHops
  <2>3. VerifyHops(p, record, cite.sha)' <=> VerifyHops(p, record, cite.sha)
    BY <1>1, <2>1 DEF VerifyHops
  <2>. QED BY <1>1, <2>1, <2>2, <2>3 DEF Answered, Settled, Superseded
<1>6. EverExisted(cite)' <=> EverExisted(cite)
  BY <1>1, <1>3 DEF EverExisted, Committed
<1>7. Cardinality(Hits(cite))' = Cardinality(Hits(cite))
  BY <1>4 DEF Cardinality, Cardinality
<1>8. IsCitation(cite)' <=> IsCitation(cite)
  BY <1>1, <1>6, <1>7 DEF IsCitation
<1>9. \A p : Hits(cite) = {p} => p \in Name
  BY <1>4
<1>10. CitationHolds(cite, record)' <=> CitationHolds(cite, record)
  BY <1>1, <1>4, <1>5, <1>8, <1>9 DEF CitationHolds
<1>11. StaleCitation' = StaleCitation
  BY <1>1, <1>2, <1>4, <1>9 DEF StaleCitation
<1>. QED BY <1>10, <1>11

(* A citation of the log is stale by that log alone, and once the log is     *)
(* there it is cited rightly or by a stale hash.                             *)
LEMMA ReplayAnswers ==
  ASSUME NEW h \in Hash, Replay(h), ReceiptsInv, cite # None, cite.name = "gen"
  PROVE  /\ StaleCitation \subseteq {<<"stale", cite, file["gen"]>>}
         /\ StaleCitation' \subseteq {<<"stale", cite, file'["gen"]>>}
         /\ CitationHolds(cite, record)' \/ StaleCitation' # {}
<1>1. /\ file' = [file EXCEPT !["gen"] = h] /\ UNCHANGED <<cite, record, history, git>>
      /\ record = None
  BY DEF Replay, ReceiptsInv, Excuses, Recorded
<1>2. "gen" \in Path /\ file'["gen"] = h /\ h # Absent
  BY <1>1, HashAssumption DEF ReceiptsInv, PackageTypes, Path
<1>3. (\A q : Hits(cite) = {q} => q = "gen") /\ Hits(cite)' = {"gen"}
  BY <1>1, <1>2 DEF Hits, Bases, Present
<1>4. StaleCitation \subseteq {<<"stale", cite, file["gen"]>>}
  BY <1>3 DEF StaleCitation
<1>5. StaleCitation' \subseteq {<<"stale", cite, file'["gen"]>>}
  BY <1>1, <1>3 DEF StaleCitation
<1>6. ASSUME h = cite.sha PROVE CitationHolds(cite, record)'
  <2>1. Answered("gen", cite, record)'
    BY <1>1, <1>2, <1>6 DEF Answered
  <2>. QED BY <1>2, <1>3, <2>1, Zenon DEF CitationHolds
<1>7. ASSUME h # cite.sha PROVE StaleCitation' # {}
  <2>1. <<"stale", cite, file'["gen"]>> \in StaleCitation'
    BY <1>1, <1>2, <1>3, <1>7 DEF StaleCitation
  <2>. QED BY <2>1
<1>. QED BY <1>4, <1>5, <1>6, <1>7

(* A replay, which writes a log that nobody listed, makes and settles no     *)
(* finding but those of an abbreviated digest and of a citation of that log, *)
(* and the first one makes one only if the log it wrote is cited by another  *)
(* hash (verify_public_receipts.py:120-123, 684-704, 1104-1117, 1266-1276).  *)
THEOREM ReplayAlwaysKeepsVerdict == GateSpec => ReplayKeepsVerdict
<1>1. ASSUME ReceiptsInv, NEW h \in Hash, Replay(h), "gen" \notin Listed
      PROVE  /\ Problems' \ OfTheReplay' = Problems \ OfTheReplay
             /\ ~Present("gen") =>
                  Problems' \subseteq Problems \cup {<<"stale", cite, file'["gen"]>>}
  <2>1. /\ file' = [file EXCEPT !["gen"] = h]
        /\ UNCHANGED <<sums, pinned, claim, mapped, receipt, cite, record, history, git, baseline>>
    BY <1>1 DEF Replay
  <2>2. \A p \in Path \ {"gen"} : file'[p] = file[p]
    BY <1>1, <2>1 DEF ReceiptsInv, PackageTypes
  <2>3. Listed' = Listed /\ Bound' = Bound /\ Listed \subseteq Path \ {"gen"}
    BY <1>1, <2>1 DEF Listed, Bound
  <2>4. VerifySums' <=> VerifySums
    BY <2>1, <2>2, <2>3 DEF VerifySums
  <2>5. ManifestComplete' <=> ManifestComplete
    <3>1. Shipped \subseteq Path \ {"gen"}
      BY DEF Shipped, Path
    <3>. QED BY <2>2, <2>3, <3>1 DEF ManifestComplete, Present
  <2>6. ReceiptBoundToLogs' <=> ReceiptBoundToLogs
    BY <2>1, <2>2, <2>3 DEF ReceiptBoundToLogs, Present
  <2>7. CustomerReadyReceipt' <=> CustomerReadyReceipt
    BY <2>1, <2>3 DEF CustomerReadyReceipt, CustomerReadyAuthority, SameCandidateMetricBinding,
                      Cardinality, Cardinality
  <2>8. SumsPathEscapes' <=> SumsPathEscapes
    BY <2>3 DEF SumsPathEscapes
  <2>9. PublicExportClean' <=> PublicExportClean
    BY <1>1, <2>1, <2>3 DEF PublicExportClean
  <2>10. cite # None => cite.name \in {"gate", "gen"}
    BY <1>1 DEF ReceiptsInv, Excuses, Citation, Cited
  <2>11. DOMAIN Passed' = DOMAIN Passed
    BY DEF Passed
  <2>12. \A d \in DOMAIN Passed \ {"abbrev", "citations"} : Passed'[d] <=> Passed[d]
    BY <2>1, <2>4, <2>5, <2>6, <2>7, <2>8, <2>9 DEF Passed
  <2>13. ~Present("gen") /\ Abbreviated => Abbreviated'
    <3>1. SUFFICES ASSUME file["gen"] = Absent, Abbreviated PROVE Abbreviated'
      BY DEF Present
    <3>2. claim["prose"] # Absent /\ claim' = claim
      BY <1>1, <2>1, HashAssumption DEF ReceiptsInv, PackageTypes, Site
    <3>3. Shipped \subseteq Path \ {"gen"}
      BY DEF Shipped, Path
    <3>4. \A p \in Shipped : file'[p] = file[p]
      BY <2>2, <3>3
    <3>. QED BY <2>3, <3>1, <3>2, <3>4 DEF Abbreviated
  <2>14. Passed["abbrev"] = Abbreviated /\ Passed'["abbrev"] = Abbreviated'
    BY DEF Passed
  <2>. DEFINE Failed == {<<c>> : c \in {d \in DOMAIN Passed : ~Passed[d]}}
              ofLog == <<"stale", cite, file["gen"]>>
  <2>15. Problems = Failed \cup StaleCitation /\ Problems' = Failed' \cup StaleCitation'
    BY DEF Problems
  <2>16. \A c : c \notin {"abbrev", "citations"} => (<<c>> \in Failed' <=> <<c>> \in Failed)
    BY <2>11, <2>12
  <2>17. ~Present("gen") => (<<"abbrev">> \in Failed' => <<"abbrev">> \in Failed)
    BY <2>11, <2>13, <2>14
  <2>18. cite' = cite
    BY <2>1
  <2>19. \A x \in Failed \cup Failed' : \E c : x = <<c>>
    OBVIOUS
  <2>20. Passed["citations"] <=> cite = None \/ CitationHolds(cite, record) \/ StaleCitation # {}
    BY DEF Passed
  <2>21. Passed'["citations"] <=> cite' = None \/ CitationHolds(cite, record)' \/ StaleCitation' # {}
    BY DEF Passed
  <2>22. /\ <<"citations">> \in Failed <=> ~Passed["citations"]
         /\ <<"citations">> \in Failed' <=> ~Passed'["citations"]
    BY DEF Passed
  <2>. HIDE DEF Failed
  <2>23. CASE cite = None \/ cite.name = "gate"
    <3>1. StaleCitation' = StaleCitation /\ (Passed'["citations"] <=> Passed["citations"])
      <4>1. CASE cite = None
        BY <2>18, <2>20, <2>21, <4>1 DEF StaleCitation
      <4>2. CASE cite # None /\ cite.name = "gate"
        BY <1>1, <2>18, <2>20, <2>21, <4>2, ReplayLeavesOthers
      <4>. QED BY <2>23, <4>1, <4>2
    <3>2. <<"citations">> \in Failed' <=> <<"citations">> \in Failed
      BY <2>22, <3>1
    <3>3. \A x : x # <<"abbrev">> => (x \in Failed' <=> x \in Failed)
      BY <2>16, <2>19, <3>2
    <3>4. OfTheReplay = {<<"abbrev">>} /\ OfTheReplay' = {<<"abbrev">>}
      BY <2>18, <2>23 DEF OfTheReplay
    <3>. QED BY <2>15, <2>17, <3>1, <3>3, <3>4
  <2>24. CASE cite # None /\ cite.name = "gen"
    <3>1. StaleCitation \subseteq {ofLog} /\ StaleCitation' \subseteq {ofLog'} /\ Passed'["citations"]
      BY <1>1, <2>18, <2>21, <2>24, ReplayAnswers
    <3>2. /\ OfTheReplay = {<<"abbrev">>, <<"citations">>, ofLog}
          /\ OfTheReplay' = {<<"abbrev">>, <<"citations">>, ofLog'}
      BY <2>18, <2>24 DEF OfTheReplay
    <3>3. ofLog \notin Failed \cup Failed' /\ ofLog' \notin Failed \cup Failed'
      <4>1. \A c : <<c>> # ofLog /\ <<c>> # ofLog'
        OBVIOUS
      <4>. QED BY <2>19, <4>1
    <3>4. \A x : x \notin {<<"abbrev">>, <<"citations">>} => (x \in Failed' <=> x \in Failed)
      BY <2>16, <2>19
    <3>. HIDE DEF ofLog
    <3>5. Problems' \ OfTheReplay' = Problems \ OfTheReplay
      BY <2>15, <3>1, <3>2, <3>3, <3>4
    <3>6. ~Present("gen") => Failed' \subseteq Failed
      BY <2>17, <2>22, <3>1, <3>4
    <3>7. ofLog' = <<"stale", cite, file'["gen"]>>
      BY <2>18 DEF ofLog
    <3>. QED BY <2>15, <3>1, <3>5, <3>6, <3>7
  <2>. QED BY <2>10, <2>23, <2>24
<1>2. ReceiptsInv => ["gen" \notin Listed /\ (\E h \in Hash : Replay(h)) =>
                      /\ Problems' \ OfTheReplay' = Problems \ OfTheReplay
                      /\ ~Present("gen") =>
                           Problems' \subseteq Problems \cup {<<"stale", cite, file'["gen"]>>}]_vars
  BY <1>1
<1>. QED BY <1>2, ReceiptsAlways, PTL DEF ReplayKeepsVerdict

(* A list bears the stamp of the roster it was made from, whoever edited it.*)
Stamped(list) ==
  /\ list = [parses |-> list.parses, handles |-> list.handles, stamp |-> list.stamp, commit |-> list.commit]
  /\ list.commit \in DOMAIN roster
  /\ list.stamp = {Entry(h) : h \in DeriveHandles(roster[list.commit])}

ListInv ==
  /\ roster \in Seq(SUBSET (Person \ Alt))
  /\ work = [doc |-> work.doc, list |-> work.list] /\ Stamped(work.list)
  /\ tree = [doc |-> tree.doc, list |-> tree.list] /\ Stamped(tree.list)

(* A list that is current is so stamped, and every edit leaves it so. *)
LEMMA ListStart == GateInit => ListInv
<1>. SUFFICES ASSUME GateInit PROVE ListInv
  OBVIOUS
<1>1. /\ roster = << Person \ Alt >>
      /\ work = [doc |-> [d \in Doc |-> Clean], list |-> Build(1)] /\ tree = work
  BY DEF GateInit
<1>2. roster \in Seq(SUBSET (Person \ Alt)) /\ 1 \in DOMAIN roster
  <2>. DEFINE V == SUBSET (Person \ Alt)
              names == Person \ Alt
  <2>1. names \in V /\ roster = << names >>
    BY <1>1
  <2>. HIDE DEF V, names
  <2>2. roster \in Seq(V) /\ 1 \in DOMAIN roster
    BY <2>1
  <2>. QED BY <2>2 DEF V
<1>3. work = [doc |-> work.doc, list |-> Build(1)] /\ work.list = Build(1)
  BY <1>1
<1>4. Build(1).commit = 1 /\ Build(1).stamp = {Entry(h) : h \in DeriveHandles(roster[1])}
  BY DEF Build
<1>5. Build(1) = [parses |-> Build(1).parses, handles |-> Build(1).handles,
                  stamp |-> Build(1).stamp, commit |-> Build(1).commit]
  BY DEF Build
<1>. QED BY <1>1, <1>2, <1>3, <1>4, <1>5 DEF ListInv, Stamped

LEMMA ListStep == ListInv /\ [GateNext]_gateVars => ListInv'
<1>. SUFFICES ASSUME ListInv, [GateNext]_gateVars PROVE ListInv'
  OBVIOUS
<1>1. ASSUME UNCHANGED <<roster, work, tree>> PROVE ListInv'
  BY <1>1 DEF ListInv, Stamped, Entry, DeriveHandles
<1>2. ASSUME NEW names \in SUBSET (Person \ Alt), Roster(names) PROVE ListInv'
  <2>. DEFINE V == SUBSET (Person \ Alt)
  <2>1. roster \in Seq(V) /\ names \in V /\ roster' = Append(roster, names) /\ UNCHANGED <<work, tree>>
    BY <1>2 DEF Roster, ListInv
  <2>2. roster' \in Seq(V) /\ \A c \in DOMAIN roster : c \in DOMAIN roster' /\ roster'[c] = roster[c]
    <3>. HIDE DEF V
    <3>1. /\ roster' \in Seq(V) /\ Len(roster') = Len(roster) + 1
          /\ \A c \in 1 .. Len(roster) : roster'[c] = roster[c]
      BY <2>1, AppendProperties
    <3>2. DOMAIN roster = 1 .. Len(roster) /\ DOMAIN roster' = 1 .. Len(roster') /\ Len(roster) \in Nat
      BY <2>1, <3>1, LenProperties
    <3>. QED BY <3>1, <3>2
  <2>3. Stamped(work.list)' /\ Stamped(tree.list)'
    BY <2>1, <2>2 DEF ListInv, Stamped, Entry, DeriveHandles
  <2>. QED BY <2>1, <2>2, <2>3 DEF ListInv
<1>3. ASSUME NEW c \in DOMAIN roster, Generate(c) PROVE ListInv'
  <2>1. work' = [work EXCEPT !.list = Build(c)] /\ UNCHANGED <<roster, tree>>
    BY <1>3 DEF Generate
  <2>2. work'.list = Build(c) /\ work' = [doc |-> work'.doc, list |-> work'.list]
    BY <2>1 DEF ListInv
  <2>3. Build(c).commit = c /\ Build(c).stamp = {Entry(h) : h \in DeriveHandles(roster[c])}
        /\ Build(c) = [parses |-> Build(c).parses, handles |-> Build(c).handles,
                       stamp |-> Build(c).stamp, commit |-> Build(c).commit]
    BY DEF Build
  <2>4. Stamped(work.list)'
    BY <2>1, <2>2, <2>3 DEF Stamped, Entry, DeriveHandles
  <2>5. Stamped(tree.list)'
    BY <2>1 DEF ListInv, Stamped, Entry, DeriveHandles
  <2>. QED BY <2>1, <2>2, <2>4, <2>5 DEF ListInv
<1>4. ASSUME NEW handles, NEW parses, HandEdit(handles, parses) PROVE ListInv'
  <2>. DEFINE list == work.list
  <2>1. work' = [work EXCEPT !.list.handles = handles, !.list.parses = parses] /\ UNCHANGED <<roster, tree>>
    BY <1>4 DEF HandEdit
  <2>2. work = [doc |-> work.doc, list |-> list] /\ Stamped(list)
        /\ list = [parses |-> list.parses, handles |-> list.handles, stamp |-> list.stamp, commit |-> list.commit]
    BY DEF ListInv, Stamped
  <2>3. work'.list = [parses |-> parses, handles |-> handles, stamp |-> list.stamp, commit |-> list.commit]
        /\ work' = [doc |-> work'.doc, list |-> work'.list]
    BY <2>1, <2>2
  <2>4. Stamped(work.list)'
    BY <2>1, <2>2, <2>3 DEF Stamped, Entry, DeriveHandles
  <2>5. Stamped(tree.list)'
    BY <2>1 DEF ListInv, Stamped, Entry, DeriveHandles
  <2>. QED BY <2>1, <2>3, <2>4, <2>5 DEF ListInv
<1>5. ASSUME NEW d, NEW content, Write(d, content) PROVE ListInv'
  <2>1. work' = [work EXCEPT !.doc[d] = content] /\ UNCHANGED <<roster, tree>>
    BY <1>5 DEF Write
  <2>2. work'.list = work.list /\ work' = [doc |-> work'.doc, list |-> work'.list]
    BY <2>1 DEF ListInv
  <2>3. Stamped(work.list)' /\ Stamped(tree.list)'
    BY <2>1, <2>2 DEF ListInv, Stamped, Entry, DeriveHandles
  <2>. QED BY <2>1, <2>2, <2>3 DEF ListInv
<1>6. CASE CommitTree
  <2>1. tree' = work /\ UNCHANGED <<roster, work>>
    BY <1>6 DEF CommitTree
  <2>2. Stamped(work.list)' /\ Stamped(tree.list)'
    BY <2>1 DEF ListInv, Stamped, Entry, DeriveHandles
  <2>. QED BY <2>1, <2>2 DEF ListInv
<1>7. CASE Spoil
  BY <1>1, <1>7 DEF Spoil
<1>8. CASE UNCHANGED gateVars
  BY <1>1, <1>8 DEF gateVars
<1>. QED BY <1>1, <1>2, <1>3, <1>4, <1>5, <1>6, <1>7, <1>8 DEF GateNext

(* What a committed text without a NUL byte holds is found. *)
LEMMA FoundIs ==
  ASSUME NEW tier, NEW tokens, NEW d \in Doc, NEW x, ~tree.doc[d].nul,
         x \in tree.doc[d].tokens, x \in tokens[d]
  PROVE  <<tier, d, x>> \in Found(tier, tokens)
BY DEF Found

(* Who was in the roster the list was made from and is named in a committed  *)
(* text of ours is reported, and what a pull request may not say it may not  *)
(* commit (export_safety_gate.py:214-320, 369-484, 509-578).                 *)
THEOREM GateAlwaysReports == GateSpec => []GateInv
<1>1. ASSUME ListInv, GateExit # 2, NEW d \in {"ours", "Ours"},
             NEW n \in DeriveHandles(roster[tree.list.commit]),
             n \in tree.doc[d].tokens, ~tree.doc[d].nul
      PROVE  \E tier \in {"block", "warn"} : <<tier, d, n>> \in Block \cup Warn
  <2>1. tree.list.handles = {Entry(h) : h \in DeriveHandles(roster[tree.list.commit])}
    BY <1>1 DEF GateExit, Loads, Denylist, ListInv, Stamped
  <2>2. Entry(n) \in tree.list.handles /\ Entry(n).name = n
    BY <2>1 DEF Entry
  <2>3. d \in Doc /\ n \in HandleTokens(d)
    BY <2>2 DEF HandleTokens, InScope, Denylist, Doc
  <2>4. n \in Names[d]
    BY <2>3 DEF Names
  <2>5. \A tier : <<tier, d, n>> \in Found(tier, Names)
    BY <1>1, <2>3, <2>4, FoundIs
  <2>6. CASE HandleTier = "block"
    BY <2>5, <2>6 DEF Block
  <2>7. CASE HandleTier = "warn"
    BY <2>5, <2>7 DEF Warn
  <2>. QED BY <2>6, <2>7, TierAssumption
<1>2. ASSUME NEW d \in Doc, TextExit(tree.doc[d].tokens) = 1, ~tree.doc[d].nul
      PROVE  GateExit # 0
  <2>1. "secret" \in tree.doc[d].tokens
    BY <1>2 DEF TextExit
  <2>. DEFINE tokens == [c \in Doc |-> BlockTokens(c)]
  <2>2. "secret" \in tokens[d]
    BY DEF BlockTokens
  <2>3. <<"block", d, "secret">> \in Found("block", tokens)
    <3>. HIDE DEF tokens
    <3>. QED BY <1>2, <2>1, <2>2, FoundIs
  <2>4. Block # {}
    BY <2>3 DEF Block
  <2>. QED BY <2>4 DEF GateExit
<1>3. ListInv => GateInv
  BY <1>1, <1>2 DEF GateInv, NamedAreReported, TextAndTreeAgree
<1>. QED BY <1>3, ListStart, ListStep, PTL DEF GateSpec

-----------------------------------------------------------------------------
(* A way replay.sh ends gets the code of what happened, or is a crash that  *)
(* is told where the wrapper does not look.                                 *)
LEMMA CodeOfEnding ==
  ASSUME NEW e \in Endings
  PROVE  /\ ReplayExit(e) \in 0 .. 2 /\ e.truth \in 0 .. 2 /\ e.told \in {"none", "quiet", "crash"}
         /\ ReplayExit(e) = e.truth \/ (ReplayExit(e) = 1 /\ e.truth = 2 /\ e.missed)
<1>. PICK h \in Replays :
       e = [truth |-> h.truth, said |-> h.said, told |-> Told(h.logs),
            missed |-> h.beside \/ ~(Crashes(h.logs) \subseteq ReadWhole(h.logs))]
  BY DEF Endings
<1>. DEFINE l == h.logs
<1>1. h.truth \in 0 .. 2 /\ (h.truth = 2 <=> (h.said \/ h.beside \/ Crashes(l) # {}))
  BY DEF Replays
<1>2. /\ e.truth = h.truth /\ e.said = h.said /\ e.told = Told(l)
      /\ e.missed <=> (h.beside \/ ~(Crashes(l) \subseteq ReadWhole(l)))
  OBVIOUS
<1>. HIDE DEF l
<1>3. Told(l) \in {"none", "quiet", "crash"}
  BY DEF Told
<1>4. Told(l) = "crash" => Crashes(l) # {}
  BY DEF Told, ReadWhole, Crashes
<1>5. Told(l) # "crash" => Crashes(l) = {} \/ ~(Crashes(l) \subseteq ReadWhole(l))
  <2>1. CASE l = << >>
    BY <2>1 DEF Crashes
  <2>2. CASE l # << >>
    BY <2>2 DEF Told, Crashes
  <2>. QED BY <2>1, <2>2
<1>6. CrashSeen(e.said, e.told) <=> (h.said \/ Told(l) = "crash")
  BY <1>2 DEF CrashSeen
<1>. QED BY <1>1, <1>2, <1>3, <1>4, <1>5, <1>6 DEF ReplayExit

(* A replay.sh that stops at a replay_out it cannot remove: never code 0.   *)
LEMMA CodeIsCode ==
  ASSUME ReplayTypeOK, NEW p \in Pkg, NEW e \in EndingsOf(p)
  PROVE  /\ ReplayExit(e) \in 0 .. 2 /\ e.truth \in 0 .. 2 /\ e.told \in {"none", "quiet", "crash"}
         /\ ReplayExit(e) = 0 => e.truth = 0
<1>1. CASE e \in Endings
  BY <1>1, CodeOfEnding DEF ReplayExit
<1>2. CASE e = [truth |-> 1, said |-> FALSE, told |-> out[p], missed |-> FALSE]
  <2>1. out[p] \in {"none", "quiet", "crash"}
    BY DEF ReplayTypeOK
  <2>. QED BY <1>2, <2>1 DEF ReplayExit
<1>. QED BY <1>1, <1>2 DEF EndingsOf

(* A tool is resolved to a place that is searched, where the pinned file    *)
(* is.                                                                      *)
LEMMA ResolvedPlace ==
  ASSUME ReplayTypeOK, NEW t \in Tool, Resolved(t)
  PROVE  Candidate(t) \in Place /\ installed[t][Candidate(t)] = "pinned"
<1>. DEFINE there == {l \in Place : installed[t][l] # "none"}
<1>1. CASE envVar[t] # NoPlace
  BY <1>1 DEF Resolved, Candidate, ReplayTypeOK
<1>2. CASE envVar[t] = NoPlace
  <2>1. there # {} /\ FirstPlace(t) = CHOOSE l \in there : \A k \in there : l <= k
    BY <1>2, Zenon DEF Resolved, Candidate, FirstPlace
  <2>2. there \in SUBSET Nat
    BY ReplayAssumption DEF Place
  <2>3. \E l \in there : \A k \in there : l <= k
    <3>. HIDE DEF there
    <3>. QED BY <2>1, <2>2, Least
  <2>. QED BY <1>2, <2>1, <2>3 DEF Resolved, Candidate
<1>. QED BY <1>1, <1>2

(* Between invocations nothing has a code; while one runs, the code of a    *)
(* package is at most that of the invocation, and 0 only after a success or *)
(* with a tool that was swapped.                                            *)
CodeBounds ==
  /\ pc = "idle" => \A p \in Pkg : verdict[p] = NoVerdict
  /\ pc # "idle" => exit \in 0 .. 3 /\ \A p \in Pkg : verdict[p] <= exit
  /\ \A p \in Pkg : verdict[p] = 0 => truth[p] = 0 \/ (truth[p] = 3 /\ p \in swapped)

(* What replay.sh is given is pinned as long as nobody overwrites it.       *)
PathPinned ==
  pc = "run" => \A t \in Needs[Head(todo)] :
                  path[t] \in Place /\ (Runs(t) = "pinned" \/ Head(todo) \in swapped)

(* A package that is to be replayed is cleared, and one that was not        *)
(* replayed has stayed so, if its replay_out can be removed.                *)
ClearedFirst ==
  /\ pc \in {"resolve", "run"} => Head(todo) \in script
  /\ pc = "resolve" => Head(todo) \in Stuck \/ out[Head(todo)] = "none"
  /\ \A p \in script \ Stuck : verdict[p] = 3 => out[p] = "none"

ReplayInv == ReplayTypeOK /\ CodeBounds /\ PathPinned /\ ClearedFirst /\ VerdictTrue

(* Initially nothing was replayed. *)
LEMMA ReplayStart == ReplayInit => ReplayInv
<1>. SUFFICES ASSUME ReplayInit PROVE ReplayInv
  OBVIOUS
<1>1. pc = "idle" /\ script = Pkg /\ \A p \in Pkg : verdict[p] = NoVerdict /\ truth[p] = NoVerdict
  BY DEF ReplayInit
<1>2. ReplayTypeOK
  BY DEF ReplayInit, ReplayTypeOK, FileKind, NoPath
<1>. QED BY <1>1, <1>2 DEF ReplayInv, CodeBounds, PathPinned, ClearedFirst, VerdictTrue, NoVerdict

(* A package ends with code c, after r happened to it. *)
LEMMA FinishStep ==
  ASSUME ReplayInv, pc \in {"clear", "resolve", "run"}, NEW p \in {Head(todo)},
         NEW c \in 0 .. 3, NEW r \in 0 .. 3,
         Finish(p, c, r), UNCHANGED <<tooling, swapped>>, missed \subseteq missed',
         out' \in [Pkg -> {"none", "quiet", "crash"}], \A q \in Pkg : q # p => out'[q] = out[q],
         c = 0 => r = 0 \/ (r = 3 /\ p \in swapped),
         p \in script \ Stuck /\ c = 3 => out'[p] = "none",
         p \notin Stuck => \/ c = r \/ (c = 1 /\ r = 2 /\ p \in missed')
                           \/ (c \in 0 .. 2 /\ r = 3 /\ p \in swapped)
  PROVE  ReplayInv'
<1>1. /\ verdict' = [verdict EXCEPT ![p] = c] /\ truth' = [truth EXCEPT ![p] = r]
      /\ exit' = Worst(exit, c) /\ pc' \in {"done", "clear"} /\ path' = NoPath
      /\ pc' = "clear" => todo' # << >>
  BY DEF Finish
<1>2. /\ exit \in 0 .. 3 /\ \A q \in Pkg : verdict[q] <= exit
      /\ envVar \in [Tool -> Place \cup {NoPlace}] /\ installed \in [Tool -> [Place -> FileKind]]
      /\ script \subseteq Pkg
      /\ verdict \in [Pkg -> {NoVerdict} \cup 0 .. 3] /\ truth \in [Pkg -> {NoVerdict} \cup 0 .. 3]
      /\ \A q \in Pkg : verdict[q] = 0 => truth[q] = 0 \/ (truth[q] = 3 /\ q \in swapped)
  BY DEF ReplayInv, CodeBounds, ReplayTypeOK
<1>3. /\ envVar' = envVar /\ installed' = installed /\ script' = script /\ swapped' = swapped
  BY DEF tooling
<1>4. exit' \in 0 .. 3 /\ exit' >= exit /\ exit' >= c
  BY <1>1, <1>2 DEF Worst
<1>5. /\ verdict' \in [Pkg -> {NoVerdict} \cup 0 .. 3] /\ truth' \in [Pkg -> {NoVerdict} \cup 0 .. 3]
      /\ p \in Pkg => verdict'[p] = c /\ truth'[p] = r
      /\ \A q \in Pkg : q # p => verdict'[q] = verdict[q] /\ truth'[q] = truth[q]
  BY <1>1, <1>2
<1>6. CodeBounds'
  <2>1. ASSUME NEW q \in Pkg PROVE verdict'[q] <= exit'
    <3>1. CASE q = p
      BY <1>4, <1>5, <3>1
    <3>2. CASE q # p
      <4>1. verdict'[q] = verdict[q] /\ verdict[q] \in Int /\ verdict[q] <= exit
        BY <1>2, <1>5, <3>2 DEF NoVerdict
      <4>. QED BY <1>2, <1>4, <4>1
    <3>. QED BY <3>1, <3>2
  <2>2. ASSUME NEW q \in Pkg, verdict'[q] = 0
        PROVE  truth'[q] = 0 \/ (truth'[q] = 3 /\ q \in swapped')
    BY <1>2, <1>3, <1>5, <2>2
  <2>. QED BY <1>1, <1>4, <2>1, <2>2 DEF CodeBounds
<1>7. ClearedFirst'
  <2>. SUFFICES ASSUME NEW q \in script \ Stuck, verdict'[q] = 3 PROVE out'[q] = "none"
    BY <1>1, <1>3 DEF ClearedFirst
  <2>1. CASE q = p
    BY <1>2, <1>5, <2>1
  <2>2. CASE q # p
    BY <1>2, <1>5, <2>2 DEF ReplayInv, ClearedFirst
  <2>. QED BY <2>1, <2>2
<1>8. VerdictTrue'
  <2>. SUFFICES ASSUME NEW q \in Pkg \ Stuck
                PROVE  \/ verdict'[q] = truth'[q]
                       \/ verdict'[q] = 1 /\ truth'[q] = 2 /\ q \in missed'
                       \/ verdict'[q] \in 0 .. 2 /\ truth'[q] = 3 /\ q \in swapped'
    BY DEF VerdictTrue
  <2>1. CASE q = p
    BY <1>3, <1>5, <2>1
  <2>2. CASE q # p
    BY <1>3, <1>5, <2>2 DEF ReplayInv, VerdictTrue
  <2>. QED BY <2>1, <2>2
<1>9. ReplayTypeOK'
  <2>1. exit' \in {NoVerdict} \cup 0 .. 3
    BY <1>4
  <2>2. path' \in [Tool -> Place \cup {NoPlace}] /\ path' = NoPath
    BY <1>1 DEF NoPath
  <2>. QED BY <1>1, <1>2, <1>3, <1>5, <2>1, <2>2 DEF ReplayTypeOK
<1>. QED BY <1>1, <1>6, <1>7, <1>8, <1>9 DEF ReplayInv, PathPinned

(* A package that is not replayed ends with code 3. *)
LEMMA RefuseStep ==
  ASSUME ReplayInv, pc \in {"clear", "resolve", "run"}, NEW p \in {Head(todo)},
         Finish(p, 3, 3), UNCHANGED <<tooling, out, swapped, missed>>,
         p \in script \ Stuck => out[p] = "none"
  PROVE  ReplayInv'
<1>. DEFINE c == 3
<1>1. c \in 0 .. 3 /\ c = 3 /\ Finish(p, c, c) /\ ~(c = 0)
  OBVIOUS
<1>. HIDE DEF c
<1>2. out' \in [Pkg -> {"none", "quiet", "crash"}] /\ missed \subseteq missed'
  BY DEF ReplayInv, ReplayTypeOK
<1>3. /\ UNCHANGED <<tooling, swapped>> /\ c = c /\ \A q \in Pkg : q # p => out'[q] = out[q]
      /\ p \in script \ Stuck /\ c = 3 => out'[p] = "none"
  OBVIOUS
<1>. QED BY <1>1, <1>2, <1>3, FinishStep

LEMMA ReplayStep == ReplayInv /\ [ReplayNext]_replayVars => ReplayInv'
<1>. SUFFICES ASSUME ReplayInv, [ReplayNext]_replayVars PROVE ReplayInv'
  OBVIOUS
<1>0. ReplayTypeOK /\ CodeBounds /\ PathPinned /\ ClearedFirst /\ VerdictTrue
  BY DEF ReplayInv
<1>. USE DEF tooling
<1>1. CASE Invoke
  <2>1. /\ pc = "idle" /\ UNCHANGED <<tooling, out, path, verdict, truth, swapped, missed>>
        /\ pc' \in {"done", "clear"} /\ exit' \in 0 .. 3 /\ (pc' = "clear" => todo' # << >>)
    <3>. DEFINE Fine == pc' \in {"done", "clear"} /\ exit' \in 0 .. 3 /\ (pc' = "clear" => todo' # << >>)
    <3>1. ASSUME NEW c \in 0 .. 3, Answer(c) PROVE Fine
      BY <3>1, SMT DEF Answer
    <3>2. ASSUME NEW ps, Begin(ps) PROVE Fine
      <4>1. CASE ps = << >>
        BY <3>1, <3>2, <4>1 DEF Begin
      <4>2. CASE ps # << >>
        BY <3>2, <4>2 DEF Begin
      <4>. QED BY <4>1, <4>2
    <3>3. List \/ NoPolicy \/ PrintEnv \/ NoSuchPackage \/ NoArgument \/ One \/ All
      BY <1>1, Zenon DEF Invoke
    <3>. HIDE DEF Fine
    <3>4. List \/ NoPolicy \/ NoSuchPackage \/ NoArgument => Fine
      BY <3>1 DEF List, NoPolicy, NoSuchPackage, NoArgument
    <3>5. PrintEnv => Fine
      BY <3>1 DEF PrintEnv
    <3>6. One \/ All => Fine
      BY <3>2, Zenon DEF One, All
    <3>7. Fine
      BY <3>3, <3>4, <3>5, <3>6, Zenon
    <3>8. pc = "idle" /\ UNCHANGED <<tooling, out, path, verdict, truth, swapped, missed>>
      BY <1>1 DEF Invoke
    <3>. QED BY <3>7, <3>8 DEF Fine
  <2>2. ReplayTypeOK'
    BY <1>0, <2>1 DEF ReplayTypeOK
  <2>3. \A p \in Pkg : verdict'[p] <= exit' /\ verdict'[p] # 3 /\ verdict'[p] # 0
    BY <1>0, <2>1 DEF CodeBounds, NoVerdict
  <2>4. CodeBounds'
    BY <2>1, <2>3 DEF CodeBounds
  <2>5. ClearedFirst'
    BY <1>0, <2>1, <2>3 DEF ClearedFirst, ReplayTypeOK
  <2>. QED BY <1>0, <2>1, <2>2, <2>4, <2>5 DEF ReplayInv, PathPinned, VerdictTrue
<1>2. CASE NoScript
  <2>1. /\ Finish(Head(todo), 3, 3) /\ pc = "clear" /\ Head(todo) \notin script
        /\ UNCHANGED <<tooling, out, swapped, missed>>
    BY <1>2 DEF NoScript
  <2>. QED BY <2>1, RefuseStep
<1>3. CASE Clear
  <2>. DEFINE p == Head(todo)
  <2>1. /\ p \in script /\ out' = [out EXCEPT ![p] = Cleared(p)] /\ pc = "clear" /\ pc' = "resolve"
        /\ UNCHANGED <<tooling, todo, path, verdict, exit, truth, swapped, missed>>
    BY <1>3 DEF Clear
  <2>2. p \in Pkg /\ out \in [Pkg -> {"none", "quiet", "crash"}]
    BY <1>0, <2>1 DEF ReplayTypeOK
  <2>3. Cleared(p) \in {"none", "quiet", "crash"} /\ (p \notin Stuck => Cleared(p) = "none")
    BY <2>2 DEF Cleared
  <2>. HIDE DEF p
  <2>4. /\ out' \in [Pkg -> {"none", "quiet", "crash"}] /\ (p \notin Stuck => out'[p] = "none")
        /\ \A q \in Pkg : q # p => out'[q] = out[q]
    BY <2>1, <2>2, <2>3
  <2>5. ReplayTypeOK'
    BY <1>0, <2>1, <2>4 DEF ReplayTypeOK
  <2>6. ASSUME NEW q \in script \ Stuck, verdict[q] = 3 PROVE out'[q] = "none"
    BY <1>0, <2>4, <2>6 DEF ReplayTypeOK, ClearedFirst
  <2>7. ClearedFirst'
    BY <2>1, <2>4, <2>6 DEF ClearedFirst, p
  <2>. QED BY <1>0, <2>1, <2>5, <2>7 DEF ReplayInv, CodeBounds, PathPinned, VerdictTrue
<1>4. CASE ResolveFails
  <2>1. /\ pc = "resolve" /\ UNCHANGED <<tooling, out, swapped, missed>> /\ Finish(Head(todo), 3, 3)
    BY <1>4 DEF ResolveFails
  <2>2. Head(todo) \in script \ Stuck => out[Head(todo)] = "none"
    BY <1>0, <2>1 DEF ClearedFirst
  <2>. QED BY <2>1, <2>2, RefuseStep
<1>5. CASE Resolve
  <2>. DEFINE p == Head(todo)
  <2>1. /\ pc = "resolve" /\ pc' = "run" /\ \A t \in Needs[p] : Resolved(t)
        /\ path' = [t \in Tool |-> IF t \in Needs[p] THEN Candidate(t) ELSE NoPlace]
        /\ UNCHANGED <<tooling, out, todo, verdict, exit, truth, swapped, missed>>
    BY <1>5 DEF Resolve
  <2>2. p \in Pkg /\ Needs[p] \subseteq Tool
    BY <1>0, <2>1, ReplayAssumption DEF ClearedFirst, ReplayTypeOK
  <2>3. \A t \in Needs[p] : Candidate(t) \in Place /\ installed[t][Candidate(t)] = "pinned"
    BY <1>0, <2>1, <2>2, ResolvedPlace
  <2>4. path' \in [Tool -> Place \cup {NoPlace}]
    BY <2>1, <2>3
  <2>5. ReplayTypeOK'
    BY <1>0, <2>1, <2>4 DEF ReplayTypeOK
  <2>6. \A t \in Needs[p] : path'[t] = Candidate(t)
    BY <2>1, <2>2
  <2>7. PathPinned'
    BY <2>1, <2>3, <2>6 DEF PathPinned, Runs
  <2>. QED BY <1>0, <2>1, <2>5, <2>7 DEF ReplayInv, CodeBounds, ClearedFirst, VerdictTrue
<1>6. CASE ReplayPackage
  <2>. DEFINE p == Head(todo)
              intact == \A t \in Needs[p] : Runs(t) = "pinned"
  <2>1. pc = "run" /\ UNCHANGED <<tooling, swapped>>
    BY <1>6 DEF ReplayPackage
  <2>2. PICK e \in EndingsOf(p) :
          /\ out' = [out EXCEPT ![p] = e.told]
          /\ missed' = IF e.missed THEN missed \cup {p} ELSE missed
          /\ Finish(p, ReplayExit(e), IF intact THEN e.truth ELSE 3)
    BY <1>6 DEF ReplayPackage
  <2>3. p \in Pkg /\ p \in script /\ out \in [Pkg -> {"none", "quiet", "crash"}]
    BY <1>0, <2>1 DEF ReplayTypeOK, ClearedFirst
  <2>4. intact \/ p \in swapped
    BY <1>0, <2>1 DEF PathPinned
  <2>5. /\ ReplayExit(e) \in 0 .. 2 /\ e.truth \in 0 .. 2 /\ e.told \in {"none", "quiet", "crash"}
        /\ ReplayExit(e) = 0 => e.truth = 0
    BY <1>0, <2>3, CodeIsCode
  <2>6. p \notin Stuck => ReplayExit(e) = e.truth \/ (ReplayExit(e) = 1 /\ e.truth = 2 /\ e.missed)
    BY CodeOfEnding DEF EndingsOf
  <2>. DEFINE c == ReplayExit(e)
              r == IF intact THEN e.truth ELSE 3
  <2>. HIDE DEF intact
  <2>7. /\ Finish(p, c, r) /\ c \in 0 .. 3 /\ r \in 0 .. 3 /\ c # 3
        /\ c = 0 => r = 0 \/ (r = 3 /\ p \in swapped)
    BY <2>2, <2>4, <2>5
  <2>8. p \notin Stuck => \/ c = r \/ (c = 1 /\ r = 2 /\ p \in missed')
                          \/ (c \in 0 .. 2 /\ r = 3 /\ p \in swapped)
    <3>1. e.missed => p \in missed'
      BY <2>2
    <3>. QED BY <2>4, <2>5, <2>6, <3>1
  <2>. HIDE DEF c, r
  <2>9. p \in {Head(todo)} /\ pc \in {"clear", "resolve", "run"}
    BY <2>1
  <2>. HIDE DEF p
  <2>10. missed \subseteq missed'
    BY <2>2
  <2>11. out' \in [Pkg -> {"none", "quiet", "crash"}] /\ \A q \in Pkg : q # p => out'[q] = out[q]
    BY <2>2, <2>3, <2>5
  <2>. QED BY <2>1, <2>7, <2>8, <2>9, <2>10, <2>11, FinishStep
<1>7. CASE Return
  <2>1. /\ pc = "done" /\ pc' = "idle" /\ exit' = NoVerdict
        /\ verdict' = [p \in Pkg |-> NoVerdict] /\ truth' = verdict'
        /\ UNCHANGED <<tooling, out, todo, path>>
    BY <1>7 DEF Return
  <2>2. ReplayTypeOK'
    BY <1>0, <2>1 DEF ReplayTypeOK
  <2>3. \A p \in Pkg : verdict'[p] # 3 /\ verdict'[p] # 0 /\ verdict'[p] = NoVerdict
    BY <2>1 DEF NoVerdict
  <2>4. CodeBounds' /\ VerdictTrue'
    BY <2>1, <2>3 DEF CodeBounds, VerdictTrue
  <2>5. ClearedFirst'
    BY <2>1, <2>2, <2>3 DEF ClearedFirst, ReplayTypeOK
  <2>. QED BY <2>1, <2>2, <2>4, <2>5 DEF ReplayInv, PathPinned
<1>8. CASE Reinstall
  <2>0. UNCHANGED <<out, pc, todo, path, verdict, exit, truth, missed>>
    BY <1>8 DEF Reinstall
  <2>1. CASE \E t \in Tool, l \in Place, f \in FileKind : Install(t, l, f)
    <3>1. PICK t \in Tool, l \in Place, f \in FileKind : Install(t, l, f)
      BY <2>1
    <3>2. /\ installed' = [installed EXCEPT ![t][l] = f] /\ UNCHANGED <<envVar, script>>
          /\ swapped' = IF path[t] = l THEN swapped \cup {Head(todo)} ELSE swapped
      BY <3>1 DEF Install
    <3>3. installed \in [Tool -> [Place -> FileKind]]
      BY <1>0 DEF ReplayTypeOK
    <3>4. /\ installed' \in [Tool -> [Place -> FileKind]] /\ swapped \subseteq swapped'
          /\ \A u \in Tool, k \in Place : u # t \/ k # l => installed'[u][k] = installed[u][k]
      BY <3>2, <3>3
    <3>5. ReplayTypeOK'
      BY <1>0, <2>0, <3>2, <3>4 DEF ReplayTypeOK
    <3>6. PathPinned'
      <4>. SUFFICES ASSUME pc = "run", NEW u \in Needs[Head(todo)]
                    PROVE  path[u] \in Place /\ (installed'[u][path[u]] = "pinned" \/ Head(todo) \in swapped')
        BY <2>0 DEF PathPinned, Runs
      <4>1. u \in Tool
        BY <1>0, ReplayAssumption DEF ClearedFirst, ReplayTypeOK
      <4>2. path[u] \in Place /\ (installed[u][path[u]] = "pinned" \/ Head(todo) \in swapped)
        BY <1>0 DEF PathPinned, Runs
      <4>3. CASE u = t /\ path[u] = l
        BY <3>2, <4>2, <4>3
      <4>4. CASE u # t \/ path[u] # l
        BY <3>4, <4>1, <4>2, <4>4
      <4>. QED BY <4>3, <4>4
    <3>7. CodeBounds' /\ VerdictTrue'
      BY <1>0, <2>0, <3>4 DEF CodeBounds, VerdictTrue
    <3>. QED BY <1>0, <2>0, <3>2, <3>5, <3>6, <3>7 DEF ReplayInv, ClearedFirst
  <2>2. CASE /\ pc = "idle" /\ UNCHANGED <<installed, swapped>>
             /\ \/ \E t \in Tool, l \in Place \cup {NoPlace} :
                     envVar' = [envVar EXCEPT ![t] = l] /\ UNCHANGED script
                \/ \E p \in Pkg : script' = (script \ {p}) \cup ({p} \ script) /\ UNCHANGED envVar
    <3>1. envVar' \in [Tool -> Place \cup {NoPlace}] /\ script' \subseteq Pkg
      BY <1>0, <2>2 DEF ReplayTypeOK
    <3>2. ReplayTypeOK'
      BY <1>0, <2>0, <2>2, <3>1 DEF ReplayTypeOK
    <3>3. \A p \in Pkg : verdict[p] # 3
      BY <1>0, <2>2 DEF CodeBounds, NoVerdict
    <3>4. ClearedFirst'
      BY <2>0, <2>2, <3>1, <3>3 DEF ClearedFirst
    <3>. QED BY <1>0, <2>0, <2>2, <3>2, <3>4 DEF ReplayInv, CodeBounds, PathPinned, VerdictTrue
  <2>. QED BY <1>8, <2>1, <2>2 DEF Reinstall
<1>9. CASE UNCHANGED replayVars
  <2>1. UNCHANGED <<envVar, installed, script, out, pc, todo, path, verdict, exit, truth, swapped, missed>>
    BY <1>9 DEF replayVars
  <2>2. ReplayTypeOK'
    BY <1>0, <2>1 DEF ReplayTypeOK
  <2>3. CodeBounds' /\ VerdictTrue'
    BY <1>0, <2>1 DEF CodeBounds, VerdictTrue
  <2>4. PathPinned' /\ ClearedFirst'
    BY <1>0, <2>1 DEF PathPinned, ClearedFirst, Runs
  <2>. QED BY <2>2, <2>3, <2>4 DEF ReplayInv
<1>. QED BY <1>1, <1>2, <1>3, <1>4, <1>5, <1>6, <1>7, <1>8, <1>9 DEF ReplayNext

LEMMA ReplayAlways == ReplaySpec => []ReplayInv
BY ReplayStart, ReplayStep, PTL DEF ReplaySpec

(* Whatever replay.sh does, however long its logs and in whatever order      *)
(* tools come and go, every package whose replay_out can be removed gets the *)
(* code of what happened to it, but for two cases that the state records: a  *)
(* crash told where the wrapper does not look, and a tool overwritten        *)
(* between the look at it and its use                                        *)
(* (replay_public_receipt.py:16-28, 330-345, 368-392).                       *)
THEOREM CodesAlwaysTrue == ReplaySpec => []CodesInv
<1>1. ReplayInv => CodesInv
  BY DEF ReplayInv, CodesInv
<1>. QED BY <1>1, ReplayAlways, PTL

(* A package with a replay.sh that could not be replayed keeps no replay_out *)
(* of an earlier success, however tools and scripts come and go, if it can   *)
(* be removed (replay_public_receipt.py:319-324).                            *)
THEOREM OutputNeverStale == ReplaySpec => []NoStaleOutput
<1>1. ReplayInv => NoStaleOutput
  BY DEF ReplayInv, ClearedFirst, NoStaleOutput
<1>. QED BY <1>1, ReplayAlways, PTL

(* An invocation exits with 0 only if each package that it replayed          *)
(* reproduced its claims, with the pinned tools unless one of them was       *)
(* overwritten in between, however long the logs and whatever could not be   *)
(* removed (replay_public_receipt.py:428-434).                               *)
THEOREM ZeroAlwaysEarned == ReplaySpec => []ExitZeroIsEarned
<1>1. ReplayInv => ExitZeroIsEarned
  <2>. SUFFICES ASSUME ReplayInv, pc = "done", exit = 0, NEW p \in Pkg, verdict[p] # NoVerdict
                PROVE  truth[p] = 0 \/ (truth[p] = 3 /\ p \in swapped)
    BY DEF ExitZeroIsEarned
  <2>1. /\ verdict[p] \in {NoVerdict} \cup 0 .. 3 /\ verdict[p] <= 0
        /\ verdict[p] = 0 => truth[p] = 0 \/ (truth[p] = 3 /\ p \in swapped)
    BY DEF ReplayInv, CodeBounds, ReplayTypeOK
  <2>. QED BY <2>1 DEF NoVerdict
<1>. QED BY <1>1, ReplayAlways, PTL

-----------------------------------------------------------------------------
(* The area of a composed design.  The design: a module instantiates later  *)
(* ones; its submodules, and what the table should say of it.               *)
CountInv == \A m \in Mod : \A s \in 1 .. N + 1 : count[m][s] \in Nat /\ (s <= m => count[m][s] = 0)

SubsOf(m)     == SetToSeq(Subs(m))
Entries(m, j) == [i \in 1 .. j |-> <<count[m][SubsOf(m)[i]], SubsOf(m)[i]>>]
EntryOf(m)    == [area |-> AreaOf[m], subs |-> Entries(m, Len(SubsOf(m)))]
Parsed        == /\ DOMAIN table = 0 .. N /\ table[NoMod] = Empty
                 /\ \A m \in Mod : table[m] = EntryOf(m)

LEMMA SubsOfIs ==
  ASSUME NEW m \in Mod
  PROVE  /\ SubsOf(m) \in Seq(Subs(m)) /\ DOMAIN SubsOf(m) = 1 .. Len(SubsOf(m))
         /\ Len(SubsOf(m)) \in Nat /\ Subs(m) \subseteq m + 1 .. N + 1
         /\ \A j \in 1 .. Len(SubsOf(m)) : SubsOf(m)[j] \in Subs(m)
         /\ \A i, j \in 1 .. Len(SubsOf(m)) : SubsOf(m)[i] = SubsOf(m)[j] => i = j
         /\ \A s \in Subs(m) : \E j \in 1 .. Len(SubsOf(m)) : SubsOf(m)[j] = s
<1>1. IsFiniteSet(m + 1 .. N + 1) /\ Subs(m) \subseteq m + 1 .. N + 1
  <2>1. m + 1 \in Int /\ N + 1 \in Int
    BY AreaAssumption DEF Mod
  <2>2. IsFiniteSet(m + 1 .. N + 1)
    BY <2>1, FS_Interval
  <2>. QED BY <2>2 DEF Subs, Wrapper
<1>2. IsFiniteSet(Subs(m))
  BY <1>1, FS_Subset
<1>. DEFINE S == Subs(m)
<1>. HIDE DEF S
<1>3. IsFiniteSet(S)
  BY <1>2 DEF S
<1>4. /\ SetToSeq(S) \in Seq(S) /\ DOMAIN SetToSeq(S) = 1 .. Len(SetToSeq(S))
      /\ Len(SetToSeq(S)) \in Nat
      /\ \A j \in 1 .. Len(SetToSeq(S)) : SetToSeq(S)[j] \in S
      /\ \A i, j \in 1 .. Len(SetToSeq(S)) : SetToSeq(S)[i] = SetToSeq(S)[j] => i = j
      /\ \A x \in S : \E j \in 1 .. Len(SetToSeq(S)) : SetToSeq(S)[j] = x
  BY <1>3, SetToSeqIs
<1>5. S = Subs(m) /\ SubsOf(m) = SetToSeq(S)
  BY DEF S, SubsOf
<1>. QED BY <1>1, <1>4, <1>5

(* What a module adds by its submodules, when each is worth what g says. *)
Below(g, m) == SumFunction([j \in DOMAIN table[m].subs |->
                 IF table[m].subs[j][2] \in DOMAIN table
                 THEN table[m].subs[j][1] * g[table[m].subs[j][2]] ELSE 0])

LEMMA EntryIs ==
  ASSUME CountInv, Parsed, NEW m \in 0 .. N
  PROVE  /\ table[m].area \in Int /\ IsFiniteSet(DOMAIN table[m].subs)
         /\ \A j \in DOMAIN table[m].subs :
              table[m].subs[j][1] \in Int /\ table[m].subs[j][2] \in m + 1 .. N + 1
<1>1. CASE m = 0
  <2>1. DOMAIN table[m].subs = {} /\ table[m].area = 0
    BY <1>1 DEF Parsed, Empty, NoMod
  <2>. QED BY <2>1, FS_EmptySet
<1>2. CASE m # 0
  <2>1. m \in Mod /\ table[m] = EntryOf(m)
    BY <1>2, AreaAssumption DEF Mod, Parsed
  <2>2. table[m].area = AreaOf[m] /\ table[m].subs = Entries(m, Len(SubsOf(m)))
    BY <2>1 DEF EntryOf
  <2>3. AreaOf[m] \in Int
    BY <2>1, AreaAssumption DEF Mod
  <2>4. Len(SubsOf(m)) \in Nat /\ \A j \in 1 .. Len(SubsOf(m)) : SubsOf(m)[j] \in m + 1 .. N + 1
    BY <2>1, SubsOfIs
  <2>5. DOMAIN table[m].subs = 1 .. Len(SubsOf(m))
        /\ \A j \in 1 .. Len(SubsOf(m)) : table[m].subs[j] = <<count[m][SubsOf(m)[j]], SubsOf(m)[j]>>
    BY <2>2 DEF Entries
  <2>6. IsFiniteSet(1 .. Len(SubsOf(m)))
    BY <2>4, FS_Interval
  <2>7. ASSUME NEW s \in m + 1 .. N + 1 PROVE count[m][s] \in Int
    BY <2>1, <2>7, AreaAssumption DEF CountInv, Mod
  <2>. QED BY <2>2, <2>3, <2>4, <2>5, <2>6, <2>7
<1>. QED BY <1>1, <1>2

LEMMA BelowIs ==
  ASSUME CountInv, Parsed, NEW m \in 0 .. N, NEW g, \A s \in m + 1 .. N : g[s] \in Int
  PROVE  /\ Below(g, m) \in Int
         /\ \A h : (\A s \in m + 1 .. N : h[s] = g[s]) => Below(h, m) = Below(g, m)
<1>. DEFINE e == table[m].subs
            f(h) == [j \in DOMAIN e |-> IF e[j][2] \in DOMAIN table THEN e[j][1] * h[e[j][2]] ELSE 0]
<1>1. /\ IsFiniteSet(DOMAIN e) /\ DOMAIN table = 0 .. N
      /\ \A j \in DOMAIN e : e[j][1] \in Int /\ e[j][2] \in m + 1 .. N + 1
  BY EntryIs DEF Parsed
<1>2. \A h : Below(h, m) = SumFunctionOnSet(f(h), DOMAIN e)
  BY DEF Below, SumFunction
<1>. HIDE DEF e
<1>3. \A j \in DOMAIN e : e[j][2] \in DOMAIN table => e[j][2] \in m + 1 .. N
  BY <1>1, AreaAssumption
<1>4. ASSUME NEW j \in DOMAIN e PROVE f(g)[j] \in Int
  <2>1. CASE e[j][2] \in DOMAIN table
    <3>1. e[j][1] \in Int /\ g[e[j][2]] \in Int
      BY <1>1, <1>3, <2>1
    <3>2. f(g)[j] = e[j][1] * g[e[j][2]]
      BY <2>1
    <3>3. \A p, q \in Int : p * q \in Int
      OBVIOUS
    <3>. HIDE DEF f
    <3>. QED BY <3>1, <3>2, <3>3
  <2>2. CASE e[j][2] \notin DOMAIN table
    BY <2>2
  <2>. QED BY <2>1, <2>2
<1>5. ASSUME NEW h, \A s \in m + 1 .. N : h[s] = g[s] PROVE f(h) = f(g)
  <2>1. \A j \in DOMAIN e : f(h)[j] = f(g)[j]
    BY <1>3, <1>5
  <2>. QED BY <2>1
<1>. HIDE DEF f
<1>6. SumFunctionOnSet(f(g), DOMAIN e) \in Int
  BY <1>1, <1>4, SumStep
<1>. QED BY <1>2, <1>5, <1>6

(* The recursion of the total goes to later modules: it is what its         *)
(* equations say.                                                           *)
LEMMA TotalIs ==
  ASSUME CountInv, Parsed
  PROVE  \E T : /\ \A m \in 0 .. N : T[m] \in Int /\ T[m] = table[m].area + Below(T, m)
                /\ \A top \in Mod : Total(top) = T[top]
<1>. DEFINE Body(g) == [m \in DOMAIN table |-> table[m].area + Below(g, m)]
            T == CHOOSE g : g = Body(g)
            K == {k \in Nat : k <= N + 1 =>
                    \E g \in [0 .. N -> Int] : \A m \in 0 .. N : m > N - k =>
                      g[m] = table[m].area + Below(g, m)}
<1>0. N \in Nat /\ DOMAIN table = 0 .. N
  BY AreaAssumption DEF Parsed
<1>1. \A top : Total(top) = T[top]
  BY DEF Total, Below
<1>2. 0 \in K
  <2>1. [m \in 0 .. N |-> 0] \in [0 .. N -> Int] /\ \A m \in 0 .. N : ~(m > N - 0)
    BY <1>0
  <2>. QED BY <2>1
<1>3. ASSUME NEW k \in Nat, k \in K PROVE k + 1 \in K
  <2>. SUFFICES ASSUME k + 1 <= N + 1
                PROVE  \E g \in [0 .. N -> Int] : \A m \in 0 .. N : m > N - (k + 1) =>
                         g[m] = table[m].area + Below(g, m)
    OBVIOUS
  <2>1. PICK g \in [0 .. N -> Int] : \A m \in 0 .. N : m > N - k => g[m] = table[m].area + Below(g, m)
    BY <1>0, <1>3
  <2>. DEFINE n == N - k
              h == [g EXCEPT ![n] = table[n].area + Below(g, n)]
  <2>2. n \in 0 .. N
    BY <1>0
  <2>3. \A m \in 0 .. N : table[m].area \in Int /\ Below(g, m) \in Int
    <3>. SUFFICES ASSUME NEW m \in 0 .. N PROVE table[m].area \in Int /\ Below(g, m) \in Int
      OBVIOUS
    <3>1. \A s \in m + 1 .. N : g[s] \in Int
      BY <1>0
    <3>. QED BY <3>1, EntryIs, BelowIs
  <2>4. h \in [0 .. N -> Int]
    BY <2>2, <2>3
  <2>5. \A m \in 0 .. N : h[m] = IF m = n THEN table[n].area + Below(g, n) ELSE g[m]
    OBVIOUS
  <2>. HIDE DEF h
  <2>6. ASSUME NEW m \in 0 .. N, m > N - (k + 1) PROVE h[m] = table[m].area + Below(h, m)
    <3>1. \A s \in m + 1 .. N : g[s] \in Int /\ h[s] = g[s]
      BY <1>0, <2>2, <2>5, <2>6
    <3>2. Below(h, m) = Below(g, m)
      BY <3>1, BelowIs
    <3>3. CASE m = n
      BY <2>5, <3>2, <3>3
    <3>4. CASE m # n
      BY <1>0, <2>1, <2>5, <2>6, <3>2, <3>4
    <3>. QED BY <3>3, <3>4
  <2>. HIDE DEF n
  <2>. QED BY <2>4, <2>6
<1>4. \A k \in Nat : 0 <= k => k \in K
  <2>. HIDE DEF K
  <2>. QED BY <1>2, <1>3, Upward
<1>5. \E g : g = Body(g)
  <2>1. PICK g \in [0 .. N -> Int] : \A m \in 0 .. N : m > N - (N + 1) =>
                      g[m] = table[m].area + Below(g, m)
    BY <1>0, <1>4
  <2>2. \A m \in 0 .. N : g[m] = Body(g)[m]
    BY <1>0, <2>1
  <2>3. Body(g) = [m \in 0 .. N |-> Body(g)[m]]
    BY <1>0
  <2>. HIDE DEF Body
  <2>4. g = Body(g)
    BY <2>2, <2>3
  <2>. QED BY <2>4
<1>6. T = Body(T)
  <2>. HIDE DEF Body
  <2>. QED BY <1>5
<1>. HIDE DEF T, K
<1>7. \A m \in 0 .. N : T[m] = table[m].area + Below(T, m)
  BY <1>0, <1>6
<1>. DEFINE J == {k \in Nat : \A m \in 0 .. N : m > N - k => T[m] \in Int}
<1>8. 0 \in J
  BY <1>0
<1>9. ASSUME NEW k \in Nat, k \in J PROVE k + 1 \in J
  <2>. SUFFICES ASSUME NEW m \in 0 .. N, m > N - (k + 1) PROVE T[m] \in Int
    OBVIOUS
  <2>1. \A s \in m + 1 .. N : T[s] \in Int
    BY <1>0, <1>9
  <2>2. table[m].area \in Int /\ Below(T, m) \in Int
    BY <2>1, EntryIs, BelowIs
  <2>. QED BY <1>7, <2>2
<1>10. \A k \in Nat : 0 <= k => k \in J
  <2>. HIDE DEF J
  <2>. QED BY <1>8, <1>9, Upward
<1>11. \A m \in 0 .. N : T[m] \in Int
  <2>1. N + 1 \in J
    <3>1. N + 1 \in Nat /\ 0 <= N + 1
      BY <1>0
    <3>. HIDE DEF J
    <3>. QED BY <1>10, <3>1
  <2>2. \A m \in 0 .. N : m > N - (N + 1) => T[m] \in Int
    BY <2>1
  <2>. QED BY <1>0, <2>2
<1>12. \A m \in 0 .. N : T[m] \in Int /\ T[m] = table[m].area + Below(T, m)
  BY <1>7, <1>11
<1>13. \A top \in Mod : Total(top) = T[top]
  BY <1>1
<1>. HIDE DEF T
<1>. QED BY <1>12, <1>13

-----------------------------------------------------------------------------
(* What a module adds is counted over the modules from top on: each brings  *)
(* what it is worth as often as it is instantiated.                         *)
LEMMA BelowIsCounted ==
  ASSUME CountInv, Parsed, NEW top \in Mod, NEW m \in top .. N,
         NEW T, \A s \in 0 .. N : T[s] \in Int
  PROVE  Below(T, m) = SumFunctionOnSet([s \in top .. N |-> count[m][s] * T[s]], top .. N)
<1>. DEFINE Whole == top .. N + 1
            S == top .. N
            D == 1 .. Len(SubsOf(m))
            f == [s \in Whole |-> IF s \in 0 .. N THEN count[m][s] * T[s] ELSE 0]
            h == [j \in DOMAIN table[m].subs |->
                    IF table[m].subs[j][2] \in DOMAIN table
                    THEN table[m].subs[j][1] * T[table[m].subs[j][2]] ELSE 0]
            g == [s \in S |-> count[m][s] * T[s]]
<1>0. N \in Nat /\ top \in Nat /\ top >= 1 /\ m \in Mod /\ m \in Nat
  BY AreaAssumption DEF Mod
<1>1. \A s \in Whole : count[m][s] \in Nat /\ (s <= m => count[m][s] = 0)
  BY <1>0 DEF CountInv
<1>2. /\ SubsOf(m) \in Seq(Subs(m)) /\ Len(SubsOf(m)) \in Nat /\ DOMAIN SubsOf(m) = D
      /\ \A j \in D : SubsOf(m)[j] \in Subs(m)
      /\ \A i, j \in D : SubsOf(m)[i] = SubsOf(m)[j] => i = j
      /\ \A s \in Subs(m) : \E j \in D : SubsOf(m)[j] = s
  BY <1>0, SubsOfIs
<1>3. IsFiniteSet(Whole) /\ Subs(m) \in SUBSET Whole /\ S \in SUBSET Whole /\ IsFiniteSet(Subs(m)) /\ IsFiniteSet(D)
  <2>1. IsFiniteSet(Whole) /\ IsFiniteSet(D)
    BY <1>0, <1>2, FS_Interval
  <2>2. Subs(m) \subseteq m + 1 .. N + 1
    BY <1>0, SubsOfIs
  <2>3. Subs(m) \in SUBSET Whole /\ S \in SUBSET Whole
    BY <1>0, <2>2
  <2>. QED BY <2>1, <2>3, FS_Subset
<1>4. \A s \in Whole : f[s] \in Int /\ (s \notin Subs(m) => f[s] = 0) /\ (s \notin S => f[s] = 0)
  <2>. SUFFICES ASSUME NEW s \in Whole
                PROVE  f[s] \in Int /\ (s \notin Subs(m) => f[s] = 0) /\ (s \notin S => f[s] = 0)
    OBVIOUS
  <2>1. CASE s \in 0 .. N
    <3>1. count[m][s] \in Int /\ T[s] \in Int /\ f[s] = count[m][s] * T[s] /\ s \in S
      BY <1>0, <1>1, <2>1
    <3>2. \A p, q \in Int : p * q \in Int /\ 0 * q = 0
      OBVIOUS
    <3>3. s \notin Subs(m) => count[m][s] = 0
      BY <1>0, <1>1 DEF Subs, Wrapper
    <3>. HIDE DEF f
    <3>. QED BY <3>1, <3>2, <3>3
  <2>2. CASE s \notin 0 .. N
    BY <1>0, <2>2
  <2>. QED BY <2>1, <2>2
<1>5. table[m].subs = [j \in D |-> <<count[m][SubsOf(m)[j]], SubsOf(m)[j]>>] /\ DOMAIN table = 0 .. N
  <2>1. table[m] = EntryOf(m) /\ DOMAIN table = 0 .. N
    BY <1>0 DEF Parsed
  <2>2. EntryOf(m).subs = Entries(m, Len(SubsOf(m)))
    BY DEF EntryOf
  <2>. QED BY <2>1, <2>2 DEF Entries
<1>6. DOMAIN table[m].subs = D /\ \A j \in D : h[j] = f[SubsOf(m)[j]]
  <2>1. \A j \in D : SubsOf(m)[j] \in Whole
    BY <1>2, <1>3
  <2>. QED BY <1>5, <2>1
<1>7. \A s \in S : g[s] = f[s]
  BY <1>0
<1>8. Below(T, m) = SumFunctionOnSet(h, D)
  <2>1. DOMAIN h = D
    BY <1>6
  <2>. QED BY <2>1 DEF Below, SumFunction
<1>. HIDE DEF f, g, h
<1>9. SubsOf(m) \in [D -> Subs(m)]
  BY <1>2
<1>10. \A s \in Subs(m) : f[s] \in Int
  BY <1>3, <1>4
<1>. DEFINE e == SubsOf(m)
            U == Subs(m)
<1>11. SumFunctionOnSet(h, D) = SumFunctionOnSet(f, U)
  <2>1. /\ e \in [D -> U] /\ \A i, j \in D : e[i] = e[j] => i = j
        /\ \A x \in U : \E i \in D : e[i] = x
    BY <1>2, <1>9
  <2>2. (\A x \in U : f[x] \in Int) /\ (\A i \in D : h[i] = f[e[i]]) /\ IsFiniteSet(U) /\ IsFiniteSet(D)
    BY <1>3, <1>6, <1>10
  <2>. HIDE DEF e, U, D
  <2>. QED BY <2>1, <2>2, SumRenamed
<1>12. SumFunctionOnSet(f, Whole) = SumFunctionOnSet(f, U)
  <2>1. (\A x \in Whole : f[x] \in Int) /\ (\A x \in Whole \ U : f[x] = 0) /\ IsFiniteSet(Whole) /\ U \in SUBSET Whole
    BY <1>3, <1>4
  <2>. HIDE DEF U, Whole
  <2>. QED BY <2>1, SumPart
<1>13. SumFunctionOnSet(f, Whole) = SumFunctionOnSet(f, S)
  <2>1. (\A x \in Whole : f[x] \in Int) /\ (\A x \in Whole \ S : f[x] = 0) /\ IsFiniteSet(Whole) /\ S \in SUBSET Whole
    BY <1>3, <1>4
  <2>. HIDE DEF S, Whole
  <2>. QED BY <2>1, SumPart
<1>14. SumFunctionOnSet(g, S) = SumFunctionOnSet(f, S)
  <2>1. \A x \in S : f[x] \in Int /\ g[x] = f[x]
    BY <1>3, <1>4, <1>7
  <2>2. IsFiniteSet(S)
    BY <1>3, FS_Subset
  <2>. HIDE DEF S
  <2>. QED BY <2>1, <2>2, SumSame
<1>. QED BY <1>8, <1>11, <1>12, <1>13, <1>14 DEF g

(* The recursion of the instances goes to earlier modules. *)
LEMMA InstancesIs ==
  ASSUME CountInv, NEW top \in Mod
  PROVE  \A s \in top .. N :
           /\ Instances(top)[s] \in Int
           /\ Instances(top)[s] = (IF s = top THEN 1 ELSE 0)
                + SumFunctionOnSet([m \in top .. N |-> Instances(top)[m] * count[m][s]], top .. N)
<1>. DEFINE S == top .. N
            Above(g, s) == [m \in top .. s - 1 |-> g[m] * count[m][s]]
            Value(g, s) == IF s = top THEN 1 ELSE SumFunction(Above(g, s))
            Body(g) == [s \in S |-> Value(g, s)]
            I == CHOOSE g : g = Body(g)
            K == {k \in Nat : top + k <= N + 1 => \E g \in [S -> Int] : \A s \in S : s < top + k => g[s] = Value(g, s)}
<1>0. N \in Nat /\ top \in Nat /\ 1 <= top /\ top <= N
  BY AreaAssumption DEF Mod
<1>1. \A m \in S, s \in S : count[m][s] \in Nat /\ (s <= m => count[m][s] = 0)
  BY <1>0 DEF CountInv, Mod
<1>2. Instances(top) = I
  BY DEF Instances
<1>3. ASSUME NEW s \in S, NEW g, \A m \in top .. s - 1 : g[m] \in Int
      PROVE  /\ Value(g, s) \in Int
             /\ \A h : (\A m \in top .. s - 1 : h[m] = g[m]) => Value(h, s) = Value(g, s)
  <2>1. ASSUME NEW m \in top .. s - 1 PROVE Above(g, s)[m] \in Int
    <3>1. count[m][s] \in Int /\ g[m] \in Int /\ Above(g, s)[m] = g[m] * count[m][s]
      BY <1>0, <1>1, <1>3
    <3>2. \A p, q \in Int : p * q \in Int
      OBVIOUS
    <3>. HIDE DEF Above
    <3>. QED BY <3>1, <3>2
  <2>2. IsFiniteSet(top .. s - 1) /\ DOMAIN Above(g, s) = top .. s - 1
    <3>1. top \in Int /\ s - 1 \in Int
      BY <1>0
    <3>2. IsFiniteSet(top .. s - 1)
      BY <3>1, FS_Interval
    <3>. QED BY <3>2
  <2>3. ASSUME NEW h, \A m \in top .. s - 1 : h[m] = g[m] PROVE Above(h, s) = Above(g, s)
    <3>1. ASSUME NEW m \in top .. s - 1 PROVE h[m] * count[m][s] = g[m] * count[m][s]
      <4>1. h[m] = g[m]
        BY <2>3
      <4>. QED BY <4>1, Zenon
    <3>. QED BY <3>1, Zenon
  <2>. HIDE DEF Above
  <2>4. SumFunction(Above(g, s)) \in Int
    <3>1. SumFunction(Above(g, s)) = SumFunctionOnSet(Above(g, s), top .. s - 1)
      BY <2>2 DEF SumFunction
    <3>. DEFINE f == Above(g, s)
                R == top .. s - 1
    <3>2. IsFiniteSet(R) /\ \A x \in R : f[x] \in Int
      BY <2>1, <2>2
    <3>. HIDE DEF f, R
    <3>3. SumFunctionOnSet(f, R) \in Int
      BY <3>2, SumStep
    <3>. QED BY <3>1, <3>3 DEF f, R
  <2>. QED BY <2>3, <2>4
<1>. HIDE DEF Value
<1>4. 0 \in K
  <2>1. [s \in S |-> 0] \in [S -> Int] /\ \A s \in S : ~(s < top + 0)
    BY <1>0
  <2>. QED BY <2>1
<1>5. ASSUME NEW k \in Nat, k \in K PROVE k + 1 \in K
  <2>. SUFFICES ASSUME top + (k + 1) <= N + 1
                PROVE  \E g \in [S -> Int] : \A s \in S : s < top + (k + 1) => g[s] = Value(g, s)
    OBVIOUS
  <2>1. PICK g \in [S -> Int] : \A s \in S : s < top + k => g[s] = Value(g, s)
    BY <1>0, <1>5
  <2>. DEFINE n == top + k
              h == [g EXCEPT ![n] = Value(g, n)]
  <2>2. n \in S
    BY <1>0
  <2>3. ASSUME NEW s \in S PROVE /\ \A m \in top .. s - 1 : g[m] \in Int
                                 /\ Value(g, s) \in Int
    <3>1. \A m \in top .. s - 1 : g[m] \in Int
      BY <1>0
    <3>. QED BY <1>3, <3>1
  <2>4. h \in [S -> Int]
    BY <2>2, <2>3
  <2>5. \A s \in S : h[s] = IF s = n THEN Value(g, n) ELSE g[s]
    OBVIOUS
  <2>. HIDE DEF h
  <2>6. ASSUME NEW s \in S, s < top + (k + 1) PROVE h[s] = Value(h, s)
    <3>1. \A m \in top .. s - 1 : h[m] = g[m]
      BY <1>0, <2>2, <2>5, <2>6
    <3>2. Value(h, s) = Value(g, s)
      BY <1>3, <2>3, <3>1
    <3>3. CASE s = n
      BY <2>5, <3>2, <3>3
    <3>4. CASE s # n
      BY <1>0, <2>1, <2>5, <2>6, <3>2, <3>4
    <3>. QED BY <3>3, <3>4
  <2>. HIDE DEF n
  <2>. QED BY <2>4, <2>6
<1>6. \A k \in Nat : 0 <= k => k \in K
  <2>. HIDE DEF K
  <2>. QED BY <1>4, <1>5, Upward
<1>7. \E g : g = Body(g)
  <2>1. N + 1 - top \in K
    <3>1. N + 1 - top \in Nat /\ 0 <= N + 1 - top
      BY <1>0
    <3>. HIDE DEF K
    <3>. QED BY <1>6, <3>1
  <2>2. PICK g \in [S -> Int] : \A s \in S : s < top + (N + 1 - top) => g[s] = Value(g, s)
    BY <1>0, <2>1
  <2>3. \A s \in S : g[s] = Body(g)[s]
    BY <1>0, <2>2
  <2>4. Body(g) = [s \in S |-> Body(g)[s]]
    OBVIOUS
  <2>. HIDE DEF Body, S
  <2>5. g = Body(g)
    BY <2>3, <2>4
  <2>. QED BY <2>5
<1>8. I = Body(I)
  <2>. HIDE DEF Body
  <2>. QED BY <1>7
<1>. HIDE DEF I, K
<1>9. \A s \in S : I[s] = Value(I, s)
  BY <1>8
<1>. DEFINE J == {k \in Nat : \A s \in S : s < top + k => I[s] \in Int}
<1>10. 0 \in J
  BY <1>0
<1>11. ASSUME NEW k \in Nat, k \in J PROVE k + 1 \in J
  <2>. SUFFICES ASSUME NEW s \in S, s < top + (k + 1) PROVE I[s] \in Int
    OBVIOUS
  <2>1. \A m \in top .. s - 1 : I[m] \in Int
    BY <1>0, <1>11
  <2>2. Value(I, s) \in Int
    BY <1>3, <2>1
  <2>. QED BY <1>9, <2>2
<1>12. \A k \in Nat : 0 <= k => k \in J
  <2>. HIDE DEF J
  <2>. QED BY <1>10, <1>11, Upward
<1>13. \A s \in S : I[s] \in Int
  <2>1. N + 1 \in J
    <3>1. N + 1 \in Nat /\ 0 <= N + 1
      BY <1>0
    <3>. HIDE DEF J
    <3>. QED BY <1>12, <3>1
  <2>. QED BY <1>0, <2>1
<1>. HIDE DEF J
<1>14. ASSUME NEW s \in S
       PROVE  I[s] = (IF s = top THEN 1 ELSE 0) + SumFunctionOnSet([m \in S |-> I[m] * count[m][s]], S)
  <2>. DEFINE f == [m \in S |-> I[m] * count[m][s]]
              R == top .. s - 1
              a == Above(I, s)
  <2>1. \A m \in S : f[m] \in Int /\ (m \notin R => f[m] = 0)
    <3>. SUFFICES ASSUME NEW m \in S PROVE f[m] \in Int /\ (m \notin R => f[m] = 0)
      OBVIOUS
    <3>1. I[m] \in Int /\ count[m][s] \in Int /\ f[m] = I[m] * count[m][s]
      BY <1>1, <1>13
    <3>2. m \notin R => count[m][s] = 0
      BY <1>0, <1>1
    <3>3. \A p, q \in Int : p * q \in Int /\ p * 0 = 0
      OBVIOUS
    <3>. HIDE DEF f, R
    <3>. QED BY <3>1, <3>2, <3>3
  <2>2. IsFiniteSet(S) /\ R \in SUBSET S /\ IsFiniteSet(R)
    BY <1>0, FS_Interval
  <2>3. (\A m \in R : a[m] = f[m]) /\ DOMAIN a = R
    BY <2>2
  <2>4. CASE s = top
    <3>1. \A m \in S \ {} : f[m] = 0
      BY <1>0, <2>1, <2>4
    <3>. HIDE DEF f
    <3>2. SumFunctionOnSet(f, S) = SumFunctionOnSet(f, {})
      <4>. HIDE DEF S
      <4>. QED BY <2>1, <2>2, <3>1, SumPart
    <3>3. SumFunctionOnSet(f, S) = 0
      BY <3>2, SumEmpty
    <3>4. I[s] = 1
      BY <1>9, <2>4 DEF Value
    <3>. QED BY <2>4, <3>3, <3>4 DEF f
  <2>5. CASE s # top
    <3>1. I[s] = SumFunction(a)
      BY <1>9, <2>5 DEF Value
    <3>. HIDE DEF f, a, R, S, Above
    <3>2. I[s] = SumFunctionOnSet(a, R)
      BY <2>3, <3>1 DEF SumFunction
    <3>3. SumFunctionOnSet(f, S) = SumFunctionOnSet(f, R)
      BY <2>1, <2>2, SumPart
    <3>4. SumFunctionOnSet(a, R) = SumFunctionOnSet(f, R)
      BY <2>1, <2>2, <2>3, SumSame
    <3>5. SumFunctionOnSet(f, S) \in Int
      BY <2>1, <2>2, SumStep
    <3>. QED BY <2>5, <3>2, <3>3, <3>4, <3>5 DEF f
  <2>. QED BY <2>4, <2>5
<1>15. \A s \in S : /\ I[s] \in Int
                    /\ I[s] = (IF s = top THEN 1 ELSE 0) + SumFunctionOnSet([m \in S |-> I[m] * count[m][s]], S)
  BY <1>13, <1>14
<1>. QED BY <1>2, <1>15

(* The total of a table that was read is the area of the flattened design.  *)
LEMMA TotalIsFlat ==
  ASSUME CountInv, Parsed, NEW top \in Mod
  PROVE  Total(top) = Flat(top)
<1>. DEFINE S == top .. N
            A == AreaOf
            C == count
            I == Instances(top)
            f == [m \in S |-> I[m] * A[m]]
            Q == [s \in S |-> [m \in S |-> I[m] * C[m][s]]]
<1>0. N \in Nat /\ top \in Nat /\ 1 <= top /\ top <= N /\ S \subseteq Mod /\ S \subseteq 0 .. N
  BY AreaAssumption DEF Mod
<1>1. PICK T : /\ \A m \in 0 .. N : T[m] \in Int /\ T[m] = table[m].area + Below(T, m)
               /\ \A t \in Mod : Total(t) = T[t]
  BY TotalIs
<1>2. \A m \in S : A[m] \in Int /\ T[m] \in Int
  BY <1>0, <1>1, AreaAssumption DEF Mod
<1>3. ASSUME NEW m \in S PROVE T[m] = A[m] + SumFunctionOnSet([s \in S |-> C[m][s] * T[s]], S)
  <2>1. Below(T, m) = SumFunctionOnSet([s \in S |-> C[m][s] * T[s]], S)
    BY <1>1, BelowIsCounted
  <2>2. table[m].area = AreaOf[m]
    <3>1. m \in Mod
      BY <1>0
    <3>2. table[m] = EntryOf(m)
      BY <3>1 DEF Parsed
    <3>. QED BY <3>2 DEF EntryOf
  <2>. QED BY <1>0, <1>1, <2>1, <2>2
<1>4. \A m, s \in S : C[m][s] \in Int
  BY <1>0 DEF CountInv, Mod
<1>5. \A s \in S : I[s] \in Int /\ I[s] = (IF s = top THEN 1 ELSE 0)
                                       + SumFunctionOnSet([m \in S |-> I[m] * C[m][s]], S)
  BY InstancesIs
<1>6. Flat(top) = SumFunctionOnSet(f, S)
  <2>1. Flat(top) = SumFunction(f) /\ DOMAIN f = S
    BY DEF Flat
  <2>. HIDE DEF f
  <2>. QED BY <2>1 DEF SumFunction
<1>7. IsFiniteSet(S) /\ top \in S
  BY <1>0, FS_Interval
<1>. DEFINE P == [m \in S |-> [s \in S |-> C[m][s] * T[s]]]
<1>8. \A m \in S : T[m] \in Int /\ T[m] = A[m] + SumFunctionOnSet(P[m], S)
  BY <1>2, <1>3
<1>9. \A s \in S : I[s] \in Int /\ I[s] = (IF s = top THEN 1 ELSE 0) + SumFunctionOnSet(Q[s], S)
  BY <1>5
<1>10. IsWorth(T, A, C, P, S) /\ IsReached(I, C, Q, S, top) /\ IsProduct(f, I, A, S)
  <2>1. \A m, s \in S : P[m][s] = C[m][s] * T[s] /\ Q[s][m] = I[m] * C[m][s]
    OBVIOUS
  <2>2. \A m \in S : f[m] = I[m] * A[m]
    OBVIOUS
  <2>. HIDE DEF S, A, C, I, P, Q, f
  <2>. QED BY <1>2, <1>4, <1>8, <1>9, <2>1, <2>2 DEF IsWorth, IsReached, IsProduct
<1>. HIDE DEF S, A, C, I, P, Q, f
<1>11. T[top] = SumFunctionOnSet(f, S)
  BY <1>7, <1>10, TopDown
<1>. QED BY <1>1, <1>6, <1>11

-----------------------------------------------------------------------------
(* What the log is made of, for the modules in the order of their sections: *)
(* the modules with a heading among the first k, and the sections.          *)
Kinds == {"heading", "other", "submodules", "sub", "blank", "area"}
Lines == [kind : Kinds, mod : Int, n : Int]
Orders == {o \in [1 .. N -> Mod] : \A i, j \in 1 .. N : i # j => o[i] # o[j]}
Heads(order, k) == {order[i] : i \in 1 .. k}
Sections(order) == [j \in 1 .. N |-> Section(order[j])]

(* The lines of a section from its j-th submodule on, and from the heading. *)
SubLines(m, j)    == [i \in 1 .. Len(SubsOf(m)) - j |-> Line("sub", SubsOf(m)[i + j], count[m][SubsOf(m)[i + j]])]
Ending(m, more)   == <<Line("blank", NoMod, 0)>> \o (<<Line("area", m, AreaOf[m])>> \o more)
Cells(m, j, more) == SubLines(m, j) \o Ending(m, more)
CellList(m, more) == IF SubsOf(m) = << >> THEN Cells(m, 0, more)
                     ELSE <<Line("submodules", NoMod, 0)>> \o Cells(m, 0, more)

(* What the reader knows in the middle of a section. *)
InSection(m, more) ==
  \/ log = <<Line("other", NoMod, 0)>> \o CellList(m, more) /\ table[m] = Empty
  \/ log = <<Line("submodules", NoMod, 0)>> \o Cells(m, 0, more) /\ table[m] = Empty
  \/ \E j \in 0 .. Len(SubsOf(m)) :
       /\ log = Cells(m, j, more) /\ (j < Len(SubsOf(m)) => inSubs)
       /\ table[m] = [area |-> 0, subs |-> Entries(m, j)]
  \/ /\ log = <<Line("area", m, AreaOf[m])>> \o more
     /\ table[m] = [area |-> 0, subs |-> Entries(m, Len(SubsOf(m)))]

(* The first k sections are in the table. *)
Done(order, k) == \A i \in 1 .. k : table[order[i]] = EntryOf(order[i])

(* r is what is left of the log before every section.  The reader stands    *)
(* before one, within one, or behind the heading of the hierarchy.          *)
Between(order, r) == \E k \in 0 .. N : log = r[k + 1] /\ DOMAIN table = Heads(order, k) /\ Done(order, k)
Within(order, r)  == \E k \in 1 .. N : /\ DOMAIN table = Heads(order, k) /\ Done(order, k - 1)
                                       /\ current = order[k] /\ InSection(order[k], r[k + 1])
After(order)      == /\ log \in {<<Line("sub", 1, 1), Line("other", NoMod, 0)>>, <<Line("other", NoMod, 0)>>, << >>}
                     /\ ~inSubs /\ DOMAIN table = Heads(order, N) \cup {NoMod} /\ Done(order, N)
                     /\ table[NoMod] = Empty

Unrolled(order, r) == r[N + 1] = Hierarchy /\ IsLeft(r, Sections(order), Lines, N)
Reading(order, r)  == Between(order, r) \/ Within(order, r) \/ After(order)

(* What is left of the log says what the table holds already, whatever the  *)
(* order of the sections.                                                   *)
AreaInv == CountInv /\ \E order \in Orders : \E r : Unrolled(order, r) /\ Reading(order, r)

-----------------------------------------------------------------------------
LEMMA HierarchyIs == Hierarchy \in Seq(Lines)
<1>1. Line("heading", NoMod, 0) \in Lines /\ Line("sub", 1, 1) \in Lines /\ Line("other", NoMod, 0) \in Lines
  BY DEF Line, Lines, Kinds, NoMod
<1>. QED BY <1>1 DEF Hierarchy

LEMMA SubLinesAre ==
  ASSUME CountInv, NEW m \in Mod, NEW j \in 0 .. Len(SubsOf(m))
  PROVE  /\ SubLines(m, j) \in Seq(Lines) /\ Len(SubLines(m, j)) = Len(SubsOf(m)) - j
         /\ j < Len(SubsOf(m)) => /\ SubLines(m, j) # << >> /\ Tail(SubLines(m, j)) = SubLines(m, j + 1)
                                  /\ Head(SubLines(m, j)) = Line("sub", SubsOf(m)[j + 1], count[m][SubsOf(m)[j + 1]])
<1>. DEFINE l == Len(SubsOf(m))
            n == l - j
            s == SubLines(m, j)
            x(i) == Line("sub", SubsOf(m)[i], count[m][SubsOf(m)[i]])
<1>1. l \in Nat /\ n \in Nat /\ j \in Nat /\ \A i \in 1 .. l : SubsOf(m)[i] \in m + 1 .. N + 1
  <2>1. l \in Nat
    BY SubsOfIs
  <2>2. Subs(m) \subseteq m + 1 .. N + 1 /\ \A i \in 1 .. l : SubsOf(m)[i] \in Subs(m)
    BY SubsOfIs
  <2>. QED BY <2>1, <2>2
<1>2. ASSUME NEW i \in 1 .. l PROVE x(i) \in Lines
  <2>1. SubsOf(m)[i] \in 1 .. N + 1 /\ SubsOf(m)[i] \in Int
    BY <1>1, AreaAssumption DEF Mod
  <2>2. count[m][SubsOf(m)[i]] \in Int
    BY <2>1 DEF CountInv
  <2>. QED BY <2>1, <2>2 DEF Line, Lines, Kinds
<1>3. s = [i \in 1 .. n |-> x(i + j)]
  BY DEF SubLines
<1>. HIDE DEF x, s
<1>4. \A i \in 1 .. n : x(i + j) \in Lines
  BY <1>1, <1>2
<1>5. s \in Seq(Lines) /\ Len(s) = n
  <2>. HIDE DEF n, l
  <2>1. s \in [1 .. n -> Lines]
    BY <1>3, <1>4
  <2>2. s \in Seq(Lines)
    BY <1>1, <2>1
  <2>. QED BY <1>1, <2>1, <2>2
<1>6. ASSUME j < l PROVE s # << >> /\ Tail(s) = SubLines(m, j + 1) /\ Head(s) = x(j + 1)
  <2>1. n # 0 /\ s # << >>
    BY <1>1, <1>5, <1>6
  <2>2. Tail(s) = [k \in 1 .. Len(s) - 1 |-> s[k + 1]]
    BY <1>5, <2>1, TailIs
  <2>3. \A k \in 1 .. n - 1 : s[k + 1] = x((k + 1) + j)
    BY <1>1, <1>3
  <2>4. SubLines(m, j + 1) = [i \in 1 .. l - (j + 1) |-> x(i + (j + 1))]
    BY DEF SubLines, x
  <2>5. l - (j + 1) = n - 1 /\ \A k \in 1 .. n - 1 : (k + 1) + j = k + (j + 1)
    BY <1>1
  <2>6. Tail(s) = SubLines(m, j + 1)
    BY <1>5, <2>2, <2>3, <2>4, <2>5
  <2>7. Head(s) = s[1] /\ s[1] = x(1 + j) /\ 1 + j = j + 1
    BY <1>1, <1>3, <1>6, <2>1
  <2>. QED BY <2>1, <2>6, <2>7
<1>. QED BY <1>5, <1>6 DEF s, x

LEMMA EndingIs ==
  ASSUME NEW m \in Mod, NEW more \in Seq(Lines)
  PROVE  /\ <<Line("area", m, AreaOf[m])>> \o more \in Seq(Lines)
         /\ Ending(m, more) \in Seq(Lines)
<1>1. Line("area", m, AreaOf[m]) \in Lines /\ Line("blank", NoMod, 0) \in Lines
  BY AreaAssumption DEF Line, Lines, Kinds, Mod, NoMod
<1>2. <<Line("area", m, AreaOf[m])>> \o more \in Seq(Lines)
  BY <1>1, ConsIs
<1>. QED BY <1>1, <1>2, ConsIs DEF Ending

LEMMA CellsAre ==
  ASSUME CountInv, NEW m \in Mod, NEW more \in Seq(Lines), NEW j \in 0 .. Len(SubsOf(m))
  PROVE  /\ Cells(m, j, more) \in Seq(Lines)
         /\ j = Len(SubsOf(m)) => Cells(m, j, more) = Ending(m, more)
         /\ j < Len(SubsOf(m)) =>
              Cells(m, j, more) = <<Line("sub", SubsOf(m)[j + 1], count[m][SubsOf(m)[j + 1]])>> \o Cells(m, j + 1, more)
<1>. DEFINE s == SubLines(m, j)
            t == SubLines(m, j + 1)
            e == Ending(m, more)
            l == Len(SubsOf(m))
            x == Line("sub", SubsOf(m)[j + 1], count[m][SubsOf(m)[j + 1]])
<1>0. l \in Nat
  BY SubsOfIs
<1>1. s \in Seq(Lines) /\ Len(s) = l - j /\ e \in Seq(Lines)
      /\ (j < l => s # << >> /\ Tail(s) = t /\ Head(s) = x)
  BY SubLinesAre, EndingIs
<1>2. j < l => t \in Seq(Lines) /\ x \in Lines
  <2>. HIDE DEF s, t, e, x
  <2>. QED BY <1>1, HeadTailProperties
<1>3. Cells(m, j, more) = s \o e /\ Cells(m, j + 1, more) = t \o e
  BY DEF Cells
<1>. HIDE DEF s, t, e, x
<1>4. s \o e \in Seq(Lines)
  BY <1>1, ConcatProperties
<1>5. CASE j = l
  <2>1. s = << >>
    BY <1>0, <1>1, <1>5
  <2>2. << >> \o e = e
    BY <1>1, ConcatEmptySeq
  <2>. QED BY <1>0, <1>3, <1>4, <1>5, <2>1, <2>2 DEF e
<1>6. CASE j < l
  <2>. DEFINE a == << x >>
  <2>1. a \in Seq(Lines) /\ t \in Seq(Lines)
    BY <1>2, <1>6
  <2>. HIDE DEF a
  <2>2. a \o t = s
    BY <1>1, <1>6, ConcatFirst DEF a
  <2>3. (a \o t) \o e = a \o (t \o e)
    <3>1. Regroups(a, t, e)
      BY <1>1, <2>1, ConcatRegroups
    <3>. QED BY <3>1 DEF Regroups
  <2>4. Cells(m, j, more) \in Seq(Lines) /\ Cells(m, j, more) = a \o Cells(m, j + 1, more)
    BY <1>3, <1>4, <2>2, <2>3
  <2>. QED BY <1>0, <1>6, <2>4 DEF a, x
<1>. QED BY <1>0, <1>5, <1>6

LEMMA CellListIs ==
  ASSUME CountInv, NEW m \in Mod, NEW more \in Seq(Lines)
  PROVE  CellList(m, more) \in Seq(Lines)
<1>1. Len(SubsOf(m)) \in Nat
  BY SubsOfIs
<1>2. 0 \in 0 .. Len(SubsOf(m))
  BY <1>1
<1>. DEFINE c == Cells(m, 0, more)
            x == Line("submodules", NoMod, 0)
<1>3. c \in Seq(Lines) /\ x \in Lines
  <2>1. x \in Lines
    BY DEF Line, Lines, Kinds, NoMod
  <2>. QED BY <1>2, <2>1, CellsAre
<1>4. << x >> \o c \in Seq(Lines)
  <2>. HIDE DEF c, x
  <2>. QED BY <1>3, ConsIs
<1>. QED BY <1>3, <1>4 DEF CellList

(* A section, line by line. *)
LEMMA SectionIs ==
  ASSUME CountInv, NEW m \in Mod
  PROVE  /\ Section(m) \in Seq(Lines)
         /\ \A more \in Seq(Lines) : Section(m) \o more
              = <<Line("heading", m, 0)>> \o (<<Line("other", NoMod, 0)>> \o CellList(m, more))
<1>. DEFINE h == Line("heading", m, 0)
            o == Line("other", NoMod, 0)
            S == IF SubsOf(m) = << >> THEN << >> ELSE <<Line("submodules", NoMod, 0)>>
            C == SubLines(m, 0)
            b == Line("blank", NoMod, 0)
            a == Line("area", m, AreaOf[m])
<1>0. Len(SubsOf(m)) \in Nat /\ DOMAIN SubsOf(m) = 1 .. Len(SubsOf(m))
  BY SubsOfIs
<1>1. h \in Lines /\ o \in Lines /\ b \in Lines /\ a \in Lines /\ Line("submodules", NoMod, 0) \in Lines
  BY AreaAssumption DEF Line, Lines, Kinds, Mod, NoMod
<1>2. S \in Seq(Lines) /\ C \in Seq(Lines)
  <2>1. S \in Seq(Lines)
    BY <1>1
  <2>2. 0 \in 0 .. Len(SubsOf(m))
    BY <1>0
  <2>. QED BY <2>1, <2>2, SubLinesAre
<1>3. Section(m) = ((<< h, o >> \o S) \o C) \o << b, a >>
  <2>1. C = [j \in DOMAIN SubsOf(m) |-> Line("sub", SubsOf(m)[j], count[m][SubsOf(m)[j]])]
    BY <1>0 DEF SubLines
  <2>. QED BY <2>1 DEF Section, SubsOf
<1>4. \A more : CellList(m, more) = IF SubsOf(m) = << >> THEN C \o (<< b >> \o (<< a >> \o more))
                                    ELSE <<Line("submodules", NoMod, 0)>> \o (C \o (<< b >> \o (<< a >> \o more)))
  BY DEF CellList, Cells, Ending
<1>5. \A more : SubsOf(m) # << >> => CellList(m, more) = S \o (C \o (<< b >> \o (<< a >> \o more)))
  BY <1>4
<1>6. SubsOf(m) = << >> => S = << >>
  OBVIOUS
<1>. DEFINE H == << h >>
            O == << o >>
            B == << b >>
            A == << a >>
<1>7. H \in Seq(Lines) /\ O \in Seq(Lines) /\ B \in Seq(Lines) /\ A \in Seq(Lines)
  BY <1>1
<1>8. << h, o >> = H \o O /\ << b, a >> = B \o A
  BY ConcatPair
<1>. HIDE DEF S, C, h, o, b, a, H, O, A, B
<1>9. Section(m) = (((H \o O) \o S) \o C) \o (B \o A)
  BY <1>3, <1>8
<1>10. ASSUME NEW more \in Seq(Lines)
       PROVE  Section(m) \o more = H \o (O \o CellList(m, more)) /\ Section(m) \in Seq(Lines)
  <2>. DEFINE e == B \o (A \o more)
  <2>1. C \o e \in Seq(Lines)
    BY <1>2, <1>7, ConcatProperties
  <2>. DEFINE six == (((H \o O) \o S) \o C) \o (B \o A)
  <2>2. six \in Seq(Lines) /\ six \o more = H \o (O \o (S \o (C \o e)))
    <3>1. RegroupsSix(Lines, H, O, S, C, B, A, more)
      BY <1>2, <1>7, ConcatSix
    <3>. QED BY <3>1 DEF RegroupsSix
  <2>. HIDE DEF e, six
  <2>3. S \o (C \o e) = CellList(m, more)
    <3>1. CASE SubsOf(m) = << >>
      <4>1. << >> \o (C \o e) = C \o e
        BY <2>1, ConcatEmptySeq
      <4>. QED BY <1>4, <1>6, <3>1, <4>1 DEF e, A, B
    <3>2. CASE SubsOf(m) # << >>
      BY <1>5, <3>2 DEF e, A, B
    <3>. QED BY <3>1, <3>2
  <2>. QED BY <1>9, <2>2, <2>3 DEF six
<1>11. << >> \in Seq(Lines)
  BY EmptySeq
<1>12. Section(m) \in Seq(Lines)
  BY <1>10, <1>11
<1>. QED BY <1>10, <1>12 DEF h, o, H, O

-----------------------------------------------------------------------------
(* The log of a design, unrolled section by section. *)
LEMMA LogUnrolled ==
  ASSUME CountInv, NEW order \in Orders
  PROVE  \E r : Unrolled(order, r) /\ LogOf(order) = r[1]
<1>. DEFINE ss == Sections(order)
            e == Hierarchy
<1>1. N \in Nat \ {0} /\ e \in Seq(Lines)
  BY AreaAssumption, HierarchyIs
<1>2. ASSUME NEW i \in 1 .. N PROVE ss[i] \in Seq(Lines)
  <2>1. order[i] \in Mod
    BY DEF Orders
  <2>2. Section(order[i]) \in Seq(Lines)
    BY <2>1, SectionIs
  <2>. QED BY <2>2 DEF Sections
<1>3. ss \in [1 .. N -> Seq(Lines)]
  <2>1. ss = [j \in 1 .. N |-> ss[j]]
    BY DEF Sections
  <2>. HIDE DEF ss
  <2>. QED BY <1>2, <2>1
<1>4. LogOf(order) = FlattenSeq(ss) \o e
  BY DEF LogOf, Sections
<1>. HIDE DEF ss, e
<1>5. PICK r : r[N + 1] = e /\ IsLeft(r, ss, Lines, N)
  BY <1>1, <1>2, LeftExists
<1>6. FlattenSeq(ss) \o r[N + 1] = r[1]
  BY <1>1, <1>3, <1>5, FlattenIs
<1>. QED BY <1>4, <1>5, <1>6 DEF Unrolled, ss, e

(* Every section with what follows it, line by line. *)
Follows(order, r, k) == /\ r[k + 1] \in Seq(Lines)
                        /\ r[k] = <<Line("heading", order[k], 0)>>
                                    \o (<<Line("other", NoMod, 0)>> \o CellList(order[k], r[k + 1]))

LEMMA UnrolledIs ==
  ASSUME CountInv, NEW order \in Orders, NEW r, Unrolled(order, r), NEW k \in 1 .. N
  PROVE  order[k] \in Mod /\ Follows(order, r, k)
<1>1. order[k] \in Mod
  BY DEF Orders
<1>2. r[k + 1] \in Seq(Lines) /\ r[k] = Section(order[k]) \o r[k + 1]
  BY DEF Unrolled, IsLeft, Sections
<1>. QED BY <1>1, <1>2, SectionIs DEF Follows

-----------------------------------------------------------------------------
(* What the design says stays. *)
LEMMA DesignStays ==
  ASSUME count' = count
  PROVE  /\ \A m : SubsOf(m)' = SubsOf(m) /\ Section(m)' = Section(m) /\ EntryOf(m)' = EntryOf(m)
         /\ \A m, j : Entries(m, j)' = Entries(m, j)
         /\ \A m, more : CellList(m, more)' = CellList(m, more)
         /\ \A m, j, more : Cells(m, j, more)' = Cells(m, j, more)
         /\ CountInv' = CountInv
         /\ \A order, r : Unrolled(order, r)' = Unrolled(order, r)
<1>1. \A m : SubsOf(m)' = SubsOf(m)
  BY DEF SubsOf, Subs
<1>2. \A m, j : Entries(m, j)' = Entries(m, j)
  BY <1>1 DEF Entries
<1>3. \A m : EntryOf(m)' = EntryOf(m)
  BY <1>1, <1>2 DEF EntryOf
<1>4. \A m, j, more : Cells(m, j, more)' = Cells(m, j, more)
  BY <1>1 DEF Cells, SubLines, Ending
<1>5. \A m, more : CellList(m, more)' = CellList(m, more)
  BY <1>1, <1>4 DEF CellList
<1>6. \A m : Section(m)' = Section(m)
  BY DEF Section, Subs
<1>7. CountInv' = CountInv
  BY DEF CountInv
<1>8. \A order, r : Unrolled(order, r)' = Unrolled(order, r)
  BY <1>6 DEF Unrolled, Sections
<1>. QED BY <1>1, <1>2, <1>3, <1>4, <1>5, <1>6, <1>7, <1>8

(* The line that is read. *)
Takes(l) == Heading(l) \/ AreaLine(l) \/ SubsLine(l) \/ SubLine(l) \/ OtherLine(l)

LEMMA FirstLine ==
  ASSUME ReadLine, NEW x \in Lines, NEW s \in Seq(Lines), log = << x >> \o s
  PROVE  log' = s /\ count' = count /\ Takes(x)
<1>1. Head(log) = x /\ Tail(log) = s
  BY ConsIs
<1>. QED BY <1>1 DEF ReadLine, Takes

-----------------------------------------------------------------------------
(* A line within the section of m concerns the entry of m only. *)
KeepsOthers(m) == DOMAIN table' = DOMAIN table /\ \A x \in DOMAIN table \ {m} : table'[x] = table[x]
ReadsOn(m, more) == \/ InSection(m, more)' /\ current' = m
                    \/ log' = more /\ table'[m] = EntryOf(m)

LEMMA FirstDisjunct ==
  ASSUME CountInv, NEW m \in Mod, NEW more \in Seq(Lines), current = m, ReadLine, table[m] = Empty,
         log = <<Line("other", NoMod, 0)>> \o CellList(m, more)
  PROVE  KeepsOthers(m) /\ ReadsOn(m, more)
<1>. DEFINE x == Line("other", NoMod, 0)
<1>1. x \in Lines /\ CellList(m, more) \in Seq(Lines)
  <2>1. x \in Lines
    BY DEF Line, Lines, Kinds, NoMod
  <2>. QED BY <2>1, CellListIs
<1>2. log' = CellList(m, more) /\ count' = count /\ Takes(x)
  <2>. HIDE DEF x
  <2>1. log = << x >> \o CellList(m, more)
    BY DEF x
  <2>. QED BY <1>1, <2>1, FirstLine
<1>3. table' = table /\ current' = current
  BY <1>2 DEF Takes, Heading, AreaLine, SubsLine, SubLine, OtherLine, Line
<1>4. Len(SubsOf(m)) \in Nat
  BY SubsOfIs
<1>5. CASE SubsOf(m) = << >>
  <2>1. log' = Cells(m, 0, more)
    BY <1>2, <1>5 DEF CellList
  <2>2. Len(SubsOf(m)) = 0 /\ Entries(m, 0) = << >>
    BY <1>5 DEF Entries
  <2>3. table'[m] = [area |-> 0, subs |-> Entries(m, 0)]
    BY <1>3, <2>2 DEF Empty
  <2>4. (Cells(m, 0, more))' = Cells(m, 0, more) /\ Entries(m, 0)' = Entries(m, 0) /\ SubsOf(m)' = SubsOf(m)
    BY <1>2, DesignStays
  <2>5. InSection(m, more)'
    BY <2>1, <2>2, <2>3, <2>4 DEF InSection
  <2>. QED BY <1>3, <2>5 DEF KeepsOthers, ReadsOn
<1>6. CASE SubsOf(m) # << >>
  <2>1. log' = <<Line("submodules", NoMod, 0)>> \o Cells(m, 0, more)
    BY <1>2, <1>6 DEF CellList
  <2>2. (Cells(m, 0, more))' = Cells(m, 0, more)
    BY <1>2, DesignStays
  <2>3. InSection(m, more)'
    BY <1>3, <2>1, <2>2 DEF InSection, Empty
  <2>. QED BY <1>3, <2>3 DEF KeepsOthers, ReadsOn
<1>. QED BY <1>5, <1>6

LEMMA SecondDisjunct ==
  ASSUME CountInv, NEW m \in Mod, NEW more \in Seq(Lines), current = m, ReadLine, table[m] = Empty,
         log = <<Line("submodules", NoMod, 0)>> \o Cells(m, 0, more)
  PROVE  KeepsOthers(m) /\ ReadsOn(m, more)
<1>. DEFINE x == Line("submodules", NoMod, 0)
<1>0. Len(SubsOf(m)) \in Nat /\ 0 \in 0 .. Len(SubsOf(m))
  BY SubsOfIs
<1>1. x \in Lines /\ Cells(m, 0, more) \in Seq(Lines)
  <2>1. x \in Lines
    BY DEF Line, Lines, Kinds, NoMod
  <2>. QED BY <1>0, <2>1, CellsAre
<1>2. log' = Cells(m, 0, more) /\ count' = count /\ Takes(x)
  <2>. HIDE DEF x
  <2>1. log = << x >> \o Cells(m, 0, more)
    BY DEF x
  <2>. QED BY <1>1, <2>1, FirstLine
<1>3. table' = table /\ current' = current /\ inSubs' = TRUE
  BY <1>2 DEF Takes, Heading, AreaLine, SubsLine, SubLine, OtherLine, Line
<1>4. (Cells(m, 0, more))' = Cells(m, 0, more) /\ Entries(m, 0)' = Entries(m, 0) /\ SubsOf(m)' = SubsOf(m)
  BY <1>2, DesignStays
<1>5. Entries(m, 0) = << >>
  BY DEF Entries
<1>6. InSection(m, more)'
  BY <1>0, <1>2, <1>3, <1>4, <1>5 DEF InSection, Empty
<1>. QED BY <1>3, <1>6 DEF KeepsOthers, ReadsOn

LEMMA SubDisjunct ==
  ASSUME CountInv, NEW m \in Mod, NEW more \in Seq(Lines), m \in DOMAIN table, current = m, ReadLine,
         NEW j \in 0 .. Len(SubsOf(m)), log = Cells(m, j, more), j < Len(SubsOf(m)) => inSubs,
         table[m] = [area |-> 0, subs |-> Entries(m, j)]
  PROVE  KeepsOthers(m) /\ ReadsOn(m, more)
<1>0. Len(SubsOf(m)) \in Nat /\ j \in Nat /\ \A i \in 1 .. Len(SubsOf(m)) : SubsOf(m)[i] \in m + 1 .. N + 1
  <2>1. Subs(m) \subseteq m + 1 .. N + 1 /\ \A i \in 1 .. Len(SubsOf(m)) : SubsOf(m)[i] \in Subs(m)
    BY SubsOfIs
  <2>2. Len(SubsOf(m)) \in Nat
    BY SubsOfIs
  <2>. QED BY <2>1, <2>2
<1>1. CASE j < Len(SubsOf(m))
  <2>. DEFINE b == SubsOf(m)[j + 1]
              x == Line("sub", b, count[m][b])
  <2>1. j + 1 \in 0 .. Len(SubsOf(m)) /\ j + 1 \in 1 .. Len(SubsOf(m))
    BY <1>0, <1>1
  <2>2. b \in m + 1 .. N + 1 /\ b \in Int /\ count[m][b] \in Int
    <3>1. b \in m + 1 .. N + 1
      BY <1>0, <2>1
    <3>2. b \in 1 .. N + 1
      BY <3>1, AreaAssumption DEF Mod
    <3>. QED BY <3>1, <3>2 DEF CountInv
  <2>3. x \in Lines
    BY <2>2 DEF Line, Lines, Kinds
  <2>4. Cells(m, j + 1, more) \in Seq(Lines)
    BY <2>1, CellsAre
  <2>5. log = << x >> \o Cells(m, j + 1, more)
    BY <1>1, CellsAre
  <2>6. log' = Cells(m, j + 1, more) /\ count' = count /\ Takes(x)
    <3>. HIDE DEF x
    <3>. QED BY <2>3, <2>4, <2>5, FirstLine
  <2>7. inSubs /\ x.kind = "sub" /\ x.mod = b /\ x.n = count[m][b]
    BY <1>1 DEF Line
  <2>8. SubLine(x)
    BY <2>6, <2>7 DEF Takes, Heading, AreaLine, SubsLine, OtherLine
  <2>9. Append(Entries(m, j), <<count[m][b], b>>) = Entries(m, j + 1)
    <3>. DEFINE S == Int \X Int
                f(i) == <<count[m][SubsOf(m)[i]], SubsOf(m)[i]>>
                y == << count[m][b], b >>
    <3>1. ASSUME NEW i \in 1 .. j PROVE f(i) \in S
      <4>1. SubsOf(m)[i] \in m + 1 .. N + 1
        <5>1. i \in 1 .. Len(SubsOf(m))
          BY <1>0, <1>1
        <5>. QED BY <1>0, <5>1
      <4>2. SubsOf(m)[i] \in 1 .. N + 1
        BY <4>1, AreaAssumption DEF Mod
      <4>. QED BY <4>2 DEF CountInv
    <3>2. y \in S /\ y = f(j + 1)
      BY <2>2
    <3>3. Entries(m, j) = [i \in 1 .. j |-> f(i)] /\ Entries(m, j + 1) = [i \in 1 .. j + 1 |-> f(i)]
      BY DEF Entries
    <3>. HIDE DEF f, y, S
    <3>4. Entries(m, j) \in [1 .. j -> S]
      BY <3>1, <3>3
    <3>5. Entries(m, j) \in Seq(S) /\ Len(Entries(m, j)) = j
      BY <1>0, <3>4
    <3>6. Append(Entries(m, j), y) = [k \in 1 .. j + 1 |-> IF k = j + 1 THEN y ELSE Entries(m, j)[k]]
      BY <3>2, <3>5, AppendIs
    <3>7. \A k \in 1 .. j + 1 : (IF k = j + 1 THEN y ELSE Entries(m, j)[k]) = f(k)
      BY <1>0, <3>2, <3>3
    <3>. QED BY <3>3, <3>6, <3>7 DEF y
  <2>10. table' = [table EXCEPT ![m].subs = Append(@, <<count[m][b], b>>)] /\ current' = current /\ inSubs' = inSubs
    BY <2>7, <2>8 DEF SubLine
  <2>. HIDE DEF b, x
  <2>11. KeepsOthers(m)
    BY <2>10 DEF KeepsOthers
  <2>12. table'[m] = [area |-> 0, subs |-> Entries(m, j + 1)]
    <3>1. table'[m] = [table[m] EXCEPT !.subs = Append(table[m].subs, <<count[m][b], b>>)]
      BY <2>10
    <3>2. table[m].subs = Entries(m, j)
      OBVIOUS
    <3>3. Append(table[m].subs, <<count[m][b], b>>) = Entries(m, j + 1)
      BY <2>9, <3>2
    <3>4. [table[m] EXCEPT !.subs = Entries(m, j + 1)] = [area |-> 0, subs |-> Entries(m, j + 1)]
      OBVIOUS
    <3>. QED BY <3>1, <3>3, <3>4
  <2>13. (Cells(m, j + 1, more))' = Cells(m, j + 1, more) /\ Entries(m, j + 1)' = Entries(m, j + 1) /\ SubsOf(m)' = SubsOf(m)
    BY <2>6, DesignStays
  <2>14. InSection(m, more)'
    <3>1. (j + 1 < Len(SubsOf(m))) => inSubs'
      BY <2>7, <2>10
    <3>. QED BY <2>1, <2>6, <2>12, <2>13, <3>1 DEF InSection
  <2>. QED BY <2>10, <2>11, <2>14 DEF ReadsOn
<1>2. CASE j = Len(SubsOf(m))
  <2>. DEFINE x == Line("blank", NoMod, 0)
              s == <<Line("area", m, AreaOf[m])>> \o more
  <2>1. x \in Lines
    BY DEF Line, Lines, Kinds, NoMod
  <2>2. s \in Seq(Lines)
    BY EndingIs
  <2>3. log = << x >> \o s
    BY <1>2, CellsAre DEF Ending
  <2>4. log' = s /\ count' = count /\ Takes(x)
    <3>. HIDE DEF x, s
    <3>. QED BY <2>1, <2>2, <2>3, FirstLine
  <2>5. table' = table /\ current' = current
    BY <2>4 DEF Takes, Heading, AreaLine, SubsLine, SubLine, OtherLine, Line
  <2>6. Entries(m, j)' = Entries(m, j) /\ SubsOf(m)' = SubsOf(m)
    BY <2>4, DesignStays
  <2>7. (Entries(m, Len(SubsOf(m))))' = Entries(m, j)
    BY <1>2, <2>4, DesignStays
  <2>8. InSection(m, more)'
    BY <2>4, <2>5, <2>7 DEF InSection
  <2>. QED BY <2>5, <2>8 DEF KeepsOthers, ReadsOn
<1>. QED BY <1>0, <1>1, <1>2

LEMMA LastDisjunct ==
  ASSUME CountInv, NEW m \in Mod, NEW more \in Seq(Lines), m \in DOMAIN table, current = m, ReadLine,
         log = <<Line("area", m, AreaOf[m])>> \o more,
         table[m] = [area |-> 0, subs |-> Entries(m, Len(SubsOf(m)))]
  PROVE  KeepsOthers(m) /\ ReadsOn(m, more)
<1>. DEFINE x == Line("area", m, AreaOf[m])
<1>1. x \in Lines
  BY AreaAssumption DEF Line, Lines, Kinds, Mod
<1>2. log' = more /\ count' = count /\ Takes(x)
  <2>. HIDE DEF x
  <2>1. log = << x >> \o more
    BY DEF x
  <2>. QED BY <1>1, <2>1, FirstLine
<1>3. x.kind = "area" /\ x.mod = m /\ x.n = AreaOf[m]
  BY DEF Line
<1>4. AreaLine(x)
  BY <1>2, <1>3 DEF Takes, Heading, SubsLine, SubLine, OtherLine
<1>5. table' = [table EXCEPT ![m].area = AreaOf[m]]
  BY <1>3, <1>4 DEF AreaLine
<1>6. KeepsOthers(m)
  BY <1>5 DEF KeepsOthers
<1>7. table'[m] = EntryOf(m)
  BY <1>5 DEF EntryOf
<1>. QED BY <1>2, <1>6, <1>7 DEF ReadsOn

LEMMA SectionStep ==
  ASSUME CountInv, NEW m \in Mod, NEW more \in Seq(Lines), m \in DOMAIN table, current = m,
         InSection(m, more), ReadLine
  PROVE  KeepsOthers(m) /\ ReadsOn(m, more)
BY FirstDisjunct, SecondDisjunct, SubDisjunct, LastDisjunct DEF InSection

-----------------------------------------------------------------------------
(* The reader at a heading. *)
LEMMA BetweenStep ==
  ASSUME CountInv, NEW order \in Orders, NEW r, Unrolled(order, r), Between(order, r), ReadLine
  PROVE  Reading(order, r)'
<1>1. PICK k \in 0 .. N : log = r[k + 1] /\ DOMAIN table = Heads(order, k) /\ Done(order, k)
  BY DEF Between
<1>2. N \in Nat /\ k \in Nat /\ order \in [1 .. N -> Mod] /\ \A i, j \in 1 .. N : i # j => order[i] # order[j]
  BY AreaAssumption DEF Orders
<1>3. CASE k < N
  <2>. DEFINE h == k + 1
              m == order[h]
              more == r[h + 1]
              x == Line("heading", m, 0)
              o == Line("other", NoMod, 0)
              s == << o >> \o CellList(m, more)
  <2>1. h \in 1 .. N /\ h \in Nat /\ h - 1 = k
    BY <1>2, <1>3
  <2>2. m \in Mod /\ more \in Seq(Lines) /\ log = << x >> \o s
    <3>1. m \in Mod /\ Follows(order, r, h)
      BY <2>1, UnrolledIs
    <3>. QED BY <1>1, <3>1 DEF Follows
  <2>3. x \in Lines /\ o \in Lines
    BY <2>2, AreaAssumption DEF Line, Lines, Kinds, NoMod, Mod
  <2>4. s \in Seq(Lines)
    <3>1. CellList(m, more) \in Seq(Lines)
      BY <2>2, CellListIs
    <3>. HIDE DEF o
    <3>. QED BY <2>3, <3>1, ConsIs
  <2>5. log' = s /\ count' = count /\ Takes(x)
    <3>. HIDE DEF x, s
    <3>. QED BY <2>2, <2>3, <2>4, FirstLine
  <2>6. x.kind = "heading" /\ x.mod = m
    BY DEF Line
  <2>7. Heading(x)
    BY <2>5, <2>6 DEF Takes, AreaLine, SubsLine, SubLine, OtherLine
  <2>8. current' = m /\ table' = [y \in DOMAIN table \cup {m} |-> IF y = m THEN Empty ELSE table[y]]
    BY <2>6, <2>7 DEF Heading
  <2>. HIDE DEF m, x, s, more
  <2>9. (DOMAIN table)' = Heads(order, h)
    <3>1. Heads(order, h) = Heads(order, k) \cup {m}
      BY <1>2, <2>1 DEF Heads, m
    <3>. QED BY <1>1, <2>8, <3>1
  <2>10. Done(order, k)'
    <3>1. ASSUME NEW i \in 1 .. k PROVE (table[order[i]] = EntryOf(order[i]))'
      <4>1. order[i] \in Heads(order, k) /\ order[i] # m
        BY <1>2, <2>1 DEF Heads, m
      <4>2. table'[order[i]] = table[order[i]]
        BY <1>1, <2>8, <4>1
      <4>3. EntryOf(order[i])' = EntryOf(order[i])
        BY <2>5, DesignStays
      <4>. QED BY <1>1, <4>2, <4>3 DEF Done
    <3>. QED BY <3>1 DEF Done
  <2>11. InSection(m, more)'
    <3>1. CellList(m, more)' = CellList(m, more)
      BY <2>5, DesignStays
    <3>2. table'[m] = Empty
      BY <2>8
    <3>. QED BY <2>5, <3>1, <3>2 DEF InSection, Empty, s
  <2>12. Within(order, r)'
    <3>. HIDE DEF h
    <3>. QED BY <2>1, <2>8, <2>9, <2>10, <2>11 DEF Within, m, more
  <2>. QED BY <2>12 DEF Reading
<1>4. CASE k = N
  <2>. DEFINE x == Line("heading", NoMod, 0)
              s == <<Line("sub", 1, 1), Line("other", NoMod, 0)>>
  <2>1. log = Hierarchy
    BY <1>1, <1>4 DEF Unrolled
  <2>2. Head(log) = x /\ Tail(log) = s
    BY <2>1 DEF Hierarchy
  <2>3. log' = s /\ count' = count /\ Takes(x)
    <3>. HIDE DEF x, s
    <3>. QED BY <2>2 DEF ReadLine, Takes
  <2>4. x.kind = "heading" /\ x.mod = NoMod
    BY DEF Line
  <2>5. Heading(x)
    BY <2>3, <2>4 DEF Takes, AreaLine, SubsLine, SubLine, OtherLine
  <2>6. inSubs' = FALSE /\ table' = [y \in DOMAIN table \cup {NoMod} |-> IF y = NoMod THEN Empty ELSE table[y]]
    BY <2>4, <2>5 DEF Heading
  <2>7. Done(order, N)'
    <3>1. ASSUME NEW i \in 1 .. N PROVE (table[order[i]] = EntryOf(order[i]))'
      <4>1. order[i] \in Heads(order, N) /\ order[i] # NoMod
        BY <1>2 DEF Heads, Mod, NoMod
      <4>2. table'[order[i]] = table[order[i]]
        BY <1>1, <1>4, <2>6, <4>1
      <4>3. EntryOf(order[i])' = EntryOf(order[i])
        BY <2>3, DesignStays
      <4>. QED BY <1>1, <1>4, <4>2, <4>3 DEF Done
    <3>. QED BY <3>1 DEF Done
  <2>8. (DOMAIN table)' = Heads(order, N) \cup {NoMod} /\ table'[NoMod] = Empty
    BY <1>1, <1>4, <2>6
  <2>9. After(order)'
    BY <2>3, <2>6, <2>7, <2>8 DEF After, Heads, Line, NoMod, Empty
  <2>. QED BY <2>9 DEF Reading
<1>. QED BY <1>2, <1>3, <1>4

(* The reader within a section. *)
LEMMA WithinStep ==
  ASSUME CountInv, NEW order \in Orders, NEW r, Unrolled(order, r), Within(order, r), ReadLine
  PROVE  Reading(order, r)'
<1>1. PICK k \in 1 .. N : /\ DOMAIN table = Heads(order, k) /\ Done(order, k - 1)
                          /\ current = order[k] /\ InSection(order[k], r[k + 1])
  BY DEF Within
<1>2. N \in Nat /\ k \in Nat /\ k - 1 \in Nat /\ order \in [1 .. N -> Mod]
      /\ \A i, j \in 1 .. N : i # j => order[i] # order[j]
  BY AreaAssumption DEF Orders
<1>. DEFINE m == order[k]
            more == r[k + 1]
<1>3. m \in Mod /\ more \in Seq(Lines)
  BY UnrolledIs DEF Follows
<1>4. m \in DOMAIN table
  BY <1>1, <1>2 DEF Heads
<1>5. count' = count
  BY DEF ReadLine
<1>6. KeepsOthers(m) /\ ReadsOn(m, more)
  <2>1. current = m /\ InSection(m, more)
    BY <1>1
  <2>. HIDE DEF m, more
  <2>. QED BY <1>3, <1>4, <2>1, SectionStep
<1>7. Done(order, k - 1)'
  <2>1. ASSUME NEW i \in 1 .. k - 1 PROVE (table[order[i]] = EntryOf(order[i]))'
    <3>1. i \in 1 .. N /\ i \in 1 .. k /\ i # k
      BY <1>2
    <3>2. order[i] \in DOMAIN table \ {m}
      BY <1>1, <1>2, <3>1 DEF Heads
    <3>3. table'[order[i]] = table[order[i]]
      BY <1>6, <3>2 DEF KeepsOthers
    <3>4. EntryOf(order[i])' = EntryOf(order[i])
      BY <1>5, DesignStays
    <3>. QED BY <1>1, <3>3, <3>4 DEF Done
  <2>. QED BY <2>1 DEF Done
<1>8. (DOMAIN table)' = Heads(order, k)
  BY <1>1, <1>6 DEF KeepsOthers
<1>9. CASE InSection(m, more)' /\ current' = m
  <2>1. Within(order, r)'
    BY <1>7, <1>8, <1>9 DEF Within, Heads
  <2>. QED BY <2>1 DEF Reading
<1>10. CASE log' = more /\ table'[m] = EntryOf(m)
  <2>1. EntryOf(m)' = EntryOf(m)
    BY <1>5, DesignStays
  <2>2. Done(order, k)'
    <3>1. \A i \in 1 .. k : i \in 1 .. k - 1 \/ i = k
      BY <1>2
    <3>2. ASSUME NEW i \in 1 .. k PROVE (table[order[i]] = EntryOf(order[i]))'
      BY <1>7, <1>10, <2>1, <3>1 DEF Done
    <3>. QED BY <3>2 DEF Done
  <2>3. Between(order, r)'
    <3>1. k \in 0 .. N
      BY <1>2
    <3>. QED BY <1>8, <1>10, <2>2, <3>1 DEF Between, Heads
  <2>. QED BY <2>3 DEF Reading
<1>. QED BY <1>6, <1>9, <1>10 DEF ReadsOn

(* The reader in the section of the hierarchy. *)
LEMMA AfterStep ==
  ASSUME CountInv, NEW order \in Orders, After(order), ReadLine
  PROVE  After(order)'
<1>1. log # << >> /\ log' = Tail(log) /\ count' = count /\ Takes(Head(log)) /\ ~inSubs
  BY DEF ReadLine, Takes, After
<1>. DEFINE x == Line("sub", 1, 1)
            o == Line("other", NoMod, 0)
<1>2. \/ Head(log) = x /\ Tail(log) = << o >>
      \/ Head(log) = o /\ Tail(log) = << >>
  <2>. HIDE DEF x, o
  <2>1. log \in {<< x, o >>, << o >>}
    BY <1>1 DEF After, x, o
  <2>2. Head(<< x, o >>) = x /\ Tail(<< x, o >>) = << o >>
    OBVIOUS
  <2>3. Head(<< o >>) = o /\ Tail(<< o >>) = << >>
    OBVIOUS
  <2>. QED BY <2>1, <2>2, <2>3
<1>3. Head(log).kind \in {"sub", "other"}
  BY <1>2 DEF Line
<1>4. OtherLine(Head(log))
  BY <1>1, <1>3 DEF Takes, Heading, AreaLine, SubsLine, SubLine
<1>5. table' = table /\ ~inSubs'
  BY <1>1, <1>4 DEF OtherLine
<1>6. Done(order, N)'
  <2>1. \A m : EntryOf(m)' = EntryOf(m)
    BY <1>1, DesignStays
  <2>. QED BY <1>5, <2>1 DEF Done, After
<1>7. log' \in {<< x, o >>, << o >>, << >>}
  BY <1>1, <1>2
<1>. QED BY <1>5, <1>6, <1>7 DEF After, Heads, NoMod, Empty, Line

-----------------------------------------------------------------------------
(* A line that is read and what follows it are no empty log. *)
LEMMA LeftNonEmpty ==
  ASSUME CountInv, NEW m \in Mod, NEW more \in Seq(Lines), InSection(m, more)
  PROVE  log # << >>
<1>1. Line("other", NoMod, 0) \in Lines /\ Line("submodules", NoMod, 0) \in Lines
      /\ Line("blank", NoMod, 0) \in Lines /\ Line("area", m, AreaOf[m]) \in Lines
  BY AreaAssumption DEF Line, Lines, Kinds, Mod, NoMod
<1>2. Len(SubsOf(m)) \in Nat /\ 0 \in 0 .. Len(SubsOf(m))
  BY SubsOfIs
<1>3. ASSUME NEW x \in Lines, NEW s \in Seq(Lines), log = << x >> \o s PROVE log # << >>
  BY <1>3, ConsIs
<1>4. CASE log = <<Line("other", NoMod, 0)>> \o CellList(m, more)
  BY <1>1, <1>3, <1>4, CellListIs
<1>5. CASE log = <<Line("submodules", NoMod, 0)>> \o Cells(m, 0, more)
  BY <1>1, <1>2, <1>3, <1>5, CellsAre
<1>6. ASSUME NEW j \in 0 .. Len(SubsOf(m)), log = Cells(m, j, more) PROVE log # << >>
  <2>1. CASE j = Len(SubsOf(m))
    <3>1. log = <<Line("blank", NoMod, 0)>> \o (<<Line("area", m, AreaOf[m])>> \o more)
      BY <1>6, <2>1, CellsAre DEF Ending
    <3>. QED BY <1>1, <1>3, <3>1, EndingIs
  <2>2. CASE j < Len(SubsOf(m))
    <3>. DEFINE b == SubsOf(m)[j + 1]
                x == Line("sub", b, count[m][b])
    <3>1. log = << x >> \o Cells(m, j + 1, more)
      BY <1>6, <2>2, CellsAre
    <3>2. x \in Lines
      <4>1. j + 1 \in 1 .. Len(SubsOf(m))
        BY <1>2, <2>2
      <4>2. Subs(m) \subseteq m + 1 .. N + 1 /\ b \in Subs(m)
        BY <4>1, SubsOfIs
      <4>3. b \in m + 1 .. N + 1
        BY <4>2
      <4>4. b \in 1 .. N + 1
        BY <4>3, AreaAssumption DEF Mod
      <4>5. b \in Int /\ count[m][b] \in Int
        BY <4>4 DEF CountInv
      <4>. QED BY <4>5 DEF Line, Lines, Kinds
    <3>3. Cells(m, j + 1, more) \in Seq(Lines)
      <4>1. j + 1 \in 0 .. Len(SubsOf(m))
        BY <1>2, <2>2
      <4>. QED BY <4>1, CellsAre
    <3>. HIDE DEF x
    <3>. QED BY <1>3, <3>1, <3>2, <3>3
  <2>. QED BY <1>2, <2>1, <2>2
<1>7. CASE log = <<Line("area", m, AreaOf[m])>> \o more
  BY <1>1, <1>3, <1>7
<1>. QED BY <1>4, <1>5, <1>6, <1>7 DEF InSection

(* The log is read: the table is that of the design. *)
LEMMA AllIsParsed ==
  ASSUME AreaInv, log = << >>
  PROVE  CountInv /\ Parsed
<1>1. PICK order \in Orders : \E r : Unrolled(order, r) /\ Reading(order, r)
  BY DEF AreaInv
<1>2. PICK r : Unrolled(order, r) /\ Reading(order, r)
  BY <1>1
<1>3. CountInv
  BY DEF AreaInv
<1>4. N \in Nat /\ order \in [1 .. N -> Mod] /\ \A i, j \in 1 .. N : i # j => order[i] # order[j]
  BY AreaAssumption DEF Orders
<1>5. ~ Between(order, r)
  <2>. SUFFICES ASSUME NEW k \in 0 .. N, r[k + 1] = << >> PROVE FALSE
    BY DEF Between
  <2>1. CASE k < N
    <3>. DEFINE h == k + 1
                x == Line("heading", order[h], 0)
                o == Line("other", NoMod, 0)
                c == CellList(order[h], r[h + 1])
    <3>1. h \in 1 .. N
      BY <1>4, <2>1
    <3>2. order[h] \in Mod /\ Follows(order, r, h)
      BY <1>2, <1>3, <3>1, UnrolledIs
    <3>3. x \in Lines /\ o \in Lines
      BY <3>2, AreaAssumption DEF Line, Lines, Kinds, Mod, NoMod
    <3>4. c \in Seq(Lines) /\ r[h] = << x >> \o (<< o >> \o c)
      BY <1>3, <3>2, CellListIs DEF Follows
    <3>. HIDE DEF x, o, c
    <3>5. << o >> \o c \in Seq(Lines)
      BY <3>3, <3>4, ConsIs
    <3>6. << x >> \o (<< o >> \o c) # << >>
      BY <3>3, <3>5, ConsIs
    <3>. QED BY <3>4, <3>6
  <2>2. CASE k = N
    BY <1>2, <2>2 DEF Unrolled, Hierarchy
  <2>. QED BY <1>4, <2>1, <2>2
<1>6. ~ Within(order, r)
  <2>. SUFFICES ASSUME NEW k \in 1 .. N, InSection(order[k], r[k + 1]) PROVE FALSE
    BY DEF Within
  <2>1. order[k] \in Mod /\ r[k + 1] \in Seq(Lines)
    BY <1>2, <1>3, UnrolledIs DEF Follows
  <2>. QED BY <1>3, <2>1, LeftNonEmpty
<1>7. After(order)
  BY <1>2, <1>5, <1>6 DEF Reading
<1>8. \A m \in Mod : \E i \in 1 .. N : order[i] = m
  <2>1. order \in Injection(1 .. N, Mod)
    BY <1>4 DEF Injection, IsInjective
  <2>2. IsFiniteSet(1 .. N) /\ Cardinality(1 .. N) = N /\ Mod = 1 .. N
    BY <1>4, FS_Interval DEF Mod
  <2>3. order \in Surjection(1 .. N, Mod)
    BY <2>1, <2>2, FS_Injection
  <2>. QED BY <2>3 DEF Surjection
<1>9. DOMAIN table = 0 .. N
  <2>1. Heads(order, N) = 1 .. N
    BY <1>4, <1>8 DEF Heads, Mod
  <2>. QED BY <1>4, <1>7, <2>1 DEF After, NoMod
<1>10. \A m \in Mod : table[m] = EntryOf(m)
  BY <1>7, <1>8 DEF After, Done
<1>. QED BY <1>3, <1>7, <1>9, <1>10 DEF Parsed, After

(* Nothing is read yet. *)
LEMMA AreaInitially == AreaInit => AreaInv
<1>. SUFFICES ASSUME AreaInit PROVE AreaInv
  OBVIOUS
<1>1. PICK n \in [{p \in Mod \X (Mod \cup {Wrapper}) : p[1] < p[2]} -> 0 .. MaxCount] :
        count = [m \in Mod |-> [s \in Mod \cup {Wrapper} |-> IF m < s THEN n[<<m, s>>] ELSE 0]]
  BY DEF AreaInit
<1>2. CountInv
  <2>. SUFFICES ASSUME NEW m \in Mod, NEW s \in 1 .. N + 1
                PROVE  count[m][s] \in Nat /\ (s <= m => count[m][s] = 0)
    BY DEF CountInv
  <2>1. s \in Mod \cup {Wrapper} /\ m \in Int /\ s \in Int
    BY AreaAssumption DEF Mod, Wrapper
  <2>2. count[m][s] = IF m < s THEN n[<<m, s>>] ELSE 0
    BY <1>1, <2>1
  <2>3. m < s => n[<<m, s>>] \in Nat
    <3>1. m < s => << m, s >> \in {p \in Mod \X (Mod \cup {Wrapper}) : p[1] < p[2]}
      BY <2>1
    <3>2. 0 .. MaxCount \subseteq Nat
      BY AreaAssumption
    <3>. QED BY <1>1, <3>1, <3>2
  <2>. QED BY <2>1, <2>2, <2>3
<1>3. PICK order \in Orders : log = LogOf(order)
  BY DEF AreaInit, Orders
<1>4. PICK r : Unrolled(order, r) /\ LogOf(order) = r[1]
  BY <1>2, LogUnrolled
<1>5. 0 \in 0 .. N /\ DOMAIN table = Heads(order, 0) /\ Done(order, 0)
  BY AreaAssumption DEF AreaInit, Heads, Done
<1>6. Between(order, r)
  <2>1. log = r[0 + 1]
    BY <1>3, <1>4
  <2>. QED BY <1>5, <2>1 DEF Between
<1>. QED BY <1>2, <1>4, <1>6 DEF AreaInv, Reading

LEMMA AreaStep == AreaInv /\ [AreaNext]_areaVars => AreaInv'
<1>. SUFFICES ASSUME AreaInv, [AreaNext]_areaVars PROVE AreaInv'
  OBVIOUS
<1>1. PICK order \in Orders : \E r : Unrolled(order, r) /\ Reading(order, r)
  BY DEF AreaInv
<1>2. PICK r : Unrolled(order, r) /\ Reading(order, r)
  BY <1>1
<1>3. CountInv
  BY DEF AreaInv
<1>4. CASE ReadLine
  <2>1. count' = count
    BY <1>4 DEF ReadLine
  <2>2. Reading(order, r)'
    <3>1. CASE Between(order, r)
      BY <1>2, <1>3, <1>4, <3>1, BetweenStep
    <3>2. CASE Within(order, r)
      BY <1>2, <1>3, <1>4, <3>2, WithinStep
    <3>3. CASE After(order)
      <4>1. After(order)'
        BY <1>3, <1>4, <3>3, AfterStep
      <4>. QED BY <4>1 DEF Reading
    <3>. QED BY <1>2, <3>1, <3>2, <3>3 DEF Reading
  <2>3. CountInv' /\ Unrolled(order, r)'
    BY <1>2, <1>3, <2>1, DesignStays
  <2>. QED BY <2>2, <2>3 DEF AreaInv, Orders
<1>5. CASE UNCHANGED areaVars
  <2>1. count' = count /\ log' = log /\ table' = table /\ current' = current /\ inSubs' = inSubs
    BY <1>5 DEF areaVars
  <2>2. /\ \A m : SubsOf(m)' = SubsOf(m) /\ EntryOf(m)' = EntryOf(m)
        /\ \A m, j : Entries(m, j)' = Entries(m, j)
        /\ \A m, more : CellList(m, more)' = CellList(m, more)
        /\ \A m, j, more : Cells(m, j, more)' = Cells(m, j, more)
    BY <2>1, DesignStays
  <2>3. ASSUME NEW m, NEW more, InSection(m, more) PROVE InSection(m, more)'
    <3>1. (Cells(m, 0, more))' = Cells(m, 0, more)
          /\ (Entries(m, Len(SubsOf(m))))' = Entries(m, Len(SubsOf(m)))
      BY <2>1 DEF Cells, SubLines, Ending, Entries, SubsOf, Subs
    <3>. QED BY <2>1, <2>2, <2>3, <3>1 DEF InSection, Empty
  <2>4. ASSUME NEW k, Done(order, k) PROVE Done(order, k)'
    BY <2>1, <2>2, <2>4 DEF Done
  <2>5. Reading(order, r)'
    <3>1. CASE Between(order, r)
      <4>1. Between(order, r)'
        BY <2>1, <2>4, <3>1 DEF Between, Heads
      <4>. QED BY <4>1 DEF Reading
    <3>2. CASE Within(order, r)
      <4>1. Within(order, r)'
        BY <2>1, <2>3, <2>4, <3>2 DEF Within, Heads
      <4>. QED BY <4>1 DEF Reading
    <3>3. CASE After(order)
      <4>1. After(order)'
        BY <2>1, <2>4, <3>3 DEF After, Heads, NoMod, Empty, Line
      <4>. QED BY <4>1 DEF Reading
    <3>. QED BY <1>2, <3>1, <3>2, <3>3 DEF Reading
  <2>6. CountInv' /\ Unrolled(order, r)'
    BY <1>2, <1>3, <2>1, DesignStays
  <2>. QED BY <2>5, <2>6 DEF AreaInv, Orders
<1>. QED BY <1>4, <1>5 DEF AreaNext

(* AreaIsFlat, for every design, every number of modules and every order of *)
(* the sections: full_top_ppa_harness.py:299-358.                           *)
THEOREM AreaAlwaysFlat == AreaSpec => []AreaIsFlat
<1>1. AreaInv => AreaIsFlat
  BY AllIsParsed, TotalIsFlat DEF AreaIsFlat
<1>. QED BY <1>1, AreaInitially, AreaStep, PTL DEF AreaSpec
=============================================================================
