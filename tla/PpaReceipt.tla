----------------------------- MODULE PpaReceipt -----------------------------
(***************************************************************************)
(* The contract of a bounded composed receipt (athanor/                     *)
(* full_top_ppa_harness.py) and the author who keeps the package.  A leg is *)
(* run on the inputs of that moment; receipt, manifest, screen and cache    *)
(* keys are written one at a time, and any of them may be forgotten.        *)
(*                                                                         *)
(* A hash is the content that is hashed.  The sources are plic_granu_arb.v  *)
(* (arb), which the overlay replaces in the gate, and the rest; flow and    *)
(* toolchain are one input, tool.                                           *)
(***************************************************************************)
EXTENDS Integers

CONSTANTS
  Content,      \* contents of an input
  Published,    \* the content of every input of the published package
  MaxPpaEdits,  \* bound on the edits, changes of the inputs included
  Nothing       \* no hash, no key, no run

ASSUME InputsAssumption == MaxPpaEdits \in Nat /\ Published \in Content

Input   == {"arb", "rest", "overlay", "screen", "tool"}
Mode    == {"gold", "gate"}

VARIABLES
  world,      \* the inputs in the tree of the author
  manifest,   \* source_manifest.json: sources, gate overlay and own digest
  screen,     \* screen_config.json
  ppaReceipt, \* receipt.json: hashes, and whether its claim is bounded
  legs,       \* its legs: passed, capped (not named), named, absent
  keys,       \* cache_keys.json
  ran,        \* history: the runs, by the key they were given
  last,       \* history: the run that the numbers of a leg are from
  ppaEdits

ppaVars == <<world, manifest, screen, ppaReceipt, legs, keys, ran, last, ppaEdits>>

-----------------------------------------------------------------------------
(* source_manifest_sha256, of what the manifest holds now; and the mutant:  *)
(* the digest that the manifest states.                                     *)
SourceManifestShaStored(m) == m.digest
SourceManifestSha(m) == [arb |-> m.arb, rest |-> m.rest, overlay |-> m.overlay]

(* source_manifest: an overlay is an input, not found. *)
SourceManifest(overlay) ==
  LET m == [arb |-> world["arb"], rest |-> world["rest"], overlay |-> overlay, digest |-> Nothing]
  IN  [m EXCEPT !.digest = SourceManifestSha(m)]

(* Mutants: a key without the screen, and one without the overlay. *)
CacheKeyNoScreen(mode, source, scr, tool, overlay) ==
  [mode |-> mode, source |-> source, tool |-> tool, overlay |-> overlay]
CacheKeyNoOverlay(mode, source, scr, tool, overlay) ==
  [mode |-> mode, source |-> source, screen |-> scr, tool |-> tool]

(* cache_key *)
CacheKey(mode, source, scr, tool, overlay) ==
  [mode |-> mode, source |-> source, screen |-> scr, tool |-> tool, overlay |-> overlay]

OverlayOf(mode, overlay) == IF mode = "gate" THEN overlay ELSE Nothing

(* validate_receipt_contract of a whole package: receipt, manifest, screen  *)
(* and keys agree, and no leg that hit its cap is without cap and reason.   *)
(* The keys are those of what the receipt states.                           *)
Pass ==
  /\ ppaReceipt.bounded
  /\ ppaReceipt.screen = screen
  /\ manifest.digest = SourceManifestSha(manifest)
  /\ ppaReceipt.source = SourceManifestSha(manifest)
  /\ \A mode \in Mode : legs[mode] # "capped"
  /\ \A mode \in Mode : keys[mode] =
       CacheKey(mode, ppaReceipt.source, screen, ppaReceipt.tool, OverlayOf(mode, ppaReceipt.overlay))

-----------------------------------------------------------------------------
(* What a leg depends on; gate is built with the overlay in place of arb. *)
Run(mode, in) ==
  [mode |-> mode, arb |-> IF mode = "gold" THEN in.arb ELSE in.overlay,
   rest |-> in.rest, screen |-> in.screen, tool |-> in.tool]

(* The inputs as the package states them. *)
Stated == [arb |-> manifest.arb, rest |-> manifest.rest, overlay |-> ppaReceipt.overlay,
           screen |-> screen, tool |-> ppaReceipt.tool]

(* A leg is run and its key computed; a run over its cap has no numbers of  *)
(* its own.  The digest in the key is of a manifest with or without the     *)
(* overlay: --print-plic-top-manifest prints it without.                    *)
Measure(mode, overlay, outcome) ==
  LET key == CacheKey(mode, SourceManifest(overlay).digest, world["screen"], world["tool"],
                      OverlayOf(mode, world["overlay"]))
      run == Run(mode, world)
  IN  /\ keys' = [keys EXCEPT ![mode] = key]
      /\ legs' = [legs EXCEPT ![mode] = outcome]
      /\ ran' = ran \cup {[key |-> key, run |-> run]}
      /\ last' = [last EXCEPT ![mode] = run]
      /\ UNCHANGED <<world, manifest, screen, ppaReceipt>>

ChangeInput(x, c) ==
  /\ world' = [world EXCEPT ![x] = c]
  /\ UNCHANGED <<manifest, screen, ppaReceipt, legs, keys, ran, last>>

WriteManifest(overlay) ==
  /\ manifest' = SourceManifest(overlay)
  /\ UNCHANGED <<world, screen, ppaReceipt, legs, keys, ran, last>>

(* An entry is corrected by hand, the digest below it is not. *)
AmendManifest ==
  /\ manifest' = [manifest EXCEPT !.arb = world["arb"], !.rest = world["rest"]]
  /\ UNCHANGED <<world, screen, ppaReceipt, legs, keys, ran, last>>

WriteScreen ==
  /\ screen' = world["screen"]
  /\ UNCHANGED <<world, manifest, ppaReceipt, legs, keys, ran, last>>

(* The receipt is brought up to date, one field at a time; its claim may be *)
(* widened and taken back.                                                  *)
WriteReceipt ==
  /\ \/ ppaReceipt' = [ppaReceipt EXCEPT !.source = manifest.digest]
     \/ ppaReceipt' = [ppaReceipt EXCEPT !.overlay = world["overlay"]]
     \/ ppaReceipt' = [ppaReceipt EXCEPT !.screen = world["screen"]]
     \/ ppaReceipt' = [ppaReceipt EXCEPT !.tool = world["tool"]]
     \/ ppaReceipt' = [ppaReceipt EXCEPT !.bounded = ~@]
  /\ UNCHANGED <<world, manifest, screen, legs, keys, ran, last>>

(* named_partial_receipt, of a leg that hit its cap: it has no digest of    *)
(* the sources, no flow and no other leg.                                   *)
NamedPartial(mode) ==
  /\ legs[mode] = "capped"
  /\ ppaReceipt' = [source |-> Nothing, overlay |-> Nothing, screen |-> world["screen"],
                    tool |-> Nothing, bounded |-> TRUE]
  /\ legs' = [m \in Mode |-> IF m = mode THEN "named" ELSE "absent"]
  /\ UNCHANGED <<world, manifest, screen, keys, ran, last>>

(* A published package that is current. *)
PpaInit ==
  /\ world = [x \in Input |-> Published]
  /\ manifest = SourceManifest(Published)
  /\ screen = Published
  /\ ppaReceipt = [source |-> manifest.digest, overlay |-> Published, screen |-> Published, tool |-> Published, bounded |-> TRUE]
  /\ legs = [mode \in Mode |-> "passed"]
  /\ last = [mode \in Mode |-> Run(mode, world)]
  /\ keys = [mode \in Mode |-> CacheKey(mode, manifest.digest, Published, Published, OverlayOf(mode, Published))]
  /\ ran = {[key |-> keys[mode], run |-> last[mode]] : mode \in Mode}
  /\ ppaEdits = 0

PpaNext ==
  /\ ppaEdits < MaxPpaEdits /\ ppaEdits' = ppaEdits + 1
  /\ \/ \E x \in Input, c \in Content : ChangeInput(x, c)
     \/ \E o \in {Nothing, world["overlay"]} : WriteManifest(o)
     \/ \E mode \in Mode, o \in {Nothing, world["overlay"]}, outcome \in {"passed", "capped"} :
          Measure(mode, o, outcome)
     \/ AmendManifest
     \/ WriteScreen
     \/ WriteReceipt
     \/ \E mode \in Mode : NamedPartial(mode)

PpaSpec == PpaInit /\ [][PpaNext]_ppaVars

-----------------------------------------------------------------------------
(* A package that passes compares two runs of the inputs it states: both    *)
(* legs were last run on its sources, its screen and its toolchain, the     *)
(* gate with its overlay (full_top_ppa_harness.py:218-283; the receipt's    *)
(* comparability_rule).                                                     *)
PassIsComparable == Pass => \A mode \in Mode : last[mode] = Run(mode, Stated)

(* A cached result may be reused: runs with one key are one run, whatever   *)
(* the inputs were when each was made (full_top_ppa_harness.py:111-141).    *)
KeyNamesRun == \A a, b \in ran : a.key = b.key => a.run = b.run
=============================================================================
