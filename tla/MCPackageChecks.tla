--------------------------- MODULE MCPackageChecks ---------------------------
(***************************************************************************)
(* What a bounded package is checked by: the area of its composed design,   *)
(* its receipt and the variables of its replay.sh.  The three share no      *)
(* state: each is run with the other two at rest.                           *)
(***************************************************************************)
EXTENDS ComposedArea, PpaReceipt, ReplayEnv

(* Areas that cannot be mistaken for each other. *)
Areas == <<100, 10, 1>>

AreaRests == /\ count = [m \in Mod |-> [s \in Mod \cup {Wrapper} |-> 0]]
             /\ log = << >> /\ table = [m \in Mod |-> [area |-> AreaOf[m], subs |-> << >>]]
             /\ current = NoMod /\ inSubs = FALSE
PpaRests  == /\ world = [x \in Input |-> Published] /\ manifest = [arb |-> Published, rest |-> Published, overlay |-> Nothing, digest |-> Nothing]
             /\ screen = Nothing /\ legs = [mode \in Mode |-> "absent"]
             /\ ppaReceipt = [source |-> Nothing, overlay |-> Nothing, screen |-> Nothing, tool |-> Nothing, bounded |-> FALSE]
             /\ keys = [mode \in Mode |-> Nothing] /\ ran = {} /\ last = keys /\ ppaEdits = MaxPpaEdits
EnvRests  == /\ rest = << >> /\ shText = << >> /\ nounset = FALSE /\ provided = FALSE
             /\ value = "unset" /\ tools = {} /\ failed = FALSE

Init == \/ AreaInit /\ PpaRests /\ EnvRests
        \/ AreaRests /\ PpaInit /\ EnvRests
        \/ AreaRests /\ PpaRests /\ EnvInit
Next == \/ AreaNext /\ UNCHANGED <<ppaVars, envVars>>
        \/ PpaNext /\ UNCHANGED <<areaVars, envVars>>
        \/ EnvNext /\ UNCHANGED <<areaVars, ppaVars>>
=============================================================================
