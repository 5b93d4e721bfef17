------------------------------ MODULE ReplayEnv ------------------------------
(***************************************************************************)
(* The gate on the tool variables of a replay.sh (athanor/                  *)
(* check_replay_env.py) against what the shell does with them.  A script is *)
(* a sequence of the forms in which it names one variable; those of another *)
(* variable are looked at by themselves.                                    *)
(***************************************************************************)
EXTENDS Integers, Sequences

CONSTANT MaxForms   \* bound on the forms in a script

ASSUME FormsAssumption == MaxForms \in Nat

Form == {"use",        \* $VAR
         "guard",      \* ${VAR:?...}
         "default",    \* ${VAR:-...}
         "assign"}     \* ${VAR:=...}

VARIABLES
  rest,      \* the forms that are still to be run
  shText,    \* replay.sh as it is committed
  nounset,   \* whether it says set -u
  provided,  \* whether the caller set the variable
  value,     \* pinned, unset or substituted
  tools,     \* the tools it ran
  failed     \* failed, or not

envVars == <<rest, shText, nounset, provided, value, tools, failed>>

NamesForm(forms) == \E i \in DOMAIN shText : shText[i] \in forms

(* Mutant: only ${VAR:-...} is taken for a default. *)
DefaultedByDash == NamesForm({"default"})

(* _used, _required, _defaulted: where the form stands does not matter. *)
Used      == NamesForm(Form)
Required  == NamesForm({"guard"})
Defaulted == NamesForm({"default", "assign"})

(* check, of one script and one variable *)
EnvFindings == Used /\ (Defaulted \/ ~Required)

-----------------------------------------------------------------------------
EnvInit ==
  /\ shText \in UNION {[1 .. n -> Form] : n \in 0 .. MaxForms}
  /\ rest = shText /\ nounset \in BOOLEAN /\ provided \in BOOLEAN
  /\ value = IF provided THEN "pinned" ELSE "unset"
  /\ tools = {} /\ failed = FALSE

(* The shell, form by form; a failure ends the script (set -e). *)
Shell ==
  LET f == Head(rest)
      v == IF value = "unset" /\ f \in {"default", "assign"} THEN "substituted" ELSE value
      fails == value = "unset" /\ (f = "guard" \/ (f = "use" /\ nounset))
  IN  /\ rest # << >>
      /\ failed' = fails
      /\ rest' = IF fails THEN << >> ELSE Tail(rest)
      /\ value' = IF f = "assign" THEN v ELSE value
      /\ tools' = IF f = "guard" \/ fails THEN tools ELSE tools \cup {v}
      /\ UNCHANGED <<shText, nounset, provided>>

EnvNext == Shell
EnvSpec == EnvInit /\ [][EnvNext]_envVars

-----------------------------------------------------------------------------
(* A script without findings fails loud when its tool is not provided, and  *)
(* never runs one that was put in its place (check_replay_env.py:11-20).    *)
NeverSubstituted ==
  ~EnvFindings => /\ "substituted" \notin tools
                  /\ (rest = << >> /\ Used /\ ~provided) => failed
=============================================================================
