--------------------------- MODULE BarrierService ---------------------------
(***************************************************************************)
(* What the barrier network of the ciu promises to each PIU: a barrier is   *)
(* answered only after every target has received it and has finished it     *)
(* after that.  In one clock cycle several PIUs may make progress at once.  *)
(***************************************************************************)
CONSTANTS PIU, Target

VARIABLES
  phase,      \* "idle", "open" or "answer", for each PIU
  visited,    \* the targets that have received the open barrier
  finished    \* the targets that have finished it

serviceVars == <<phase, visited, finished>>

ServiceInit == /\ phase = [p \in PIU |-> "idle"]
               /\ visited = [p \in PIU |-> {}]
               /\ finished = [p \in PIU |-> {}]

OpenBarrier(p) == phase[p] = "idle" /\ phase'[p] = "open" /\ visited'[p] = {}

(* Further targets receive the barrier; some that had received it finish.   *)
Spread(p) == /\ phase[p] = "open"
             /\ phase'[p] = "open"
             /\ visited[p] \subseteq visited'[p]
             /\ finished'[p] \in {finished[p] \cup d : d \in SUBSET visited[p]}

AnswerBarrier(p) == /\ phase[p] = "open"
                    /\ phase'[p] = "answer"
                    /\ Target \ finished[p] \subseteq visited[p]
                    /\ finished'[p] = Target

CloseBarrier(p) == /\ phase[p] = "answer"
                   /\ phase'[p] = "idle"
                   /\ visited'[p] = {} /\ finished'[p] = {}

Stay(p) == /\ phase'[p] = phase[p]
           /\ visited'[p] = visited[p]
           /\ finished'[p] = finished[p]

ServiceNext == \A p \in PIU : \/ OpenBarrier(p) \/ Spread(p)
                              \/ AnswerBarrier(p) \/ CloseBarrier(p) \/ Stay(p)

ServiceSpec == ServiceInit /\ [][ServiceNext]_serviceVars
=============================================================================
