------------------------------ MODULE MCLoops -------------------------------
(* TLC instance of the panel's loops that work on state which admins,       *)
(* agents and pages change under their hands: the evaluator of alert rules  *)
(* (AlertEngine), the runner of scheduled tasks (CronScheduler), the        *)
(* simulator of metrics (Telemetry) and the broadcaster (LiveDashboard).    *)
(* None of them writes what another one keeps here, so that each is         *)
(* explored with the others at rest: `part' says which one moves.  Alerts   *)
(* and tasks are explored twice, in breadth and in depth: several of them   *)
(* whose settings stay as they are first set, and one with every edit.  No  *)
(* definition tells rules, targets, tasks, heartbeats or connections apart. *)
EXTENDS AlertEngine, CronScheduler, Telemetry, LiveDashboard, TLC

VARIABLE part

Symmetry == Permutations(Rule) \cup Permutations(Target) \cup Permutations(CronTask)
              \cup Permutations(Beat) \cup Permutations(Conn)

Init == /\ part \in {"alerts", "edits", "cron", "batches", "metrics", "live"}
        /\ AEInit /\ CRInit /\ TMInit /\ LDInit
        /\ part \notin {"cron", "batches"} => time = 0

(* Rules with the threshold and the cooldown they have at the start, and    *)
(* levels that are beyond it or not; and one rule, edited at will.          *)
Alerts == /\ part = "alerts" /\ AENext /\ UNCHANGED <<thr, cooldown>>
          /\ \A x \in Target, c \in Condition : level'[x][c] <= 1
          /\ UNCHANGED <<part, crVars, tmVars, ldVars>>
Edits == /\ part = "edits" /\ AENext /\ Cardinality(usedRules') <= 1
         /\ UNCHANGED <<part, crVars, tmVars, ldVars>>

(* One task with every schedule; and several, at most one schedule of which *)
(* ever comes, so that their slots are the same and the runner has several  *)
(* of them to run at once.                                                  *)
Cron == /\ part = "cron" /\ CRNext /\ Cardinality(usedTasks') <= 1
        /\ UNCHANGED <<part, aeVars, tmVars, ldVars>>
Batches == /\ part = "batches" /\ CRNext
           /\ \A t \in CronTask : schedule'[t] \in {NoSchedule, CHOOSE p \in Periods : TRUE}
           /\ UNCHANGED <<part, aeVars, tmVars, ldVars>>
Metrics == part = "metrics" /\ TMNext /\ UNCHANGED <<part, aeVars, crVars, ldVars>>
Live == part = "live" /\ LDNext /\ UNCHANGED <<part, aeVars, crVars, tmVars>>

Spec == Init /\ [][Alerts \/ Edits \/ Cron \/ Batches \/ Metrics \/ Live]_<<part, aeVars, crVars, tmVars, ldVars>>

(* Types of the parts: events, executions, points and channels are cut, and *)
(* what a loop is at was stored once.                                       *)
LoopsTypeOK == AETypeOK /\ CRTypeOK /\ TMTypeOK /\ LDTypeOK
=============================================================================
