---------------------------- MODULE CronScheduler ---------------------------
(* Scheduled tasks: backend/internal/database/cron_store.go and the runner  *)
(* of monitor/cron_runner.go.                                               *)
(*                                                                          *)
(* A schedule stands for the slots at the multiples of its period on the    *)
(* time; NoSchedule is one the cron parser accepts and that never comes     *)
(* (the 30th of February).  The unit of time is the runner's ticker (20s):  *)
(* in each unit the runner takes the tasks that are due and then records a  *)
(* run of each, one by one, while admins trigger, edit, disable and delete  *)
(* tasks in between.  No command is sent anywhere: a run is its record.     *)
(* A restored backup is left out.                                           *)
EXTENDS Integers, Sequences, FiniteSets

CONSTANTS CronTask,    \* ids; Create takes one not usedTasks before
          Periods,     \* of the schedules admins may set, in units
          NoSchedule,
          Cycle,       \* a common multiple of the periods
          MaxLate,     \* bound of the model: lateness that is told apart
          MaxHistory   \* executions kept (200 in the code)

ASSUME PeriodsAssumption ==
  /\ Periods \subseteq 1..Cycle /\ Periods # {} /\ Cycle \in Nat \ {0}
  /\ \A p \in Periods : Cycle % p = 0
  /\ NoSchedule \notin Periods
ASSUME CronLimits == MaxLate \in Nat \ {0, 1} /\ MaxHistory \in Nat \ {0}

VARIABLES tasks,      \* the stored ones
          usedTasks,  \* ids that were ever stored
          enabled,
          schedule,   \* a period or NoSchedule
          left,       \* time until NextRun, at most 0 when it has passed
          executions, \* task and whether it was triggered, oldest first
          time,       \* modulo Cycle
          batch,      \* tasks the runner still has to record a run of
          scanned,    \* has the runner taken this unit's tasks
          triggers,   \* tasks TriggerNow has found and not recorded
          runs,       \* history: scheduled runs of a task since its last slot
          awake,      \* history: tasks enabled since before this unit
          swallowed   \* history: tasks with a slot no scheduled run was made for

cronVars == <<tasks, usedTasks, enabled, schedule, left, executions>>
runnerVars == <<time, batch, scanned, triggers>>
historyVars == <<runs, awake, swallowed>>
crVars == <<cronVars, runnerVars, historyVars>>

Never == Cycle + 1

(* NextRun: the first slot after now.                                       *)
NextRun(p) == IF p = NoSchedule THEN Never ELSE p - (time % p)

Due(t) == t \in tasks /\ enabled[t] /\ left[t] <= 0

CRInit ==
  /\ tasks = {} /\ usedTasks = {}
  /\ enabled = [t \in CronTask |-> FALSE]
  /\ schedule = [t \in CronTask |-> NoSchedule]
  /\ left = [t \in CronTask |-> Never]
  /\ executions = <<>>
  /\ time \in 0..(Cycle - 1)
  /\ batch = {} /\ scanned = FALSE /\ triggers = {}
  /\ runs = [t \in CronTask |-> 0]
  /\ awake = {} /\ swallowed = {}

-----------------------------------------------------------------------------
Create(t, p) ==
  /\ t \notin usedTasks
  /\ tasks' = tasks \cup {t} /\ usedTasks' = usedTasks \cup {t}
  /\ enabled' = [enabled EXCEPT ![t] = TRUE]
  /\ schedule' = [schedule EXCEPT ![t] = p]
  /\ left' = [left EXCEPT ![t] = NextRun(p)]
  /\ UNCHANGED <<executions, runnerVars, historyVars>>

(* A request that leaves the schedule out leaves NextRun alone, also one    *)
(* that enables the task.                                                   *)
SetEnabled(t, b) ==
  /\ t \in tasks
  /\ enabled' = [enabled EXCEPT ![t] = b]
  /\ awake' = IF b THEN awake ELSE awake \ {t}
  /\ UNCHANGED <<tasks, usedTasks, schedule, left, executions, runnerVars, runs, swallowed>>

(* Mutant of SetSchedule: NextRun is only computed anew by the next run.    *)
SetScheduleOnly(t, p) ==
  /\ t \in tasks
  /\ schedule' = [schedule EXCEPT ![t] = p]
  /\ UNCHANGED <<tasks, usedTasks, enabled, left, executions, runnerVars, runs, awake>>
  /\ swallowed' = swallowed \ {t}

SetSchedule(t, p) ==
  /\ t \in tasks
  /\ schedule' = [schedule EXCEPT ![t] = p]
  /\ left' = [left EXCEPT ![t] = NextRun(p)]
  /\ swallowed' = swallowed \ {t}
  /\ UNCHANGED <<tasks, usedTasks, enabled, executions, runnerVars, runs, awake>>

Delete(t) ==
  /\ t \in tasks
  /\ tasks' = tasks \ {t}
  /\ awake' = awake \ {t} /\ swallowed' = swallowed \ {t}
  /\ UNCHANGED <<usedTasks, enabled, schedule, left, executions, runnerVars, runs>>

-----------------------------------------------------------------------------
Log(t, manual) ==
  LET log == Append(executions, <<t, manual>>)
  IN IF Len(log) > MaxHistory THEN Tail(log) ELSE log

(* Mutant of RecordExecution: NextRun moves on only for tasks that are      *)
(* triggered.                                                               *)
RecordTriggeredOnly(t, manual) ==
  /\ executions' = Log(t, manual)
  /\ left' = IF t \in tasks /\ manual THEN [left EXCEPT ![t] = NextRun(schedule[t])] ELSE left
  /\ UNCHANGED <<tasks, usedTasks, enabled, schedule>>

RecordExecution(t, manual) ==
  /\ executions' = Log(t, manual)
  /\ left' = IF t \in tasks THEN [left EXCEPT ![t] = NextRun(schedule[t])] ELSE left
  /\ UNCHANGED <<tasks, usedTasks, enabled, schedule>>

(* The runner's DueTasks, and then its loop over them.                      *)
DueTasks ==
  /\ ~ scanned /\ scanned' = TRUE
  /\ batch' = {t \in CronTask : Due(t)}
  /\ UNCHANGED <<cronVars, time, triggers, historyVars>>

RunTask(t) ==
  /\ t \in batch /\ batch' = batch \ {t}
  /\ RecordExecution(t, FALSE)
  /\ runs' = [runs EXCEPT ![t] = @ + 1]
  /\ swallowed' = swallowed \ {t}
  /\ UNCHANGED <<time, scanned, triggers, awake>>

(* TriggerNow finds the task and records the run under the lock anew.       *)
TriggerNow(t) ==
  /\ t \in tasks /\ t \notin triggers
  /\ triggers' = triggers \cup {t}
  /\ UNCHANGED <<cronVars, time, batch, scanned, historyVars>>

TriggerRecorded(t) ==
  /\ t \in triggers /\ triggers' = triggers \ {t}
  /\ RecordExecution(t, TRUE)
  /\ UNCHANGED <<time, batch, scanned, historyVars>>

Later(n) == CASE n = Never -> Never
              [] n > - MaxLate /\ n # Never -> n - 1
              [] OTHER -> - MaxLate

Slots(c) == {t \in CronTask : schedule[t] # NoSchedule /\ c % schedule[t] = 0}

(* A unit passes when the runner is through.                                *)
CronTick ==
  /\ scanned /\ batch = {} /\ scanned' = FALSE
  /\ time' = (time + 1) % Cycle
  /\ left' = [t \in CronTask |-> Later(left[t])]
  /\ runs' = [t \in CronTask |-> IF t \in Slots(time') THEN 0 ELSE runs[t]]
  /\ awake' = {t \in tasks : enabled[t]}
  /\ swallowed' = (swallowed \cap awake) \cup {t \in Slots(time') : t \in tasks /\ enabled[t]}
  /\ UNCHANGED <<tasks, usedTasks, enabled, schedule, executions, batch, triggers>>

CronAdmin ==
  \E t \in CronTask :
    \/ \E p \in Periods \cup {NoSchedule} : Create(t, p) \/ SetSchedule(t, p)
    \/ \E b \in BOOLEAN : SetEnabled(t, b)
    \/ Delete(t) \/ TriggerNow(t) \/ TriggerRecorded(t)

CRNext == CronAdmin \/ DueTasks \/ (\E t \in CronTask : RunTask(t)) \/ CronTick

CRSpec == CRInit /\ [][CRNext]_crVars

-----------------------------------------------------------------------------
CRTypeOK ==
  /\ tasks \subseteq usedTasks /\ usedTasks \subseteq CronTask
  /\ enabled \in [CronTask -> BOOLEAN]
  /\ schedule \in [CronTask -> Periods \cup {NoSchedule}]
  /\ left \in [CronTask -> (- MaxLate)..Never]
  /\ executions \in Seq(usedTasks \X BOOLEAN) /\ Len(executions) <= MaxHistory
  /\ time \in 0..(Cycle - 1)
  /\ batch \subseteq usedTasks /\ triggers \subseteq usedTasks
  /\ scanned \in BOOLEAN
  /\ \A t \in CronTask : runs[t] \in Nat
  /\ awake \subseteq tasks

(* The runner runs a task at most once for each of its slots: not twice     *)
(* when scans, triggers and edits of the schedule meet, and for all the     *)
(* slots it missed while it was disabled, once.                             *)
OncePerSlot == \A t \in CronTask : runs[t] <= 1

(* NextRun, unless it has passed, is the next slot of the schedule the task *)
(* has, after any of the steps that write one of the two.                   *)
NextRunMatches == \A t \in tasks : left[t] > 0 => left[t] = NextRun(schedule[t])

(* "StartCronRunner fires due scheduled tasks." (cron_runner.go:12): each   *)
(* slot of a task that stays enabled is run by the runner.                  *)
DueTasksFired == scanned /\ batch = {} => swallowed \cap awake = {}
=============================================================================
