----------------------------- MODULE TaskStore -----------------------------
(* The in-memory queue behind the generic agent task channel:               *)
(* backend/internal/database/task_store.go.  Every operation runs under the *)
(* store's mutex, so each is one step.                                      *)
(*                                                                          *)
(* Tasks are numbered in creation order, which is the order of CreatedAt: a *)
(* task gets its id and its creation time inside the lock.  Ids are never   *)
(* reused (they are fresh UUIDs), so a number at most `created' whose task  *)
(* is "absent" names a task the store has dropped.                          *)
EXTENDS Integers, FiniteSets

CONSTANTS ServerID,           \* ids of the monitored servers
          NoServer,           \* the owner of a task not created yet
          MaxTasks,           \* bound of the model: tasks created in a behaviour
          MaxTasksPerServer   \* the store's cap (100 in the code)

ASSUME MaxTasksAssumption == MaxTasks \in Nat
ASSUME NoServerAssumption == NoServer \notin ServerID
ASSUME CapAssumption == MaxTasksPerServer \in Nat \ {0}

VARIABLES taskStatus,   \* status of each task, "absent" when not in the map
          owner,        \* the server each created task is for
          created,      \* how many tasks were ever created
          boot          \* how many of them before the process last started

tsVars == <<taskStatus, owner, created, boot>>

Task == 1..MaxTasks
Unfinished == {"pending", "dispatched"}
Done == {"success", "failed"}

(* The tasks of server s in a store whose statuses are st.                  *)
StoredFor(st, ow, s) == {t \in Task : st[t] # "absent" /\ ow[t] = s}

Stored(s) == StoredFor(taskStatus, owner, s)

(* Mutants of Prunable: one task too many, no look at the status, and only  *)
(* the youngest of the candidates.                                          *)
PrunableOneTooMany(st, ow, s) ==
  {t \in StoredFor(st, ow, s) :
     /\ st[t] \in Done
     /\ Cardinality({u \in StoredFor(st, ow, s) : u >= t}) >= MaxTasksPerServer}

PrunableAnyStatus(st, ow, s) ==
  {t \in StoredFor(st, ow, s) :
     Cardinality({u \in StoredFor(st, ow, s) : u > t}) >= MaxTasksPerServer}

PrunableYoungestOnly(st, ow, s) ==
  LET old == {t \in PrunableAnyStatus(st, ow, s) : st[t] \in Done}
  IN {t \in old : \A u \in old : u <= t}

(* pruneLocked sorts the server's tasks by age and looks at all but the     *)
(* newest MaxTasksPerServer; of those it drops the completed ones.          *)
Prunable(st, ow, s) ==
  {t \in StoredFor(st, ow, s) :
     /\ st[t] \in Done
     /\ Cardinality({u \in StoredFor(st, ow, s) : u > t}) >= MaxTasksPerServer}

(* Mutants of PendingFor: a task that was handed out and not answered yet   *)
(* is handed out again; nothing is handed out while one is unanswered.      *)
UnfinishedFor(s) == {t \in Stored(s) : taskStatus[t] \in Unfinished}

PendingUnlessBusy(s) ==
  IF \E t \in Stored(s) : taskStatus[t] = "dispatched" THEN {}
  ELSE {t \in Stored(s) : taskStatus[t] = "pending"}

(* What ClaimPending hands to the agent of server s.                        *)
PendingFor(s) == {t \in Stored(s) : taskStatus[t] = "pending"}

TSInit ==
  /\ taskStatus = [t \in Task |-> "absent"]
  /\ owner = [t \in Task |-> NoServer]
  /\ created = 0
  /\ boot = 0

Enqueue(s) ==
  /\ created < MaxTasks
  /\ created' = created + 1
  /\ owner' = [owner EXCEPT ![created + 1] = s]
  /\ LET st == [taskStatus EXCEPT ![created + 1] = "pending"] IN
       taskStatus' = [t \in Task |->
                        IF t \in Prunable(st, owner', s) THEN "absent" ELSE st[t]]
  /\ UNCHANGED boot

ClaimPending(s) ==
  /\ taskStatus' = [t \in Task |->
                      IF t \in PendingFor(s) THEN "dispatched" ELSE taskStatus[t]]
  /\ UNCHANGED <<owner, created, boot>>

(* Mutant of SetResult: the reported status is stored as it came.           *)
SetResultVerbatim(t, reported) ==
  /\ taskStatus[t] # "absent"
  /\ taskStatus' = [taskStatus EXCEPT ![t] = reported]
  /\ UNCHANGED <<owner, created, boot>>

(* The reported status is "success" or anything else, which is stored as    *)
(* "failed"; the store checks neither who reports nor the status it has.    *)
SetResult(t, reported) ==
  /\ taskStatus[t] # "absent"
  /\ taskStatus' = [taskStatus EXCEPT ![t] =
                      IF reported = "success" THEN "success" ELSE "failed"]
  /\ UNCHANGED <<owner, created, boot>>

(* The process starts again: nothing is persisted.                          *)
InitTaskStore ==
  /\ taskStatus' = [t \in Task |-> "absent"]
  /\ boot' = created
  /\ UNCHANGED <<owner, created>>

TSNext ==
  \/ \E s \in ServerID : Enqueue(s)
  \/ \E s \in ServerID : ClaimPending(s)
  \/ \E t \in Task, reported \in {"success", "failed", "other"} : SetResult(t, reported)
  \/ InitTaskStore

TSSpec == TSInit /\ [][TSNext]_tsVars

-----------------------------------------------------------------------------
TSTypeOK ==
  /\ taskStatus \in [Task -> Unfinished \cup Done \cup {"absent"}]
  /\ owner \in [Task -> ServerID \cup {NoServer}]
  /\ created \in 0..MaxTasks
  /\ boot \in 0..created
  /\ \A t \in Task : t <= created <=> owner[t] \in ServerID
  /\ \A t \in Task : taskStatus[t] # "absent" => t > boot /\ t <= created

(* While the process runs, a task only moves forward: no step makes a       *)
(* claimed or finished task pending again (ClaimPending would hand it out a *)
(* second time), a finished one unfinished, or brings a dropped one back;   *)
(* and no step drops a task whose result is still to come.                  *)
LifecycleStep ==
  \A t \in 1..created :
    /\ taskStatus'[t] = "pending" => taskStatus[t] = "pending"
    /\ taskStatus'[t] = "dispatched" => taskStatus[t] \in Unfinished
    /\ taskStatus[t] = "absent" => taskStatus'[t] = "absent"
    /\ taskStatus[t] \in Unfinished /\ taskStatus'[t] = "absent" => boot' # boot
TaskLifecycle == [][LifecycleStep]_tsVars

(* Pruning never reaches the newest MaxTasksPerServer tasks of a server,    *)
(* whatever mixture of finished and unfinished tasks has piled up.          *)
RetentionWindow ==
  \A t \in Task :
    /\ t > boot /\ t <= created
    /\ Cardinality({u \in 1..created : u > t /\ owner[u] = owner[t]}) < MaxTasksPerServer
    => taskStatus[t] # "absent"

(* "oldest completed dropped first" (task_store.go:118): once Enqueue has   *)
(* pruned, no completed task is kept that is older than a dropped one.      *)
DropsOldestStep ==
  created' # created =>
    \A t, u \in (boot' + 1)..created :
      /\ owner[t] = owner'[created'] /\ owner[u] = owner[t]
      /\ t < u /\ taskStatus'[u] = "absent"
      => taskStatus'[t] \notin Done
DropsOldestFirst == [][DropsOldestStep]_tsVars
=============================================================================
