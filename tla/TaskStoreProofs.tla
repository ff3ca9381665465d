-------------------------- MODULE TaskStoreProofs --------------------------
(* Theorems about TaskStore, for every set of servers, every cap and every  *)
(* number of tasks.                                                         *)
EXTENDS TaskStore, FiniteSetTheorems, WellFoundedInduction, TLAPS

USE MaxTasksAssumption, NoServerAssumption, CapAssumption

(* What each operation does to the store, as the other proofs use it.       *)
LEMMA EnqueueEffect ==
  ASSUME TSTypeOK, NEW s \in ServerID, Enqueue(s)
  PROVE  /\ created' = created + 1 /\ created' \in Task /\ boot' = boot
         /\ owner' = [owner EXCEPT ![created'] = s]
         /\ taskStatus[created'] = "absent" /\ taskStatus'[created'] = "pending"
         /\ \A t \in Task \ {created'} :
              \/ taskStatus'[t] = taskStatus[t]
              \/ taskStatus[t] \in Done /\ taskStatus'[t] = "absent"
         /\ TSTypeOK'
<1> USE DEF TSTypeOK, Task, Unfinished, Done
<1>1. created' = created + 1 /\ created' \in Task /\ created \in Nat /\ boot' = boot
  BY DEF Enqueue
<1>2. owner' = [owner EXCEPT ![created'] = s] /\ taskStatus[created'] = "absent"
  BY <1>1 DEF Enqueue
<1>3. /\ taskStatus' \in [Task -> Unfinished \cup Done \cup {"absent"}]
      /\ taskStatus'[created'] = "pending"
  BY <1>1 DEF Enqueue, Prunable, StoredFor
<1>4. \A t \in Task \ {created'} :
        \/ taskStatus'[t] = taskStatus[t]
        \/ taskStatus[t] \in Done /\ taskStatus'[t] = "absent"
  BY <1>1 DEF Enqueue, Prunable, StoredFor
<1>5. TSTypeOK'
  BY <1>1, <1>2, <1>3, <1>4
<1>6. QED
  BY <1>1, <1>2, <1>3, <1>4, <1>5

LEMMA ClaimEffect ==
  ASSUME TSTypeOK, NEW s \in ServerID, ClaimPending(s)
  PROVE  /\ UNCHANGED <<owner, created, boot>>
         /\ PendingFor(s) = {t \in Task : taskStatus[t] = "pending" /\ owner[t] = s}
         /\ \A t \in Task : taskStatus'[t] = IF t \in PendingFor(s) THEN "dispatched"
                                              ELSE taskStatus[t]
         /\ TSTypeOK'
  BY DEF TSTypeOK, Task, Unfinished, Done, ClaimPending, PendingFor, Stored, StoredFor

LEMMA ResultEffect ==
  ASSUME TSTypeOK, NEW t \in Task, NEW r, SetResult(t, r)
  PROVE  /\ UNCHANGED <<owner, created, boot>>
         /\ taskStatus[t] # "absent"
         /\ taskStatus'[t] = IF r = "success" THEN "success" ELSE "failed"
         /\ \A u \in Task \ {t} : taskStatus'[u] = taskStatus[u]
         /\ TSTypeOK'
  BY DEF TSTypeOK, Task, Unfinished, Done, SetResult

LEMMA RestartEffect ==
  ASSUME TSTypeOK, InitTaskStore
  PROVE  /\ UNCHANGED <<owner, created>>
         /\ \A t \in Task : taskStatus'[t] = "absent"
         /\ TSTypeOK'
  BY DEF TSTypeOK, Task, Unfinished, Done, InitTaskStore

(* Every operation of the store keeps the types of its state, and the store *)
(* never holds a task that was not created since the process started.       *)
THEOREM TSTypeCorrect == TSSpec => []TSTypeOK
<1>1. TSInit => TSTypeOK
  BY DEF TSInit, TSTypeOK, Task, Unfinished, Done
<1>2. TSTypeOK /\ [TSNext]_tsVars => TSTypeOK'
  <2> SUFFICES ASSUME TSTypeOK, [TSNext]_tsVars PROVE TSTypeOK'
    OBVIOUS
  <2>1. ASSUME NEW s \in ServerID, Enqueue(s) PROVE TSTypeOK'
    BY <2>1, EnqueueEffect
  <2>2. ASSUME NEW s \in ServerID, ClaimPending(s) PROVE TSTypeOK'
    BY <2>2, ClaimEffect
  <2>3. ASSUME NEW t \in Task, NEW r, SetResult(t, r) PROVE TSTypeOK'
    BY <2>3, ResultEffect
  <2>4. CASE InitTaskStore
    BY <2>4, RestartEffect
  <2>5. CASE UNCHANGED tsVars
    BY <2>5 DEF tsVars, TSTypeOK
  <2>6. QED
    BY <2>1, <2>2, <2>3, <2>4, <2>5 DEF TSNext
<1>3. QED
  BY <1>1, <1>2, PTL DEF TSSpec

-----------------------------------------------------------------------------
(* The tasks of a store are finitely many, and so is every part of them.    *)
LEMMA TaskSetsFinite ==
  ASSUME NEW S, S \subseteq Task
  PROVE  IsFiniteSet(S) /\ Cardinality(S) \in Nat
<1>1. IsFiniteSet(Task)
  BY FS_Interval DEF Task
<1>2. IsFiniteSet(S)
  BY <1>1, FS_Subset
<1>3. QED
  BY <1>2, FS_CardinalityType

(* A part has at most as many tasks as the whole.                           *)
LEMMA TaskSetsMonotone ==
  ASSUME NEW S, NEW T, S \subseteq Task, T \subseteq S
  PROVE  Cardinality(T) <= Cardinality(S)
  BY TaskSetsFinite, FS_Subset

(* A non-empty set of tasks has an oldest and a youngest one.               *)
LEMMA OldestTask ==
  ASSUME NEW S, S \subseteq Task, S # {}
  PROVE  \E t \in S : \A u \in S : t <= u
<1> DEFINE R == {p \in Nat \X Nat : p[1] < p[2]}
<1>1. IsWellFoundedOn(R, Nat)
  BY NatLessThanWellFounded DEF OpToRel
<1>2. S \subseteq Nat
  BY DEF Task
<1>3. PICK t \in S : \A u \in S : <<u, t>> \notin R
  <2> HIDE DEF R
  <2> QED BY <1>1, <1>2, WFMin
<1>4. ASSUME NEW u \in S PROVE t <= u
  <2>1. <<u, t>> \in Nat \X Nat
    BY <1>2
  <2>2. ~ (u < t)
    BY <1>3, <2>1
  <2>3. QED
    BY <1>2, <2>2
<1>5. QED
  BY <1>4

LEMMA YoungestTask ==
  ASSUME NEW S, S \subseteq Task, S # {}
  PROVE  \E t \in S : \A u \in S : u <= t
<1> DEFINE Mirror == {n \in Task : MaxTasks + 1 - n \in S}
<1>1. Mirror \subseteq Task
  OBVIOUS
<1>2. \A s \in S : MaxTasks + 1 - s \in Mirror
  BY DEF Task
<1>3. Mirror # {}
  BY <1>2
<1>4. PICK m \in Mirror : \A n \in Mirror : m <= n
  <2> HIDE DEF Mirror
  <2> QED
    BY <1>1, <1>3, OldestTask
<1>5. MaxTasks + 1 - m \in S /\ \A u \in S : u <= MaxTasks + 1 - m
  BY <1>2, <1>4 DEF Task
<1>6. QED
  BY <1>5

-----------------------------------------------------------------------------
(* No step of the store touches the newest MaxTasksPerServer tasks of a     *)
(* server: a task that is pruned has at least that many younger ones in the *)
(* store, and all of those were created.                                    *)
THEOREM Retention == TSSpec => []RetentionWindow
<1>1. TSInit => RetentionWindow
  BY DEF TSInit, RetentionWindow, Task
<1>2. TSTypeOK /\ RetentionWindow /\ [TSNext]_tsVars => RetentionWindow'
  <2> SUFFICES ASSUME TSTypeOK, RetentionWindow, [TSNext]_tsVars,
                      NEW t \in Task,
                      t > boot', t <= created',
                      Cardinality({u \in 1..created' : u > t /\ owner'[u] = owner'[t]})
                        < MaxTasksPerServer
               PROVE  taskStatus'[t] # "absent"
    BY DEF RetentionWindow
  <2> DEFINE Newer == {u \in 1..created : u > t /\ owner[u] = owner[t]}
             NewerNow == {u \in 1..created' : u > t /\ owner'[u] = owner'[t]}
  <2>1. ASSUME NEW s \in ServerID, Enqueue(s) PROVE taskStatus'[t] # "absent"
    <3> DEFINE st == [taskStatus EXCEPT ![created + 1] = "pending"]
               Above == {u \in StoredFor(st, owner', s) : u > t}
    <3>1. created + 1 \in Task /\ created' = created + 1 /\ NewerNow \subseteq Task
      BY <2>1 DEF Enqueue, TSTypeOK, Task
    <3>2. st[t] # "absent"
      <4>1. CASE t = created + 1
        BY <4>1, <3>1 DEF TSTypeOK
      <4>2. CASE t # created + 1
        <5>1. t <= created /\ t > boot
          BY <4>2, <2>1 DEF Enqueue, TSTypeOK, Task
        <5>2. Newer \subseteq NewerNow
          BY <5>1, <2>1 DEF Enqueue, TSTypeOK, Task
        <5>3. Cardinality(Newer) < MaxTasksPerServer
          <6>1. Cardinality(Newer) <= Cardinality(NewerNow)
            <7> HIDE DEF Newer, NewerNow
            <7> QED BY <3>1, <5>2, TaskSetsMonotone
          <6>2. Newer \subseteq Task
            BY <5>2, <3>1
          <6>3. Cardinality(Newer) \in Nat /\ Cardinality(NewerNow) \in Nat
            <7> HIDE DEF Newer, NewerNow
            <7> QED BY <6>2, <3>1, TaskSetsFinite
          <6>4. QED
            BY <6>1, <6>3
        <5>4. taskStatus[t] # "absent"
          BY <5>1, <5>3 DEF RetentionWindow
        <5>5. QED
          BY <5>4, <4>2 DEF TSTypeOK
      <4>3. QED
        BY <4>1, <4>2
    <3>3. t \notin Prunable(st, owner', s)
      <4> SUFFICES ASSUME t \in Prunable(st, owner', s) PROVE FALSE
        OBVIOUS
      <4>1. owner'[t] = s /\ Cardinality(Above) >= MaxTasksPerServer
        BY DEF Prunable, StoredFor
      <4>2. Above \subseteq NewerNow
        BY <4>1, <2>1 DEF StoredFor, Enqueue, TSTypeOK, Task
      <4>3. Cardinality(Above) <= Cardinality(NewerNow)
        <5> HIDE DEF Above, NewerNow
        <5> QED BY <3>1, <4>2, TaskSetsMonotone
      <4>4. Cardinality(Above) \in Nat /\ Cardinality(NewerNow) \in Nat
        <5> HIDE DEF Above, NewerNow
        <5> QED BY <3>1, <4>2, TaskSetsFinite
      <4>5. QED
        BY <4>1, <4>3, <4>4
    <3>4. taskStatus'[t] = st[t]
      BY <2>1, <3>3 DEF Enqueue
    <3>5. QED
      BY <3>2, <3>4
  <2>2. ASSUME UNCHANGED <<owner, created, boot>>,
               taskStatus[t] # "absent" => taskStatus'[t] # "absent"
        PROVE  taskStatus'[t] # "absent"
    <3>1. taskStatus[t] # "absent"
      BY <2>2 DEF RetentionWindow
    <3>2. QED
      BY <2>2, <3>1
  <2>3. ASSUME NEW s \in ServerID, ClaimPending(s) PROVE taskStatus'[t] # "absent"
    BY <2>3, <2>2 DEF ClaimPending
  <2>4. ASSUME NEW t0 \in Task, NEW r, SetResult(t0, r) PROVE taskStatus'[t] # "absent"
    BY <2>4, <2>2 DEF SetResult, TSTypeOK
  <2>5. ASSUME InitTaskStore PROVE taskStatus'[t] # "absent"
    BY <2>5 DEF InitTaskStore, TSTypeOK, Task
  <2>6. CASE UNCHANGED tsVars
    BY <2>6, <2>2 DEF tsVars
  <2>7. QED
    BY <2>1, <2>3, <2>4, <2>5, <2>6 DEF TSNext
<1>3. QED
  BY <1>1, <1>2, TSTypeCorrect, PTL DEF TSSpec

-----------------------------------------------------------------------------
(* Between starts of the process a task only moves forward and none is      *)
(* dropped before its result arrived, whoever calls the store and in        *)
(* whatever order.                                                          *)
THEOREM Lifecycle == TSSpec => TaskLifecycle
<1>1. TSTypeOK /\ [TSNext]_tsVars => [LifecycleStep]_tsVars
  <2> SUFFICES ASSUME TSTypeOK, TSNext PROVE LifecycleStep
    BY DEF tsVars
  <2> USE DEF TSTypeOK, LifecycleStep, Task, Unfinished, Done
  <2>1. ASSUME NEW s \in ServerID, Enqueue(s) PROVE LifecycleStep
    BY <2>1 DEF Enqueue, Prunable, StoredFor
  <2>2. ASSUME NEW s \in ServerID, ClaimPending(s) PROVE LifecycleStep
    BY <2>2 DEF ClaimPending, PendingFor, Stored, StoredFor
  <2>3. ASSUME NEW t \in Task, NEW r, SetResult(t, r) PROVE LifecycleStep
    BY <2>3 DEF SetResult
  <2>4. ASSUME InitTaskStore PROVE LifecycleStep
    <3> SUFFICES ASSUME NEW t \in 1..created
                 PROVE /\ taskStatus'[t] = "absent"
                       /\ taskStatus[t] \in Unfinished => boot' # boot
      BY DEF LifecycleStep
    <3> QED
      BY <2>4 DEF InitTaskStore
  <2>5. QED
    BY <2>1, <2>2, <2>3, <2>4 DEF TSNext
<1>2. QED
  BY <1>1, TSTypeCorrect, PTL DEF TSSpec, TaskLifecycle

(* Pruning drops the oldest completed tasks first: after an Enqueue, a      *)
(* completed task older than a dropped one has, like that one, a full       *)
(* window of younger tasks in the store, so the same call dropped it.       *)
THEOREM OldestFirst == TSSpec => DropsOldestFirst
<1>1. /\ TSTypeOK /\ TSTypeOK' /\ RetentionWindow'
      /\ [TSNext]_tsVars
      => [DropsOldestStep]_tsVars
  <2> SUFFICES ASSUME TSTypeOK, TSTypeOK', RetentionWindow', TSNext, created' # created,
                      NEW t \in (boot' + 1)..created, NEW u \in (boot' + 1)..created,
                      owner[t] = owner'[created'], owner[u] = owner[t],
                      t < u, taskStatus'[u] = "absent",
                      taskStatus'[t] \in Done
               PROVE  FALSE
    BY DEF tsVars, DropsOldestStep
  <2>1. PICK s \in ServerID : Enqueue(s)
    BY DEF TSNext, ClaimPending, SetResult, InitTaskStore
  <2> DEFINE st == [taskStatus EXCEPT ![created + 1] = "pending"]
             Gone == {v \in Task : v <= created /\ v >= u /\ owner[v] = s
                                     /\ taskStatus'[v] = "absent"}
             Kept(v) == {w \in 1..created' : w > v /\ owner'[w] = owner'[v]}
             Above == {w \in StoredFor(st, owner', s) : w > t}
  <2>2. /\ created' = created + 1 /\ created' \in Task
        /\ owner'[created'] = s /\ owner[t] = s /\ owner[u] = s
        /\ boot' = boot /\ boot \in Nat /\ created \in Nat
        /\ t \in Task /\ u \in Task
        /\ \A v \in 1..created : v \in Task /\ owner'[v] = owner[v]
    BY <2>1 DEF Enqueue, TSTypeOK, Task
  <2>3. u \in Gone /\ Gone \subseteq Task
    BY <2>2 DEF Task
  <2>4. PICK v \in Gone : \A w \in Gone : w <= v
    <3> HIDE DEF Gone
    <3> QED BY <2>3, YoungestTask
  <2>5. /\ v \in Task /\ v \in 1..created /\ owner'[v] = s
        /\ taskStatus'[v] = "absent" /\ v > boot' /\ v <= created' /\ v > t
    <3>1. v \in Task /\ v <= created /\ v >= u /\ owner[v] = s /\ taskStatus'[v] = "absent"
      BY <2>4
    <3>2. v \in 1..created /\ v > boot' /\ v <= created' /\ v > t
      BY <2>2, <3>1 DEF Task
    <3>3. QED
      BY <2>2, <3>1, <3>2
  <2>6. ~ (Cardinality(Kept(v)) < MaxTasksPerServer)
    BY <2>5 DEF RetentionWindow
  <2>7. Kept(v) \subseteq Above
    <3> SUFFICES ASSUME NEW w \in 1..created', w > v, owner'[w] = owner'[v]
                 PROVE  w \in Above
      OBVIOUS
    <3>1. w \in Task /\ owner'[w] = s /\ w > t
      BY <2>2, <2>5 DEF Task
    <3>2. taskStatus'[w] # "absent"
      <4>1. CASE w = created'
        BY <4>1, <2>1, <2>2 DEF Enqueue, Prunable, StoredFor, TSTypeOK, Done
      <4>2. CASE w # created'
        <5>1. w \in 1..created /\ w >= u /\ owner[w] = s
          BY <4>2, <3>1, <2>2, <2>4, <2>5 DEF Task
        <5>2. w \notin Gone
          BY <2>4, <2>5, <3>1 DEF Task
        <5>3. QED
          BY <3>1, <5>1, <5>2
      <4>3. QED
        BY <4>1, <4>2
    <3>3. st[w] # "absent"
      BY <2>1, <3>1, <3>2 DEF Enqueue
    <3>4. QED
      BY <3>1, <3>3 DEF StoredFor
  <2>8. Above \subseteq Task /\ Kept(v) \subseteq Task
    BY <2>7 DEF StoredFor
  <2>9. Cardinality(Above) >= MaxTasksPerServer
    <3> HIDE DEF Above, Kept
    <3>1. Cardinality(Kept(v)) <= Cardinality(Above)
      BY <2>7, <2>8, TaskSetsMonotone
    <3>2. Cardinality(Kept(v)) \in Nat /\ Cardinality(Above) \in Nat
      BY <2>8, TaskSetsFinite
    <3>3. QED
      BY <2>6, <3>1, <3>2
  <2>10. taskStatus'[t] = st[t] /\ t \in StoredFor(st, owner', s)
    BY <2>1, <2>2 DEF Enqueue, StoredFor, Done
  <2>11. t \in Prunable(st, owner', s)
    BY <2>9, <2>10 DEF Prunable
  <2>12. taskStatus'[t] = "absent"
    BY <2>1, <2>2, <2>11 DEF Enqueue
  <2>13. QED
    BY <2>12 DEF Done
<1>2. QED
  BY <1>1, TSTypeCorrect, Retention, PTL DEF TSSpec, DropsOldestFirst
=============================================================================
