---------------------------- MODULE LoopsProofs -----------------------------
(* Theorems about the panel's loops: the runner of scheduled tasks          *)
(* (CronScheduler), the broadcaster (LiveDashboard), the simulator          *)
(* (Telemetry) and the evaluator (AlertEngine), for any numbers of tasks,   *)
(* connections, servers and rules, any periods, cooldowns and limits.       *)
EXTENDS MCLoops, TLAPS

(* Scheduled tasks: a task comes to be due exactly at a slot, and is run    *)
(* before the next one is ahead.                                            *)
CRTyped ==
  /\ tasks \subseteq usedTasks /\ usedTasks \subseteq CronTask
  /\ schedule \in [CronTask -> Periods \cup {NoSchedule}]
  /\ left \in [CronTask -> Int] /\ runs \in [CronTask -> Nat]
  /\ time \in 0..(Cycle - 1) /\ batch \subseteq usedTasks

(* A task that is due, or that the runner has taken as due, has not been    *)
(* run for its slot.                                                        *)
DueNotRun == \A t \in tasks : left[t] <= 0 => runs[t] = 0
TakenNotRun == \A t \in batch : runs[t] = 0

CRInv == CRTyped /\ NextRunMatches /\ DueNotRun /\ TakenNotRun /\ OncePerSlot

LEMMA RemainderNext ==
  ASSUME NEW p \in Nat \ {0}, NEW n \in Nat
  PROVE  /\ (n % p) \in 0..(p - 1)
         /\ (n % p) < p - 1 => ((n + 1) % p) = (n % p) + 1
         /\ (n % p) = p - 1 => ((n + 1) % p) = 0
<1> DEFINE q == n \div p
           r == n % p
<1>1. q \in Int /\ n = (p * q) + r /\ r \in 0..(p - 1)
  OBVIOUS
<1>2. ASSUME NEW m \in Nat, NEW k \in Int, NEW i \in 0..(p - 1), m = (p * k) + i
      PROVE  (m % p) = i
  BY <1>2
<1> HIDE DEF q, r
<1>3. CASE r < p - 1
  <2>1. n + 1 = (p * q) + (r + 1) /\ r + 1 \in 0..(p - 1)
    BY <1>1, <1>3
  <2>2. ((n + 1) % p) = r + 1
    BY <1>1, <1>2, <2>1
  <2> QED
    BY <1>1, <1>3, <2>2 DEF r
<1>4. CASE r = p - 1
  <2>1. n + 1 = (p * (q + 1)) + 0
    BY <1>1, <1>4
  <2>2. ((n + 1) % p) = 0
    BY <1>1, <1>2, <2>1
  <2> QED
    BY <1>1, <1>4, <2>2 DEF r
<1> QED
  BY <1>1, <1>3, <1>4 DEF r

LEMMA TimeNext ==
  ASSUME time \in 0..(Cycle - 1), time' = (time + 1) % Cycle
  PROVE  /\ time' \in 0..(Cycle - 1)
         /\ \A p \in Periods :
              /\ (time % p) \in 0..(p - 1)
              /\ (time % p) < p - 1 => (time' % p) = (time % p) + 1
              /\ (time % p) = p - 1 => (time' % p) = 0
<1>1. Cycle \in Nat \ {0} /\ Periods \subseteq Nat \ {0} /\ time \in Nat
  BY PeriodsAssumption
<1>2. CASE time + 1 < Cycle
  <2>1. time' = time + 1
    BY <1>1, <1>2
  <2>2. ASSUME NEW p \in Periods
        PROVE  /\ (time % p) \in 0..(p - 1)
               /\ (time % p) < p - 1 => (time' % p) = (time % p) + 1
               /\ (time % p) = p - 1 => (time' % p) = 0
    BY <1>1, <2>1, RemainderNext
  <2> QED
    BY <1>1, <1>2, <2>1, <2>2
<1>3. CASE time + 1 = Cycle
  <2>1. time' = 0
    BY <1>1, <1>3, RemainderNext
  <2>2. ASSUME NEW p \in Periods
        PROVE  /\ (time % p) \in 0..(p - 1) /\ (time' % p) = 0
               /\ ~((time % p) < p - 1)
    <3>1. p \in Nat \ {0} /\ ((time + 1) % p) = 0
      BY <1>1, <1>3, PeriodsAssumption
    <3>2. (time % p) \in 0..(p - 1) /\ ((time % p) < p - 1 => ((time + 1) % p) = (time % p) + 1)
      BY <1>1, <3>1, RemainderNext
    <3>3. (0 % p) = 0
      BY <3>1
    <3> QED
      BY <2>1, <3>1, <3>2, <3>3
  <2> QED
    BY <1>1, <2>1, <2>2
<1> QED
  BY <1>1, <1>2, <1>3

LEMMA NextRunAhead ==
  ASSUME time \in 0..(Cycle - 1), NEW p \in Periods \cup {NoSchedule}
  PROVE  NextRun(p) \in Int /\ NextRun(p) > 0
<1>1. CASE p = NoSchedule
  BY <1>1, PeriodsAssumption DEF NextRun, Never
<1>2. CASE p # NoSchedule
  <2>1. p \in Nat \ {0} /\ time \in Nat
    BY <1>2, PeriodsAssumption
  <2>2. (time % p) \in 0..(p - 1)
    BY <2>1, RemainderNext
  <2> QED
    BY <1>2, <2>1, <2>2 DEF NextRun
<1> QED
  BY <1>1, <1>2

-----------------------------------------------------------------------------
LEMMA CRInitInv == CRInit => CRInv
BY PeriodsAssumption DEF CRInit, CRInv, CRTyped, NextRunMatches, DueNotRun, TakenNotRun, OncePerSlot, Never

(* NextRun is computed anew for one task, whose schedule it is from now on. *)
LEMMA Rescheduled ==
  ASSUME CRInv, NEW t \in CronTask, NEW p \in Periods \cup {NoSchedule},
         schedule' = [schedule EXCEPT ![t] = p], left' = [left EXCEPT ![t] = NextRun(p)],
         tasks' \in {tasks, tasks \cup {t}}, usedTasks' \in {usedTasks, usedTasks \cup {t}},
         tasks' \subseteq usedTasks', UNCHANGED <<time, batch, runs>>
  PROVE  CRInv'
<1>1. NextRun(p) \in Int /\ NextRun(p) > 0
  BY NextRunAhead DEF CRInv, CRTyped
<1>2. CRTyped'
  BY <1>1 DEF CRInv, CRTyped
<1>3. NextRunMatches'
  BY DEF CRInv, CRTyped, NextRunMatches, NextRun
<1>4. DueNotRun'
  BY <1>1 DEF CRInv, CRTyped, DueNotRun
<1> QED
  BY <1>2, <1>3, <1>4 DEF CRInv, TakenNotRun, OncePerSlot

LEMMA AdminStep ==
  ASSUME CRInv, NEW t \in CronTask, NEW p \in Periods \cup {NoSchedule},
         Create(t, p) \/ SetSchedule(t, p)
  PROVE  CRInv'
<1>1. CASE Create(t, p)
  BY <1>1, Rescheduled DEF Create, runnerVars, historyVars, CRInv, CRTyped
<1>2. CASE SetSchedule(t, p)
  BY <1>2, Rescheduled DEF SetSchedule, runnerVars, CRInv, CRTyped
<1> QED
  BY <1>1, <1>2

(* Fewer tasks, nothing else of what the invariant is about.                *)
LEMMA CRAtRest ==
  ASSUME CRInv, tasks' \subseteq tasks, UNCHANGED <<usedTasks, schedule, left, runs, time, batch>>
  PROVE  CRInv'
<1>1. CRTyped'
  BY DEF CRInv, CRTyped
<1>2. NextRunMatches'
  BY DEF CRInv, NextRunMatches, NextRun
<1>3. DueNotRun' /\ TakenNotRun' /\ OncePerSlot'
  BY DEF CRInv, DueNotRun, TakenNotRun, OncePerSlot
<1> QED
  BY <1>1, <1>2, <1>3 DEF CRInv

(* The runner takes the tasks that are due.                                 *)
LEMMA DueTasksStep == ASSUME CRInv, DueTasks PROVE CRInv'
<1>1. /\ batch' = {t \in CronTask : Due(t)}
      /\ UNCHANGED <<tasks, usedTasks, schedule, left, runs, time>>
  BY DEF DueTasks, cronVars, historyVars
<1>2. batch' \subseteq tasks /\ \A t \in batch' : left[t] <= 0
  BY <1>1 DEF Due
<1>3. CRTyped'
  BY <1>1, <1>2 DEF CRInv, CRTyped
<1>4. NextRunMatches'
  BY <1>1 DEF CRInv, NextRunMatches, NextRun
<1>5. DueNotRun' /\ TakenNotRun' /\ OncePerSlot'
  BY <1>1, <1>2 DEF CRInv, DueNotRun, TakenNotRun, OncePerSlot
<1> QED
  BY <1>3, <1>4, <1>5 DEF CRInv

(* A run is recorded: the slot is done with, the next is ahead.             *)
LEMMA RecordMatches ==
  ASSUME CRInv, NEW t \in CronTask, NEW manual, RecordExecution(t, manual), UNCHANGED time
  PROVE  /\ left' \in [CronTask -> Int] /\ NextRunMatches'
         /\ t \in tasks => left'[t] > 0
         /\ \A u \in CronTask : u # t => left'[u] = left[u]
         /\ UNCHANGED <<tasks, usedTasks, schedule>>
<1>1. /\ left' = IF t \in tasks THEN [left EXCEPT ![t] = NextRun(schedule[t])] ELSE left
      /\ UNCHANGED <<tasks, usedTasks, schedule>>
  BY DEF RecordExecution
<1>2. NextRun(schedule[t]) \in Int /\ NextRun(schedule[t]) > 0
  BY NextRunAhead DEF CRInv, CRTyped
<1>3. NextRunMatches'
  BY <1>1 DEF CRInv, CRTyped, NextRunMatches, NextRun
<1> QED
  BY <1>1, <1>2, <1>3 DEF CRInv, CRTyped

LEMMA RunTaskStep ==
  ASSUME CRInv, NEW t \in CronTask, RunTask(t)
  PROVE  CRInv'
<1>1. /\ t \in batch /\ batch' = batch \ {t} /\ RecordExecution(t, FALSE)
      /\ runs' = [runs EXCEPT ![t] = runs[t] + 1] /\ UNCHANGED time
  BY DEF RunTask
<1>2. runs[t] = 0
  BY <1>1 DEF CRInv, TakenNotRun
<1>3. /\ left' \in [CronTask -> Int] /\ NextRunMatches'
      /\ t \in tasks => left'[t] > 0
      /\ \A u \in CronTask : u # t => left'[u] = left[u]
      /\ UNCHANGED <<tasks, usedTasks, schedule>>
  BY <1>1, RecordMatches
<1>4. /\ runs' \in [CronTask -> Nat]
      /\ runs'[t] = 1 /\ \A u \in CronTask : u # t => runs'[u] = runs[u]
  <2>1. runs' = [runs EXCEPT ![t] = 1] /\ runs \in [CronTask -> Nat]
    BY <1>1, <1>2 DEF CRInv, CRTyped
  <2> QED
    BY <2>1
<1>5. batch' \subseteq usedTasks /\ UNCHANGED time
  BY <1>1 DEF CRInv, CRTyped
<1>6. CRTyped'
  BY <1>3, <1>4, <1>5 DEF CRInv, CRTyped
<1>7. DueNotRun'
  BY <1>3, <1>4 DEF CRInv, CRTyped, DueNotRun
<1>8. TakenNotRun' /\ OncePerSlot'
  BY <1>1, <1>4 DEF CRInv, CRTyped, TakenNotRun, OncePerSlot
<1> QED
  BY <1>3, <1>6, <1>7, <1>8 DEF CRInv

LEMMA TriggerStep ==
  ASSUME CRInv, NEW t \in CronTask, TriggerRecorded(t)
  PROVE  CRInv'
<1>1. RecordExecution(t, TRUE) /\ UNCHANGED <<time, batch, runs>>
  BY DEF TriggerRecorded, historyVars
<1>2. /\ left' \in [CronTask -> Int] /\ NextRunMatches'
      /\ t \in tasks => left'[t] > 0
      /\ \A u \in CronTask : u # t => left'[u] = left[u]
      /\ UNCHANGED <<tasks, usedTasks, schedule>>
  BY <1>1, RecordMatches
<1>3. CRTyped'
  BY <1>1, <1>2 DEF CRInv, CRTyped
<1>4. DueNotRun'
  BY <1>1, <1>2 DEF CRInv, CRTyped, DueNotRun
<1> QED
  BY <1>1, <1>2, <1>3, <1>4 DEF CRInv, TakenNotRun, OncePerSlot

(* A unit passes: a task comes to be due exactly at a slot of its schedule. *)
LEMMA TickStep == ASSUME CRInv, CronTick PROVE CRInv'
<1>1. /\ batch = {} /\ time' = (time + 1) % Cycle
      /\ left' = [t \in CronTask |-> Later(left[t])]
      /\ runs' = [t \in CronTask |-> IF t \in Slots(time') THEN 0 ELSE runs[t]]
      /\ UNCHANGED <<tasks, usedTasks, schedule, batch>>
  BY DEF CronTick
<1>2. time' \in 0..(Cycle - 1)
  BY <1>1, TimeNext DEF CRInv, CRTyped
<1>3. Cycle \in Nat \ {0} /\ MaxLate \in Nat \ {0, 1} /\ Never = Cycle + 1
  BY PeriodsAssumption, CronLimits DEF Never
<1>4. \A n \in Int : /\ Later(n) \in Int /\ (n <= 0 => Later(n) <= 0)
                     /\ (n > 0 /\ n # Never => Later(n) = n - 1)
  BY <1>3 DEF Later
<1>5. CRTyped'
  BY <1>1, <1>2, <1>4 DEF CRInv, CRTyped
<1>6. ASSUME NEW t \in tasks
      PROVE  /\ left'[t] > 0 => left'[t] = NextRun(schedule[t])'
             /\ left'[t] <= 0 => runs'[t] = 0
  <2>0. t \in CronTask /\ left[t] \in Int /\ runs[t] \in Nat /\ left'[t] = Later(left[t])
    BY <1>1 DEF CRInv, CRTyped
  <2>1. CASE left[t] <= 0
    <3>1. left'[t] <= 0 /\ left'[t] \in Int
      BY <1>4, <2>0, <2>1
    <3>2. runs[t] = 0
      BY <2>1 DEF CRInv, DueNotRun
    <3> QED
      BY <1>1, <2>0, <3>1, <3>2
  <2>2. CASE left[t] > 0 /\ schedule[t] = NoSchedule
    <3>1. left[t] = Never
      BY <2>2 DEF CRInv, NextRunMatches, NextRun
    <3>2. left'[t] = Never /\ schedule'[t] = NoSchedule
      BY <1>1, <2>0, <2>2, <3>1 DEF Later
    <3> QED
      BY <1>3, <3>2 DEF NextRun, Never
  <2>3. CASE left[t] > 0 /\ schedule[t] # NoSchedule
    <3> DEFINE p == schedule[t]
    <3>1. p \in Periods /\ p \in 1..Cycle /\ schedule'[t] = p /\ p # NoSchedule
      BY <1>1, <2>0, <2>3, PeriodsAssumption DEF CRInv, CRTyped
    <3>2. left[t] = p - (time % p)
      BY <2>3 DEF CRInv, NextRunMatches, NextRun
    <3>3. /\ (time % p) \in 0..(p - 1)
          /\ (time % p) < p - 1 => (time' % p) = (time % p) + 1
          /\ (time % p) = p - 1 => (time' % p) = 0
      BY <1>1, <3>1, TimeNext DEF CRInv, CRTyped
    <3>4. left'[t] = left[t] - 1
      BY <1>3, <1>4, <2>0, <2>3, <3>1, <3>2, <3>3
    <3>5. NextRun(schedule[t])' = p - (time' % p)
      BY <3>1 DEF NextRun
    <3>6. (time' % p) = 0 => runs'[t] = 0
      BY <1>1, <2>0, <3>1 DEF Slots
    <3> HIDE DEF p
    <3>7. CASE (time % p) < p - 1
      BY <3>1, <3>2, <3>3, <3>4, <3>5, <3>7
    <3>8. CASE (time % p) = p - 1
      BY <3>1, <3>2, <3>3, <3>4, <3>6, <3>8
    <3> QED
      BY <3>1, <3>3, <3>7, <3>8
  <2> QED
    BY <2>0, <2>1, <2>2, <2>3
<1>7. NextRunMatches' /\ DueNotRun'
  BY <1>1, <1>6 DEF NextRunMatches, DueNotRun
<1>8. TakenNotRun' /\ OncePerSlot'
  BY <1>1 DEF CRInv, CRTyped, TakenNotRun, OncePerSlot
<1> QED
  BY <1>5, <1>7, <1>8 DEF CRInv

LEMMA CRNextInv == ASSUME CRInv, [CRNext]_crVars PROVE CRInv'
<1>1. CASE UNCHANGED crVars
  BY <1>1, CRAtRest DEF crVars, cronVars, runnerVars, historyVars
<1>2. CASE CronAdmin
  <2>1. PICK t \in CronTask :
          \/ \E p \in Periods \cup {NoSchedule} : Create(t, p) \/ SetSchedule(t, p)
          \/ \E b \in BOOLEAN : SetEnabled(t, b)
          \/ Delete(t) \/ TriggerNow(t) \/ TriggerRecorded(t)
    BY <1>2 DEF CronAdmin
  <2>2. CASE \E b \in BOOLEAN : SetEnabled(t, b)
    BY <2>2, CRAtRest DEF SetEnabled, runnerVars
  <2>3. CASE Delete(t) \/ TriggerNow(t)
    BY <2>3, CRAtRest DEF Delete, TriggerNow, cronVars, runnerVars, historyVars
  <2> QED
    BY <2>1, <2>2, <2>3, AdminStep, TriggerStep
<1>3. CASE DueTasks \/ CronTick \/ \E t \in CronTask : RunTask(t)
  BY <1>3, DueTasksStep, TickStep, RunTaskStep
<1> QED
  BY <1>1, <1>2, <1>3 DEF CRNext

(* The runner runs a task at most once for each slot, for any tasks and     *)
(* periods and whatever admins trigger, edit or enable between its scans.   *)
THEOREM CronOncePerSlot == CRSpec => []OncePerSlot
<1>1. CRInv => OncePerSlot
  BY DEF CRInv
<1>2. QED
  BY CRInitInv, CRNextInv, <1>1, PTL DEF CRSpec

(* NextRun of a stored task is, unless it has passed, the next slot of the  *)
(* schedule the task has: RecordExecution and Update leave no stale one.    *)
THEOREM CronNextRunMatches == CRSpec => []NextRunMatches
<1>1. CRInv => NextRunMatches
  BY DEF CRInv
<1>2. QED
  BY CRInitInv, CRNextInv, <1>1, PTL DEF CRSpec

-----------------------------------------------------------------------------
(* Live updates: while a broadcast is under way no connection is removed,   *)
(* so that it sends to clients only, whose channels are open.               *)
LDInv == /\ ~ panicked
         /\ clients \cap closed = {}
         /\ unsent \subseteq clients
         /\ Unlocked => unsent = {}

LEMMA LDInitInv == LDInit => LDInv
BY DEF LDInit, LDInv

LEMMA HubAtRest == ASSUME LDInv, UNCHANGED <<clients, closed, panicked, caster, unsent>> PROVE LDInv'
BY DEF LDInv, Unlocked

(* What the broadcaster does.                                               *)
LEMMA BroadcasterStep == ASSUME LDInv, Broadcaster PROVE LDInv'
<1>1. CASE Prepare \/ NoClients
  <2>1. UNCHANGED <<clients, closed, panicked, unsent>> /\ (Unlocked' <=> Unlocked)
    BY <1>1 DEF Prepare, NoClients, hubVars, castVars, ldVars, Unlocked
  <2> QED
    BY <2>1 DEF LDInv
<1>2. CASE Lock
  BY <1>2 DEF Lock, hubVars, LDInv, Unlocked
<1>3. ASSUME NEW c \in Conn, Send(c) PROVE LDInv'
  BY <1>3 DEF Send, LDInv, Unlocked
<1>4. CASE Unlock
  BY <1>4 DEF Unlock, hubVars, LDInv, Unlocked
<1> QED
  BY <1>1, <1>2, <1>3, <1>4 DEF Broadcaster

(* Both goroutines of a connection may remove it, one after the other.      *)
LEMMA RemoveStep ==
  ASSUME LDInv, NEW c \in Conn, WriterRemoves(c) \/ ReaderRemoves(c)
  PROVE  LDInv'
<1>1. RemoveConn(c) /\ UNCHANGED <<caster, unsent>>
  BY DEF WriterRemoves, ReaderRemoves, castVars
<1>2. Unlocked /\ unsent = {}
  BY <1>1 DEF RemoveConn, LDInv
<1>3. CASE c \in clients
  <2>1. /\ panicked' = (panicked \/ c \in closed)
        /\ closed' = closed \cup {c} /\ clients' = clients \ {c}
    BY <1>1, <1>3 DEF RemoveConn
  <2>2. c \notin closed
    BY <1>3 DEF LDInv
  <2>3. ~ panicked'
    BY <2>1, <2>2 DEF LDInv
  <2> QED
    BY <1>1, <1>2, <2>1, <2>3 DEF LDInv, Unlocked
<1>4. CASE c \notin clients
  <2>1. UNCHANGED <<clients, closed, panicked>>
    BY <1>1, <1>4 DEF RemoveConn
  <2> QED
    BY <1>1, <2>1, HubAtRest
<1> QED
  BY <1>3, <1>4

LEMMA ConnectStep ==
  ASSUME LDInv, NEW p \in Page, NEW c \in Conn, Connect(p, c)
  PROVE  LDInv'
<1>1. /\ Unlocked /\ clients' = clients \cup {c} /\ closed' = closed \ {c}
      /\ UNCHANGED <<panicked, caster, unsent>>
  BY DEF Connect, castVars
<1> QED
  BY <1>1 DEF LDInv, Unlocked

LEMMA LDNextInv == ASSUME LDInv, [LDNext]_ldVars PROVE LDInv'
<1>1. CASE UNCHANGED ldVars
  BY <1>1, HubAtRest DEF ldVars, hubVars, castVars
<1>2. CASE Change
  BY <1>2, HubAtRest DEF Change, hubVars, castVars
<1>3. ASSUME NEW c \in Conn, Writer(c) \/ Reader(c) \/ Break(c) PROVE LDInv'
  <2>1. CASE Take(c) \/ ChannelEnds(c) \/ WriteMessage(c) \/ WriteFails(c)
    BY <2>1, HubAtRest DEF Take, ChannelEnds, WriteMessage, WriteFails, hubVars, castVars
  <2>2. CASE ReadFails(c) \/ WriterCloses(c) \/ ReaderCloses(c) \/ Break(c)
    BY <2>2, HubAtRest DEF ReadFails, WriterCloses, ReaderCloses, Break, hubVars, castVars
  <2> QED
    BY <1>3, <2>1, <2>2, RemoveStep DEF Writer, Reader
<1>4. ASSUME NEW p \in Page, NEW c \in Conn, Connect(p, c) \/ Receive(p, c) PROVE LDInv'
  BY <1>4, ConnectStep, HubAtRest DEF Receive, hubVars, castVars
<1>5. ASSUME NEW p \in Page,
             OpenTab(p) \/ OnClose(p) \/ Reload(p) \/ Answer(p) \/ Seed(p) \/ SeedFails(p)
      PROVE  LDInv'
  BY <1>5, HubAtRest DEF OpenTab, OnClose, Reload, Answer, Seed, SeedFails, hubVars, castVars
<1> QED
  BY <1>1, <1>2, <1>3, <1>4, <1>5, BroadcasterStep DEF LDNext

(* No broadcast sends to a channel that is closed, and none is closed twice *)
(* (Hub.BroadcastJSON, RemoveConn).                                         *)
THEOREM BroadcastSafe == LDSpec => []NoPanic
<1>1. LDInv => NoPanic
  BY DEF LDInv, NoPanic
<1>2. QED
  BY LDInitInv, LDNextInv, <1>1, PTL DEF LDSpec

-----------------------------------------------------------------------------
(* Which connections the hub serves.  What adds one starts its goroutines,  *)
(* and what drops one closes its channel in the same step and goes on to    *)
(* close its socket.                                                        *)
ServedInv ==
  /\ LDInv /\ ClientsServed /\ clients \subseteq Conn
  /\ DOMAIN writer = Conn /\ DOMAIN reader = Conn /\ DOMAIN sock = Conn

LEMMA ServedAtRest ==
  ASSUME ServedInv, LDInv', UNCHANGED <<clients, closed, writer, reader, sock>>
  PROVE  ServedInv'
BY DEF ServedInv, ClientsServed

LEMMA ServedConnects ==
  ASSUME ServedInv, LDInv', NEW p \in Page, NEW c \in Conn, Connect(p, c)
  PROVE  ServedInv'
<1>1. /\ clients' = clients \cup {c} /\ closed' = closed \ {c}
      /\ sock' = [sock EXCEPT ![c] = "open"]
      /\ writer' = [writer EXCEPT ![c] = "take"] /\ reader' = [reader EXCEPT ![c] = "read"]
  BY DEF Connect
<1> QED
  BY <1>1 DEF ServedInv, ClientsServed

LEMMA ServedRemoves ==
  ASSUME ServedInv, LDInv', NEW c \in Conn, WriterRemoves(c) \/ ReaderRemoves(c)
  PROVE  ServedInv'
<1>1. /\ clients' = clients \ {c} /\ sock' = sock
      /\ closed \subseteq closed' /\ (c \in clients => c \in closed')
  BY DEF WriterRemoves, ReaderRemoves, RemoveConn, netVars
<1>2. /\ DOMAIN writer' = Conn /\ DOMAIN reader' = Conn
      /\ \A d \in Conn \ {c} : writer'[d] = writer[d] /\ reader'[d] = reader[d]
      /\ writer[c] = "none" => writer'[c] = "none"
      /\ writer'[c] = "close" \/ reader'[c] = "close"
  BY DEF WriterRemoves, ReaderRemoves, ServedInv
<1> QED
  BY <1>1, <1>2 DEF ServedInv, ClientsServed

(* A goroutine that closes the socket has removed the connection before.    *)
LEMMA ServedCloses ==
  ASSUME ServedInv, LDInv', NEW c \in Conn, WriterCloses(c) \/ ReaderCloses(c)
  PROVE  ServedInv'
<1>1. /\ UNCHANGED <<clients, closed>> /\ c \notin clients
      /\ sock' = [sock EXCEPT ![c] = Shut(c)]
  BY DEF WriterCloses, ReaderCloses, hubVars, ServedInv, ClientsServed
<1>2. /\ DOMAIN writer' = Conn /\ DOMAIN reader' = Conn
      /\ \A d \in Conn \ {c} : writer'[d] = writer[d] /\ reader'[d] = reader[d]
      /\ writer[c] = "none" => writer'[c] = "none"
  BY DEF WriterCloses, ReaderCloses, ServedInv
<1>3. Shut(c) \in {"shut", "dead"}
  BY DEF Shut
<1> QED
  BY <1>1, <1>2, <1>3 DEF ServedInv, ClientsServed

(* The goroutines' other steps: one that ends finds its channel closed.     *)
LEMMA ServedRuns ==
  ASSUME ServedInv, LDInv', NEW c \in Conn,
         Take(c) \/ ChannelEnds(c) \/ WriteMessage(c) \/ WriteFails(c) \/ ReadFails(c)
  PROVE  ServedInv'
<1>1. /\ UNCHANGED <<clients, closed, sock>>
      /\ DOMAIN writer' = Conn /\ DOMAIN reader' = Conn
      /\ \A d \in Conn \ {c} : writer'[d] = writer[d] /\ reader'[d] = reader[d]
  BY DEF Take, ChannelEnds, WriteMessage, WriteFails, ReadFails, hubVars, netVars, ServedInv
<1>2. /\ writer'[c] # "none" => writer[c] # "none"
      /\ writer'[c] = "none" => writer[c] = "none" \/ c \in closed
      /\ reader'[c] = "none" => reader[c] = "none"
      /\ writer'[c] = "close" <=> writer[c] = "close"
      /\ reader'[c] = "close" <=> reader[c] = "close"
  BY DEF Take, ChannelEnds, WriteMessage, WriteFails, ReadFails, ServedInv
<1> QED
  BY <1>1, <1>2 DEF ServedInv, LDInv, ClientsServed

(* A page that leaves or a network that breaks does not tell the hub.       *)
LEMMA ServedLeaves ==
  ASSUME ServedInv, LDInv', (\E c \in Conn : Break(c)) \/ (\E p \in Page : Reload(p))
  PROVE  ServedInv'
<1>1. UNCHANGED <<clients, closed, writer, reader>>
  BY DEF Break, Reload, hubVars, connVars
<1>2. /\ DOMAIN sock' = Conn
      /\ \A d \in Conn : \/ sock'[d] = sock[d]
                         \/ sock[d] = "open" /\ sock'[d] \in {"left", "broken"}
  BY DEF Break, Reload, ServedInv
<1> QED
  BY <1>1, <1>2 DEF ServedInv, ClientsServed

(* No client is ever without its goroutines, no connection that the hub has *)
(* dropped stays open, and none of its goroutines is left waiting at a      *)
(* channel that nobody will close, for any connections and whatever breaks  *)
(* in whatever order (Handler, AddConn, RemoveConn in hub.go).              *)
THEOREM HubServesClients == LDSpec => []ClientsServed
<1>1. LDInit => ServedInv
  BY LDInitInv DEF LDInit, ServedInv, ClientsServed
<1>2. ServedInv /\ [LDNext]_ldVars => ServedInv'
  <2> SUFFICES ASSUME ServedInv, [LDNext]_ldVars PROVE ServedInv'
    OBVIOUS
  <2>1. LDInv'
    BY LDNextInv DEF ServedInv
  <2>2. CASE \E p \in Page, c \in Conn : Connect(p, c)
    BY <2>1, <2>2, ServedConnects
  <2>3. ASSUME NEW c \in Conn, Writer(c) \/ Reader(c) PROVE ServedInv'
    BY <2>1, <2>3, ServedRemoves, ServedCloses, ServedRuns DEF Writer, Reader
  <2>4. CASE (\E c \in Conn : Break(c)) \/ (\E p \in Page : Reload(p))
    BY <2>1, <2>4, ServedLeaves
  <2>5. CASE \/ UNCHANGED ldVars \/ Change \/ Broadcaster
             \/ \E p \in Page, c \in Conn : Receive(p, c)
             \/ \E p \in Page : OpenTab(p) \/ OnClose(p) \/ Answer(p) \/ Seed(p) \/ SeedFails(p)
    <3>1. UNCHANGED <<clients, closed, writer, reader, sock>>
      BY <2>5 DEF ldVars, hubVars, connVars, netVars, Change, Broadcaster, Prepare, NoClients, Lock, Send,
                  Unlock, Receive, OpenTab, OnClose, Answer, Seed, SeedFails
    <3> QED
      BY <2>1, <3>1, ServedAtRest
  <2> QED
    BY <2>2, <2>3, <2>4, <2>5 DEF LDNext
<1> QED
  BY <1>1, <1>2, PTL DEF LDSpec, ServedInv

-----------------------------------------------------------------------------
(* The simulator: a server whose agent has been heard of is online only     *)
(* while the agent is connected, so that the simulator comes to write its   *)
(* row only when the reaper has acted since it looked at the status.        *)
RowsTyped ==
  /\ agentSeen \in [Server -> Int] /\ faked \in [Server -> Nat] /\ clock \in Nat
  /\ rows \subseteq Server /\ rowsLeft \subseteq Server
  /\ sim.at \in {"flag", "write"} =>
       /\ sim = [at |-> sim.at, now |-> sim.now, srv |-> sim.srv]
       /\ sim.srv \in Server

OnlineByAgent ==
  \A s \in Server : /\ agentSeen[s] # -1 /\ s \in online => s \in connected
                    /\ agentSeen[s] = -1 => faked[s] = 0

AboutToWrite ==
  /\ sim.at = "flag" => sim.srv \in connected \/ faked[sim.srv] = 0
  /\ sim.at = "write" => faked[sim.srv] = 0

TMInv == RowsTyped /\ OnlineByAgent /\ AboutToWrite /\ SimulatedOnce

LEMMA TMInitInv == TMInit => TMInv
<1> SUFFICES ASSUME TMInit PROVE TMInv
  OBVIOUS
<1>1. sim.at = "idle"
  BY DEF TMInit, Idle
<1>2. RowsTyped
  BY <1>1, SampleAssumption DEF TMInit, RowsTyped
<1>3. OnlineByAgent /\ AboutToWrite /\ SimulatedOnce
  BY <1>1 DEF TMInit, OnlineByAgent, AboutToWrite, SimulatedOnce
<1> QED
  BY <1>2, <1>3 DEF TMInv

(* Steps that leave the rows as the simulator and the agents have them.     *)
LEMMA RowsAtRest ==
  ASSUME TMInv, UNCHANGED <<online, connected, agentSeen, sim, rowsLeft, faked>>,
         rows' \subseteq Server, clock' \in Nat
  PROVE  TMInv'
<1>1. RowsTyped'
  BY DEF TMInv, RowsTyped
<1>2. OnlineByAgent' /\ AboutToWrite' /\ SimulatedOnce'
  BY DEF TMInv, OnlineByAgent, AboutToWrite, SimulatedOnce
<1> QED
  BY <1>1, <1>2 DEF TMInv

(* The reaper takes servers offline that were connected.                    *)
LEMMA ReapStep == ASSUME TMInv, ReapStaleAgents PROVE TMInv'
<1>1. PICK stale \in SUBSET (rows \cap connected) :
        /\ online' = online \ stale /\ connected' = connected \ stale
        /\ faked' = [s \in Server |-> IF s \in stale THEN 0 ELSE faked[s]]
  BY DEF ReapStaleAgents
<1>2. UNCHANGED <<rows, agentSeen, clock, sim, rowsLeft>>
  BY DEF ReapStaleAgents
<1>3. faked' \in [Server -> Nat]
  BY <1>1 DEF TMInv, RowsTyped
<1>4. RowsTyped'
  BY <1>2, <1>3 DEF TMInv, RowsTyped
<1>5. OnlineByAgent' /\ SimulatedOnce'
  BY <1>1, <1>2 DEF TMInv, OnlineByAgent, SimulatedOnce
<1>6. AboutToWrite'
  BY <1>1, <1>2 DEF TMInv, RowsTyped, AboutToWrite
<1> QED
  BY <1>4, <1>5, <1>6 DEF TMInv

(* A heartbeat is applied: connected, and no write since.                   *)
LEMMA ApplyStep ==
  ASSUME TMInv, NEW b \in Beat, ApplyHeartbeat(b)
  PROVE  TMInv'
<1> DEFINE s == beats[b].srv
<1>1. CASE s \in rows
  <2>1. /\ connected' = connected \cup {s} /\ online' = online \cup {s}
        /\ agentSeen' = [agentSeen EXCEPT ![s] = clock]
        /\ faked' = [faked EXCEPT ![s] = 0]
        /\ UNCHANGED <<rows, clock, sim, rowsLeft>>
    BY <1>1 DEF ApplyHeartbeat
  <2>2. s \in Server /\ clock \in Int /\ clock # -1
    BY <1>1 DEF TMInv, RowsTyped
  <2> HIDE DEF s
  <2>3. /\ agentSeen' \in [Server -> Int] /\ faked' \in [Server -> Nat]
        /\ agentSeen'[s] = clock /\ faked'[s] = 0
        /\ \A u \in Server : u # s => agentSeen'[u] = agentSeen[u] /\ faked'[u] = faked[u]
    BY <2>1, <2>2 DEF TMInv, RowsTyped
  <2>4. RowsTyped'
    BY <2>1, <2>3 DEF TMInv, RowsTyped
  <2>5. OnlineByAgent' /\ SimulatedOnce'
    BY <2>1, <2>2, <2>3 DEF TMInv, OnlineByAgent, SimulatedOnce
  <2>6. AboutToWrite'
    BY <2>1, <2>3 DEF TMInv, RowsTyped, AboutToWrite
  <2> QED
    BY <2>4, <2>5, <2>6 DEF TMInv
<1>2. CASE s \notin rows
  <2>1. UNCHANGED <<rows, online, connected, agentSeen, clock, sim, rowsLeft, faked>>
    BY <1>2 DEF ApplyHeartbeat
  <2> QED
    BY <2>1, RowsAtRest DEF TMInv, RowsTyped
<1> QED
  BY <1>1, <1>2

(* The simulator comes to a row that is online.                             *)
LEMMA CheckStatusStep ==
  ASSUME TMInv, NEW s \in Server, CheckStatus(s)
  PROVE  TMInv'
<1> DEFINE r == [at |-> "flag", now |-> sim.now, srv |-> s]
<1>1. /\ sim.at = "scan" /\ rowsLeft' = rowsLeft \ {s}
      /\ sim' = IF s \in online THEN r ELSE sim
      /\ UNCHANGED <<rows, online, connected, agentSeen, clock, faked>>
  BY DEF CheckStatus, rowVars
<1>2. r.at = "flag" /\ r.srv = s /\ r = [at |-> r.at, now |-> r.now, srv |-> r.srv]
  OBVIOUS
<1> HIDE DEF r
<1>3. RowsTyped'
  BY <1>1, <1>2 DEF TMInv, RowsTyped
<1>4. OnlineByAgent' /\ SimulatedOnce'
  BY <1>1 DEF TMInv, OnlineByAgent, SimulatedOnce
<1>5. s \in online => s \in connected \/ faked[s] = 0
  BY DEF TMInv, OnlineByAgent
<1>6. AboutToWrite'
  BY <1>1, <1>2, <1>5 DEF AboutToWrite
<1> QED
  BY <1>3, <1>4, <1>6 DEF TMInv

LEMMA CheckAgentStep == ASSUME TMInv, CheckAgent PROVE TMInv'
<1> DEFINE scan == [at |-> "scan", now |-> sim.now]
           write == [at |-> "write", now |-> sim.now, srv |-> sim.srv]
<1>1. /\ sim.at = "flag"
      /\ UNCHANGED <<rows, online, connected, agentSeen, clock, rowsLeft, faked>>
  BY DEF CheckAgent, rowVars
<1>2. sim.srv \in Server /\ sim = [at |-> sim.at, now |-> sim.now, srv |-> sim.srv]
  BY <1>1 DEF TMInv, RowsTyped
<1>3. sim' = IF sim.srv \in connected THEN scan ELSE write
  <2>1. [sim EXCEPT !.at = "write"] = write
    BY <1>2
  <2> QED
    BY <2>1 DEF CheckAgent
<1>4. /\ scan.at = "scan" /\ write.at = "write" /\ write.srv = sim.srv
      /\ write = [at |-> write.at, now |-> write.now, srv |-> write.srv]
  OBVIOUS
<1> HIDE DEF scan, write
<1>5. RowsTyped'
  BY <1>1, <1>2, <1>3, <1>4 DEF TMInv, RowsTyped
<1>6. OnlineByAgent' /\ SimulatedOnce'
  BY <1>1 DEF TMInv, OnlineByAgent, SimulatedOnce
<1>7. AboutToWrite'
  BY <1>1, <1>3, <1>4 DEF TMInv, AboutToWrite
<1> QED
  BY <1>5, <1>6, <1>7 DEF TMInv

LEMMA SimulateStep == ASSUME TMInv, Simulate PROVE TMInv'
<1> DEFINE s == sim.srv
           r == [at |-> "append", now |-> sim.now, srv |-> s]
           n == faked[s] + (IF agentSeen[s] = -1 THEN 0 ELSE 1)
<1>1. /\ sim.at = "write" /\ faked' = [faked EXCEPT ![s] = n]
      /\ sim' = [sim EXCEPT !.at = "append"]
      /\ UNCHANGED <<rows, online, connected, agentSeen, clock, rowsLeft>>
  BY DEF Simulate
<1>2. s \in Server /\ faked[s] = 0 /\ sim = [at |-> sim.at, now |-> sim.now, srv |-> s]
  BY <1>1 DEF TMInv, RowsTyped, AboutToWrite
<1>3. sim' = r /\ r.at = "append"
  BY <1>1, <1>2
<1>4. n \in {0, 1} /\ (agentSeen[s] = -1 => n = 0)
  BY <1>2
<1> HIDE DEF r, s, n
<1>5. /\ faked' \in [Server -> Nat] /\ faked'[s] = n
      /\ \A u \in Server : u # s => faked'[u] = faked[u]
  BY <1>1, <1>2, <1>4 DEF TMInv, RowsTyped
<1>6. sim'.at = "append"
  BY <1>3
<1>7. RowsTyped'
  BY <1>1, <1>5, <1>6 DEF TMInv, RowsTyped
<1>8. OnlineByAgent' /\ SimulatedOnce'
  BY <1>1, <1>4, <1>5 DEF TMInv, OnlineByAgent, SimulatedOnce
<1>9. AboutToWrite'
  BY <1>6 DEF AboutToWrite
<1> QED
  BY <1>7, <1>8, <1>9 DEF TMInv

(* The simulator is between two rows, or between two passes.                *)
LEMMA BetweenRows ==
  ASSUME TMInv, BeginPass \/ EndPass \/ SimulatorAppends
  PROVE  TMInv'
<1>1. /\ UNCHANGED <<rows, online, connected, agentSeen, clock, faked>>
      /\ rowsLeft' = rows \/ rowsLeft' = rowsLeft
  BY DEF BeginPass, EndPass, SimulatorAppends, rowVars
<1>2. sim'.at \in {"scan", "idle"}
  BY DEF BeginPass, EndPass, SimulatorAppends, Idle
<1>3. RowsTyped'
  BY <1>1, <1>2 DEF TMInv, RowsTyped
<1>4. OnlineByAgent' /\ SimulatedOnce'
  BY <1>1 DEF TMInv, OnlineByAgent, SimulatedOnce
<1>5. AboutToWrite'
  BY <1>2 DEF AboutToWrite
<1> QED
  BY <1>3, <1>4, <1>5 DEF TMInv

LEMMA TMNextInv == ASSUME TMInv, [TMNext]_tmVars PROVE TMInv'
<1>0. rows \subseteq Server /\ clock \in Nat
  BY DEF TMInv, RowsTyped
<1>1. CASE UNCHANGED tmVars
  BY <1>0, <1>1, RowsAtRest DEF tmVars, rowVars
<1>2. CASE TelemetryTick
  BY <1>0, <1>2, RowsAtRest DEF TelemetryTick, rowVars
<1>3. ASSUME NEW s \in Server, CreateServer(s) \/ DeleteServer(s) \/ CheckStatus(s) PROVE TMInv'
  <2>1. CASE CreateServer(s)
    BY <1>0, <2>1, RowsAtRest DEF CreateServer
  <2>2. CASE DeleteServer(s)
    BY <1>0, <2>2, RowsAtRest DEF DeleteServer
  <2> QED
    BY <1>3, <2>1, <2>2, CheckStatusStep
<1>4. ASSUME NEW b \in Beat, \/ \E s \in Server : HeartbeatArrives(b, s)
                             \/ ApplyHeartbeat(b) \/ ReadBack(b) \/ HeartbeatAppends(b)
      PROVE  TMInv'
  <2>1. ASSUME NEW s \in Server, HeartbeatArrives(b, s) PROVE TMInv'
    BY <1>0, <2>1, RowsAtRest DEF HeartbeatArrives, rowVars
  <2>2. CASE ReadBack(b)
    BY <1>0, <2>2, RowsAtRest DEF ReadBack, rowVars
  <2>3. CASE HeartbeatAppends(b)
    BY <1>0, <2>3, RowsAtRest DEF HeartbeatAppends, rowVars
  <2> QED
    BY <1>4, <2>1, <2>2, <2>3, ApplyStep
<1> QED
  BY <1>1, <1>2, <1>3, <1>4, ReapStep, BetweenRows, CheckAgentStep, SimulateStep DEF TMNext

(* "Real agents report their own metrics; don't overwrite them."            *)
(* (simulator.go:57): at most one simulated write of a row between any two  *)
(* changes of it by its agent and the reaper, however long the run.         *)
THEOREM SimulatesAtMostOnce == TMSpec => []SimulatedOnce
<1>1. TMInv => SimulatedOnce
  BY DEF TMInv
<1>2. QED
  BY TMInitInv, TMNextInv, <1>1, PTL DEF TMSpec

-----------------------------------------------------------------------------
(* Alert rules.  For the cooldown: LastFired of a rule that may still fire  *)
(* is no older than its last event, except between the two calls that write *)
(* them.  For rules that are off: one that fired since then is not in what  *)
(* is left of the loop, and is not stored and on when the next one begins.  *)
Looking == stage \in {"check", "fire"}
Marking(r) == stage = "mark" /\ cur[1] = r

AETyped ==
  /\ rules \subseteq usedRules /\ usedRules \subseteq Rule /\ rulesLeft \subseteq usedRules
  /\ cooldown \in [Rule -> Int] /\ since \in [Rule -> Int] /\ quiet \in [Rule -> Nat]
  /\ firedOff \in [Rule -> {0, 1}]
  /\ Looking \/ stage = "mark" =>
       cur[1] \in rulesLeft /\ cur[4] \in Int /\ cur = <<cur[1], cur[2], cur[3], cur[4]>>

AnchorRecent ==
  \A r \in Rule : \/ since[r] <= quiet[r]
                  \/ Marking(r)
                  \/ r \in usedRules /\ r \notin rules \cup rulesLeft

OutOfCooldown == Looking => since[cur[1]] >= cur[4]

FiredWhileOff ==
  \A r \in Rule : firedOff[r] = 1 => /\ r \in usedRules /\ r \notin rules \cap on
                                     /\ r \in rulesLeft \cap on => Marking(r)
                                     /\ Looking => cur[1] # r

AEInv == AETyped /\ AnchorRecent /\ OutOfCooldown /\ FiredWhileOff

LEMMA LongestNat == Longest \in Nat /\ LongAgo \in Nat
<1>1. \E c \in Cooldowns : \A d \in Cooldowns : d <= c
  BY AlertLimits
<1>2. Longest \in Cooldowns
  BY <1>1 DEF Longest
<1> QED
  BY <1>2, AlertLimits DEF LongAgo

LEMMA AEInitInv == AEInit => AEInv
<1> SUFFICES ASSUME AEInit PROVE AEInv
  OBVIOUS
<1>1. LongAgo \in Nat /\ Longest \in Nat
  BY LongestNat
<1>2. AETyped
  BY <1>1 DEF AEInit, AETyped, Looking
<1>3. AnchorRecent /\ OutOfCooldown /\ FiredWhileOff
  BY <1>1 DEF AEInit, AnchorRecent, OutOfCooldown, FiredWhileOff, Looking
<1> QED
  BY <1>2, <1>3 DEF AEInv

(* Steps that leave alone what the invariant speaks of.                     *)
LEMMA AEAtRest ==
  ASSUME AEInv, UNCHANGED <<rules, usedRules, on, cooldown, since, stage, rulesLeft, cur, quiet, firedOff>>
  PROVE  AEInv'
BY DEF AEInv, AETyped, AnchorRecent, OutOfCooldown, FiredWhileOff, Looking, Marking

(* An admin's request; what the evaluator has read of the rule stays.       *)
LEMMA CreateRuleStep ==
  ASSUME AEInv, NEW r \in Rule, NEW c, NEW t, NEW d \in Cooldowns, CreateRule(r, c, t, d)
  PROVE  AEInv'
<1>1. /\ r \notin usedRules /\ rules' = rules \cup {r} /\ usedRules' = usedRules \cup {r}
      /\ on' = on \cup {r} /\ cooldown' = [cooldown EXCEPT ![r] = d]
      /\ UNCHANGED <<since, stage, rulesLeft, cur, quiet, firedOff>>
  BY DEF CreateRule, evalVars
<1>2. AETyped'
  BY <1>1, AlertLimits DEF AEInv, AETyped, Looking
<1>3. AnchorRecent'
  BY <1>1 DEF AEInv, AETyped, AnchorRecent, Marking
<1>4. OutOfCooldown' /\ FiredWhileOff'
  BY <1>1 DEF AEInv, AETyped, OutOfCooldown, FiredWhileOff, Looking, Marking
<1> QED
  BY <1>2, <1>3, <1>4 DEF AEInv

LEMMA UpdateRuleStep ==
  ASSUME AEInv, NEW r \in Rule, NEW c, NEW t, NEW d \in Cooldowns, NEW isOn,
         UpdateRule(r, c, t, d, isOn)
  PROVE  AEInv'
<1>1. /\ r \in rules /\ cooldown' = [cooldown EXCEPT ![r] = d]
      /\ on' = on \cup {r} \/ on' = on \ {r}
      /\ firedOff' = [firedOff EXCEPT ![r] = 0]
      /\ UNCHANGED <<rules, usedRules, since, stage, rulesLeft, cur, quiet>>
  BY DEF UpdateRule, evalVars
<1>2. AETyped'
  BY <1>1, AlertLimits DEF AEInv, AETyped, Looking
<1>3. AnchorRecent' /\ OutOfCooldown'
  BY <1>1 DEF AEInv, AnchorRecent, OutOfCooldown, Looking, Marking
<1>4. FiredWhileOff'
  BY <1>1 DEF AEInv, AETyped, FiredWhileOff, Looking, Marking
<1> QED
  BY <1>2, <1>3, <1>4 DEF AEInv

LEMMA DeleteRuleStep ==
  ASSUME AEInv, NEW r \in Rule, DeleteRule(r)
  PROVE  AEInv'
<1>1. /\ r \in rules /\ rules' = rules \ {r} /\ firedOff' = [firedOff EXCEPT ![r] = 0]
      /\ UNCHANGED <<usedRules, on, cooldown, since, stage, rulesLeft, cur, quiet>>
  BY DEF DeleteRule, evalVars
<1>2. AETyped'
  BY <1>1 DEF AEInv, AETyped, Looking
<1>3. AnchorRecent' /\ OutOfCooldown'
  BY <1>1 DEF AEInv, AETyped, AnchorRecent, OutOfCooldown, Looking, Marking
<1>4. FiredWhileOff'
  BY <1>1 DEF AEInv, AETyped, FiredWhileOff, Looking, Marking
<1> QED
  BY <1>2, <1>3, <1>4 DEF AEInv

(* A loop begins with the rules that are stored, or ends.                   *)
LEMMA LoopStep ==
  ASSUME AEInv, BeginEvaluation \/ SecondLoop \/ EndEvaluation
  PROVE  AEInv'
<1>1. /\ stage \in {"idle", "scan"} /\ stage' \in {"idle", "scan"}
      /\ rulesLeft' = rules \/ rulesLeft' = rulesLeft
      /\ UNCHANGED <<rules, usedRules, on, cooldown, since, quiet, firedOff>>
  BY DEF BeginEvaluation, SecondLoop, EndEvaluation, alertVars
<1>2. AETyped' /\ OutOfCooldown'
  BY <1>1 DEF AEInv, AETyped, OutOfCooldown, Looking
<1>3. AnchorRecent'
  BY <1>1 DEF AEInv, AETyped, AnchorRecent, Marking
<1>4. FiredWhileOff'
  BY <1>1 DEF AEInv, AETyped, FiredWhileOff, Looking, Marking
<1> QED
  BY <1>2, <1>3, <1>4 DEF AEInv

LEMMA ConsiderStep ==
  ASSUME AEInv, NEW r \in Rule, Consider(r)
  PROVE  AEInv'
<1>1. /\ stage = "scan" /\ r \in rulesLeft
      /\ UNCHANGED <<rules, usedRules, on, cooldown, since, quiet, firedOff>>
  BY DEF Consider, alertVars
<1>2. CASE Skipped(r)
  <2>1. rulesLeft' = rulesLeft \ {r} /\ UNCHANGED <<stage, cur>>
    BY <1>2 DEF Consider
  <2>2. AETyped' /\ OutOfCooldown'
    BY <1>1, <2>1 DEF AEInv, AETyped, OutOfCooldown, Looking
  <2>3. AnchorRecent' /\ FiredWhileOff'
    BY <1>1, <2>1 DEF AEInv, AETyped, AnchorRecent, FiredWhileOff, Looking, Marking
  <2> QED
    BY <2>2, <2>3 DEF AEInv
<1>3. CASE ~ Skipped(r)
  <2>1. /\ stage' = "check" /\ cur' = <<r, cond[r], thr[r], cooldown[r]>>
        /\ UNCHANGED rulesLeft
    BY <1>3 DEF Consider
  <2>2. r \in on /\ ~ (since[r] < cooldown[r])
    BY <1>3 DEF Skipped, InCooldown
  <2>3. cur'[1] = r /\ cur'[4] = cooldown[r] /\ cur' = <<cur'[1], cur'[2], cur'[3], cur'[4]>>
    BY <2>1
  <2>4. AETyped'
    BY <1>1, <2>1, <2>3 DEF AEInv, AETyped, Looking
  <2>5. OutOfCooldown'
    BY <1>1, <2>2, <2>3 DEF AEInv, AETyped, OutOfCooldown
  <2>6. AnchorRecent'
    BY <1>1, <2>1 DEF AEInv, AnchorRecent, Marking
  <2>7. FiredWhileOff'
    BY <1>1, <2>1, <2>2, <2>3 DEF AEInv, FiredWhileOff, Looking, Marking
  <2> QED
    BY <2>4, <2>5, <2>6, <2>7 DEF AEInv
<1> QED
  BY <1>2, <1>3

LEMMA CheckConditionStep ==
  ASSUME AEInv, NEW x \in Target, CheckCondition(x)
  PROVE  AEInv'
<1>1. /\ stage = "check" /\ stage' \in {"check", "fire"}
      /\ UNCHANGED <<rules, usedRules, on, cooldown, since, rulesLeft, quiet, firedOff>>
  BY DEF CheckCondition, alertVars
<1>2. cur = <<cur[1], cur[2], cur[3], cur[4]>> /\ cur[1] \in rulesLeft /\ cur[4] \in Int
  BY <1>1 DEF AEInv, AETyped, Looking
<1>3. cur' = cur \/ cur' = [cur EXCEPT ![2] = cond[cur[1]], ![3] = thr[cur[1]]]
  BY DEF CheckCondition
<1>4. cur'[1] = cur[1] /\ cur'[4] = cur[4] /\ cur' = <<cur'[1], cur'[2], cur'[3], cur'[4]>>
  BY <1>2, <1>3
<1>5. AETyped' /\ OutOfCooldown'
  BY <1>1, <1>2, <1>4 DEF AEInv, AETyped, OutOfCooldown, Looking
<1>6. AnchorRecent' /\ FiredWhileOff'
  BY <1>1, <1>4 DEF AEInv, AnchorRecent, FiredWhileOff, Looking, Marking
<1> QED
  BY <1>5, <1>6 DEF AEInv

LEMMA NoneBreachedStep == ASSUME AEInv, NoneBreached PROVE AEInv'
<1>1. /\ stage = "check" /\ stage' = "scan" /\ rulesLeft' = rulesLeft \ {cur[1]}
      /\ UNCHANGED <<rules, usedRules, on, cooldown, since, quiet, firedOff>>
  BY DEF NoneBreached, alertVars
<1>2. AETyped' /\ OutOfCooldown'
  BY <1>1 DEF AEInv, AETyped, OutOfCooldown, Looking
<1>3. AnchorRecent' /\ FiredWhileOff'
  BY <1>1 DEF AEInv, AETyped, AnchorRecent, FiredWhileOff, Looking, Marking
<1> QED
  BY <1>2, <1>3 DEF AEInv

LEMMA AddEventStep == ASSUME AEInv, AddEvent PROVE AEInv'
<1> DEFINE r == cur[1]
<1>1. /\ stage = "fire" /\ stage' = "mark"
      /\ quiet' = [quiet EXCEPT ![r] = 0]
      /\ firedOff' = [firedOff EXCEPT ![r] = IF r \in rules \cap on THEN 0 ELSE @ + 1]
      /\ UNCHANGED <<rules, usedRules, on, cooldown, since, rulesLeft, cur>>
  BY DEF AddEvent
<1>2. r \in rulesLeft /\ r \in Rule /\ r \in usedRules
  BY <1>1 DEF AEInv, AETyped, Looking
<1>3. firedOff[r] = 0
  BY <1>1, <1>2 DEF AEInv, AETyped, FiredWhileOff, Looking
<1>4. firedOff' = [firedOff EXCEPT ![r] = IF r \in rules \cap on THEN 0 ELSE 1]
  BY <1>1, <1>3
<1>5. AETyped'
  BY <1>1, <1>2, <1>4 DEF AEInv, AETyped, Looking
<1>6. AnchorRecent' /\ OutOfCooldown'
  BY <1>1, <1>2 DEF AEInv, AETyped, AnchorRecent, OutOfCooldown, Looking, Marking
<1>7. FiredWhileOff'
  BY <1>1, <1>2, <1>4 DEF AEInv, AETyped, FiredWhileOff, Looking, Marking
<1> QED
  BY <1>5, <1>6, <1>7 DEF AEInv

(* A rule that is gone is not marked, and not seen again either.            *)
LEMMA MarkFiredStep == ASSUME AEInv, MarkFired PROVE AEInv'
<1> DEFINE r == cur[1]
<1>1. /\ stage = "mark" /\ stage' = "scan" /\ rulesLeft' = rulesLeft \ {r}
      /\ since' = IF r \in rules THEN [since EXCEPT ![r] = 0] ELSE since
      /\ UNCHANGED <<rules, usedRules, on, cooldown, quiet, firedOff>>
  BY DEF MarkFired
<1>2. r \in Rule /\ r \in usedRules /\ 0 <= quiet[r]
  BY <1>1 DEF AEInv, AETyped
<1>3. AETyped' /\ OutOfCooldown'
  BY <1>1 DEF AEInv, AETyped, OutOfCooldown, Looking
<1>4. AnchorRecent'
  BY <1>1, <1>2 DEF AEInv, AETyped, AnchorRecent, Marking
<1>5. FiredWhileOff'
  BY <1>1 DEF AEInv, AETyped, FiredWhileOff, Looking, Marking
<1> QED
  BY <1>3, <1>4, <1>5 DEF AEInv

LEMMA EvaluatorTickStep == ASSUME AEInv, EvaluatorTick PROVE AEInv'
<1>1. /\ stage = "idle" /\ since' = Older(since) /\ quiet' = Older(quiet)
      /\ UNCHANGED <<rules, usedRules, on, cooldown, stage, rulesLeft, cur, firedOff>>
  BY DEF EvaluatorTick
<1>2. AETyped' /\ OutOfCooldown'
  BY <1>1, LongestNat DEF AEInv, AETyped, OutOfCooldown, Looking, Older
<1>3. AnchorRecent'
  BY <1>1, LongestNat DEF AEInv, AETyped, AnchorRecent, Marking, Older
<1>4. FiredWhileOff'
  BY <1>1 DEF AEInv, FiredWhileOff, Looking, Marking
<1> QED
  BY <1>2, <1>3, <1>4 DEF AEInv

LEMMA AENextInv == ASSUME AEInv, [AENext]_aeVars PROVE AEInv'
<1>1. CASE UNCHANGED aeVars
  BY <1>1, AEAtRest DEF aeVars, alertVars, evalVars
<1>2. ASSUME NEW x \in Target, NEW c \in Condition, NEW v \in 0..MaxLevel, Report(x, c, v)
      PROVE  AEInv'
  BY <1>2, AEAtRest DEF Report, alertVars, evalVars
<1>3. CASE AlertAdmin
  BY <1>3, CreateRuleStep, UpdateRuleStep, DeleteRuleStep DEF AlertAdmin
<1>4. CASE Evaluator
  BY <1>4, LoopStep, ConsiderStep, CheckConditionStep, NoneBreachedStep, AddEventStep, MarkFiredStep
     DEF Evaluator
<1> QED
  BY <1>1, <1>2, <1>3, <1>4, EvaluatorTickStep DEF AENext

(* A rule that is muted, disabled or deleted while the evaluator is at it   *)
(* fires at most once more, for any rules, targets and edits.               *)
THEOREM OffFiresOnce == AESpec => []OffMeansOff
<1>1. AEInv => OffMeansOff
  BY DEF AEInv, AETyped, FiredWhileOff, OffMeansOff
<1>2. QED
  BY AEInitInv, AENextInv, <1>1, PTL DEF AESpec

(* "cooldown gates the next" (evaluator.go:84), for any cooldowns: the      *)
(* event of a rule comes no earlier after its last than the cooldown that   *)
(* the evaluator read of it, in both loops and however it was edited.       *)
THEOREM CooldownGates == AESpec => CooldownRespected
<1>1. ASSUME AEInv, [AENext]_aeVars PROVE [CooldownStep]_aeVars
  <2> SUFFICES ASSUME stage = "fire" PROVE quiet[cur[1]] >= cur[4]
    BY DEF CooldownStep
  <2> DEFINE r == cur[1]
  <2>1. r \in rulesLeft /\ r \in Rule /\ cur[4] \in Int
    BY <1>1 DEF AEInv, AETyped, Looking
  <2>2. since[r] >= cur[4]
    BY <1>1 DEF AEInv, OutOfCooldown, Looking
  <2>3. since[r] <= quiet[r]
    BY <1>1, <2>1 DEF AEInv, AnchorRecent, Marking
  <2>4. since[r] \in Int /\ quiet[r] \in Int
    BY <1>1, <2>1 DEF AEInv, AETyped
  <2> HIDE DEF r
  <2>5. quiet[r] >= cur[4]
    BY <2>1, <2>2, <2>3, <2>4
  <2> QED
    BY <2>5 DEF r
<1>2. QED
  BY AEInitInv, AENextInv, <1>1, PTL DEF AESpec, CooldownRespected
(* No rule is missed.  The invariant follows a rule that is to fire for a   *)
(* target through the pass: it is still in the loop that its condition      *)
(* belongs to, or that loop is still to come; and while the evaluator is at *)
(* it, what was read of it is what it says, and the target is still to be   *)
(* looked at.                                                               *)
EvaluatorTyped ==
  /\ stage \in {"idle", "scan", "check", "fire", "mark"} /\ pass \in {"server", "service"}
  /\ passed \in BOOLEAN /\ (passed => stage = "idle")
  /\ cooldown \in [Rule -> Cooldowns]

Sought(r) == pass = "server" <=> cond[r] # ServiceDown

ReadAsIs(r, x) ==
  stage = "check" /\ cur[1] = r => cur[2] = cond[r] /\ cur[3] = thr[r] /\ (Sought(r) => x \in targets)

Pursued(r, x) ==
  /\ r \in rules \cap on /\ r \in Rule /\ x \in Target
  /\ ~ InCooldown(r) /\ Crosses(x, cond[r], thr[r])
  /\ ~ passed
  /\ stage # "idle" => /\ pass = "service" => cond[r] = ServiceDown
                       /\ Sought(r) => r \in rulesLeft
                       /\ ReadAsIs(r, x)

AllPursued == \A p \in ready : Pursued(p[1], p[2])

NMInv == EvaluatorTyped /\ AllPursued

LEMMA NMInitInv == AEInit => NMInv
<1>1. Longest \in Cooldowns
  BY AlertLimits DEF Longest
<1> QED
  BY <1>1 DEF AEInit, NMInv, EvaluatorTyped, AllPursued

(* What the watch adds to a step that does not begin a unit of time.        *)
LEMMA WatchStep ==
  ASSUME AllPursued, Watch, ~ (passed /\ ~ passed')
  PROVE  \A p \in ready' : /\ p \in ready /\ Pursued(p[1], p[2]) /\ UNCHANGED <<cond[p[1]], thr[p[1]]>>
                           /\ p[1] \in rules' \cap on' /\ p[1] \in Rule /\ p[2] \in Target
                           /\ ~ InCooldown(p[1])' /\ Crosses(p[2], cond[p[1]], thr[p[1]])'
BY DEF AllPursued, Watch, Ready

(* Admins and reports leave the evaluator where it is.                      *)
LEMMA EvaluatorAtRest ==
  ASSUME AEInv, NMInv, Watch, UNCHANGED evalVars, cooldown' \in [Rule -> Cooldowns]
  PROVE  NMInv'
<1>1. UNCHANGED <<stage, pass, rulesLeft, cur, targets, passed>>
  BY DEF evalVars
<1>2. EvaluatorTyped'
  BY <1>1 DEF NMInv, EvaluatorTyped
<1>3. ASSUME NEW p \in ready' PROVE Pursued(p[1], p[2])'
  <2>1. /\ Pursued(p[1], p[2]) /\ UNCHANGED <<cond[p[1]], thr[p[1]]>>
        /\ p[1] \in rules' \cap on' /\ p[1] \in Rule /\ p[2] \in Target
        /\ ~ InCooldown(p[1])' /\ Crosses(p[2], cond[p[1]], thr[p[1]])'
    BY <1>1, <1>3, WatchStep DEF NMInv
  <2> QED
    BY <1>1, <2>1 DEF Pursued, Sought, ReadAsIs
<1> QED
  BY <1>2, <1>3 DEF NMInv, AllPursued

(* A step of the evaluator within a pass: what remains to be shown of a     *)
(* rule and a target that it has to fire for.                               *)
LEMMA EvaluatorMoves ==
  ASSUME NMInv, Watch, EvaluatorTyped', ~ passed, ~ passed', UNCHANGED <<cond, thr>>,
         \A r \in Rule, x \in Target :
           Pursued(r, x) /\ r \in rules' /\ ~ InCooldown(r)' /\ stage' # "idle"
           => /\ pass' = "service" => cond[r] = ServiceDown
              /\ Sought(r)' => r \in rulesLeft'
              /\ ReadAsIs(r, x)'
  PROVE  NMInv'
<1>1. ASSUME NEW p \in ready' PROVE Pursued(p[1], p[2])'
  <2>1. /\ Pursued(p[1], p[2])
        /\ p[1] \in rules' \cap on' /\ p[1] \in Rule /\ p[2] \in Target
        /\ ~ InCooldown(p[1])' /\ Crosses(p[2], cond[p[1]], thr[p[1]])'
    BY <1>1, WatchStep DEF NMInv
  <2> QED
    BY <2>1 DEF Pursued
<1> QED
  BY <1>1 DEF NMInv, AllPursued

LEMMA LoopsBegin == ASSUME AEInv, NMInv, Watch, BeginEvaluation \/ SecondLoop PROVE NMInv'
<1>1. /\ stage \in {"idle", "scan"} /\ stage' = "scan" /\ ~ passed /\ ~ passed'
      /\ rulesLeft' = rules /\ UNCHANGED <<rules, on, cond, thr, cooldown, since, passed>>
      /\ \/ pass' = "server"
         \/ pass' = "service" /\ pass = "server" /\ stage = "scan" /\ rulesLeft = {}
  BY DEF BeginEvaluation, SecondLoop, alertVars, NMInv, EvaluatorTyped
<1>2. EvaluatorTyped'
  BY <1>1 DEF NMInv, EvaluatorTyped
<1> QED
  BY <1>1, <1>2, EvaluatorMoves DEF Pursued, Sought, ReadAsIs

(* At the end no rule is left: none that was to fire was in the loop.       *)
LEMMA PassEnds == ASSUME AEInv, NMInv, Watch, EndEvaluation PROVE NMInv'
<1>1. /\ stage = "scan" /\ rulesLeft = {} /\ pass = "service" /\ stage' = "idle" /\ passed'
      /\ passed' \in BOOLEAN /\ UNCHANGED <<pass, cooldown>>
  BY DEF EndEvaluation, alertVars
<1>2. EvaluatorTyped'
  BY <1>1 DEF NMInv, EvaluatorTyped
<1>3. ready = {}
  BY <1>1 DEF NMInv, AllPursued, Pursued, Sought
<1>4. ready' = {}
  BY <1>1, <1>3, WatchStep DEF NMInv
<1> QED
  BY <1>2, <1>4 DEF NMInv, AllPursued

LEMMA Considers == ASSUME AEInv, NMInv, Watch, NEW r \in Rule, Consider(r) PROVE NMInv'
<1>1. /\ stage = "scan" /\ stage' \in {"scan", "check"} /\ r \in rulesLeft /\ ~ passed /\ ~ passed'
      /\ UNCHANGED <<rules, on, cond, thr, cooldown, since, pass, passed>>
  BY DEF Consider, alertVars, NMInv, EvaluatorTyped
<1>2. EvaluatorTyped'
  BY <1>1 DEF NMInv, EvaluatorTyped
<1>3. CASE Skipped(r)
  <2>1. stage' = "scan" /\ rulesLeft' = rulesLeft \ {r}
    BY <1>1, <1>3 DEF Consider
  <2>2. \A q \in Rule, x \in Target : Pursued(q, x) /\ Sought(q) => q # r
    BY <1>1, <1>3 DEF Pursued, Skipped, Sought
  <2> QED
    BY <1>1, <1>2, <2>1, <2>2, EvaluatorMoves DEF Pursued, Sought, ReadAsIs
<1>4. CASE ~ Skipped(r)
  <2>1. /\ stage' = "check" /\ targets' = Target /\ UNCHANGED rulesLeft
        /\ cur' = <<r, cond[r], thr[r], cooldown[r]>>
    BY <1>4 DEF Consider
  <2>2. cur'[1] = r /\ cur'[2] = cond[r] /\ cur'[3] = thr[r]
    BY <2>1
  <2> QED
    BY <1>1, <1>2, <2>1, <2>2, EvaluatorMoves DEF Pursued, Sought, ReadAsIs
<1> QED
  BY <1>3, <1>4

(* What is read of a rule that did not change is what was read before, so   *)
(* that the target for which it is crossed makes it fire.                   *)
LEMMA Checks == ASSUME AEInv, NMInv, Watch, NEW x \in Target, CheckCondition(x) PROVE NMInv'
<1>1. /\ stage = "check" /\ stage' \in {"check", "fire"} /\ ~ passed /\ ~ passed'
      /\ targets' = targets \ {x}
      /\ UNCHANGED <<rules, on, cond, thr, cooldown, since, level, pass, passed, rulesLeft>>
  BY DEF CheckCondition, alertVars, NMInv, EvaluatorTyped
<1>2. EvaluatorTyped'
  BY <1>1 DEF NMInv, EvaluatorTyped
<1>3. PICK c \in {cur[2], cond[cur[1]]}, t \in {cur[3], thr[cur[1]]} :
        IF IF pass = "server" THEN c # ServiceDown /\ Crosses(x, c, t) ELSE Crosses(x, ServiceDown, t)
        THEN stage' = "fire" /\ UNCHANGED cur
        ELSE UNCHANGED stage /\ cur' = [cur EXCEPT ![2] = cond[cur[1]], ![3] = thr[cur[1]]]
  BY DEF CheckCondition
<1>4. ASSUME NEW r \in Rule, NEW y \in Target, Pursued(r, y)
      PROVE  /\ pass' = "service" => cond[r] = ServiceDown
             /\ Sought(r)' => r \in rulesLeft'
             /\ ReadAsIs(r, y)'
  <2>1. /\ pass = "service" => cond[r] = ServiceDown
        /\ Sought(r) => r \in rulesLeft
        /\ ReadAsIs(r, y) /\ Crosses(y, cond[r], thr[r])
    BY <1>1, <1>4 DEF Pursued
  <2>2. ASSUME stage' = "check", cur'[1] = r
        PROVE  cur'[2] = cond[r] /\ cur'[3] = thr[r] /\ (Sought(r) => y \in targets')
    <3>1. /\ cur' = [cur EXCEPT ![2] = cond[cur[1]], ![3] = thr[cur[1]]]
          /\ ~ IF pass = "server" THEN c # ServiceDown /\ Crosses(x, c, t) ELSE Crosses(x, ServiceDown, t)
      BY <1>3, <2>2
    <3>2. cur = <<cur[1], cur[2], cur[3], cur[4]>>
      BY <1>1 DEF AEInv, AETyped, Looking
    <3>3. cur'[1] = cur[1] /\ cur'[2] = cond[cur[1]] /\ cur'[3] = thr[cur[1]]
      BY <3>1, <3>2
    <3>4. cur[1] = r
      BY <2>2, <3>3
    <3>5. c = cond[r] /\ t = thr[r]
      BY <1>1, <2>1, <3>4 DEF ReadAsIs
    <3>6. ASSUME Sought(r) PROVE y \in targets /\ y # x
      <4>1. y \in targets
        BY <1>1, <2>1, <3>4, <3>6 DEF ReadAsIs
      <4>2. CASE pass = "server"
        BY <2>1, <3>1, <3>5, <3>6, <4>1, <4>2 DEF Sought
      <4>3. CASE pass # "server"
        BY <2>1, <3>1, <3>6, <4>1, <4>3 DEF Sought, Crosses
      <4> QED
        BY <4>2, <4>3
    <3> QED
      BY <1>1, <3>3, <3>4, <3>6
  <2> QED
    BY <1>1, <2>1, <2>2 DEF Sought, ReadAsIs
<1> QED
  BY <1>1, <1>2, <1>4, EvaluatorMoves

LEMMA NoneLeft == ASSUME AEInv, NMInv, Watch, NoneBreached PROVE NMInv'
<1>1. /\ stage = "check" /\ targets = {} /\ stage' = "scan" /\ rulesLeft' = rulesLeft \ {cur[1]}
      /\ ~ passed /\ ~ passed'
      /\ UNCHANGED <<rules, on, cond, thr, cooldown, since, pass, passed>>
  BY DEF NoneBreached, alertVars, NMInv, EvaluatorTyped
<1>2. EvaluatorTyped'
  BY <1>1 DEF NMInv, EvaluatorTyped
<1>3. \A r \in Rule, x \in Target : Pursued(r, x) /\ Sought(r) => r # cur[1]
  BY <1>1 DEF Pursued, ReadAsIs
<1> QED
  BY <1>1, <1>2, <1>3, EvaluatorMoves DEF Pursued, Sought, ReadAsIs

(* A rule that has fired is in its cooldown, unless it is gone.             *)
LEMMA Fires == ASSUME AEInv, NMInv, Watch, AddEvent \/ MarkFired PROVE NMInv'
<1>1. /\ stage \in {"fire", "mark"} /\ stage' \in {"mark", "scan"} /\ ~ passed /\ ~ passed'
      /\ UNCHANGED <<rules, on, cond, thr, cooldown, pass, passed>>
  BY DEF AddEvent, MarkFired, NMInv, EvaluatorTyped
<1>2. EvaluatorTyped'
  BY <1>1 DEF NMInv, EvaluatorTyped
<1>3. CASE AddEvent
  <2>1. stage' = "mark" /\ UNCHANGED rulesLeft
    BY <1>3 DEF AddEvent
  <2> QED
    BY <1>1, <1>2, <2>1, EvaluatorMoves DEF Pursued, Sought, ReadAsIs
<1>4. CASE MarkFired
  <2>1. /\ stage' = "scan" /\ rulesLeft' = rulesLeft \ {cur[1]}
        /\ since' = IF cur[1] \in rules THEN [since EXCEPT ![cur[1]] = 0] ELSE since
    BY <1>4 DEF MarkFired
  <2>2. ASSUME NEW r \in Rule, r \in rules, ~ InCooldown(r)' PROVE r # cur[1]
    <3> SUFFICES ASSUME r = cur[1] PROVE FALSE
      OBVIOUS
    <3>1. since'[r] = 0
      BY <2>1, <2>2 DEF AEInv, AETyped
    <3>2. cooldown'[r] \in Nat \ {0}
      BY <1>2, AlertLimits DEF EvaluatorTyped
    <3> QED
      BY <2>2, <3>1, <3>2 DEF InCooldown
  <2> QED
    BY <1>1, <1>2, <2>1, <2>2, EvaluatorMoves DEF Pursued, Sought, ReadAsIs
<1> QED
  BY <1>3, <1>4

LEMMA NewUnit == ASSUME AEInv, NMInv, Watch, EvaluatorTick PROVE NMInv'
<1>1. stage = "idle" /\ UNCHANGED <<stage, pass, cooldown>> /\ ~ passed' /\ passed' \in BOOLEAN
  BY DEF EvaluatorTick
<1>2. EvaluatorTyped'
  BY <1>1 DEF NMInv, EvaluatorTyped
<1>3. ASSUME NEW p \in ready' PROVE Pursued(p[1], p[2])'
  <2>1. p \in Rule \X Target /\ Ready(p[1], p[2])'
    BY <1>3 DEF Watch
  <2> QED
    BY <1>1, <2>1 DEF Ready, Pursued
<1> QED
  BY <1>2, <1>3 DEF NMInv, AllPursued

LEMMA NMNextInv == ASSUME AEInv, NMInv, [AENext]_aeVars PROVE NMInv'
<1>1. CASE UNCHANGED aeVars
  BY <1>1 DEF aeVars, alertVars, evalVars, NMInv, EvaluatorTyped, AllPursued, Pursued, Sought,
              ReadAsIs, InCooldown, Crosses
<1>2. ASSUME NEW x \in Target, NEW c \in Condition, NEW v \in 0..MaxLevel, Report(x, c, v), Watch
      PROVE  NMInv'
  BY <1>2, EvaluatorAtRest DEF Report, alertVars, NMInv, EvaluatorTyped
<1>3. CASE AlertAdmin /\ Watch
  <2>1. UNCHANGED evalVars
    BY <1>3 DEF AlertAdmin, CreateRule, UpdateRule, DeleteRule
  <2>2. cooldown' \in [Rule -> Cooldowns]
    BY <1>3 DEF AlertAdmin, CreateRule, UpdateRule, DeleteRule, NMInv, EvaluatorTyped
  <2> QED
    BY <1>3, <2>1, <2>2, EvaluatorAtRest
<1>4. CASE Evaluator /\ Watch
  BY <1>4, LoopsBegin, PassEnds, Considers, Checks, NoneLeft, Fires DEF Evaluator
<1> QED
  BY <1>1, <1>2, <1>3, <1>4, NewUnit DEF AENext

(* A rule that is crossed all through the unit of time fires, for any rules *)
(* and targets and however others are edited, in both loops (evaluateRules, *)
(* evaluateServiceRules): after the pass none is left that was to fire.     *)
THEOREM PassMissesNone == AESpec => []NoneMissed
<1>1. NMInv => NoneMissed
  BY DEF NMInv, AllPursued, Pursued, NoneMissed
<1>2. QED
  BY AEInitInv, AENextInv, NMInitInv, NMNextInv, <1>1, PTL DEF AESpec
-----------------------------------------------------------------------------
(* What a page receives.  Every snapshot on its way to it is in one of      *)
(* three places: the channel of its connection, the writer, the wire.  In   *)
(* this order they hold newer and older ones, none newer than the last that *)
(* was taken, and none older than what the page has received.  A connection *)
(* is only used again when no page and no goroutine has to do with it.      *)
Rising(s) == \A i, j \in 1..Len(s) : i <= j => s[i] <= s[j]
AtMost(s, n) == \A i \in 1..Len(s) : s[i] <= n
AtLeast(s, n) == \A i \in 1..Len(s) : n <= s[i]
Follow(s, t) == \A i \in 1..Len(s), j \in 1..Len(t) : s[i] <= t[j]

PipesTyped ==
  /\ version \in Nat /\ payload \in Nat /\ payload <= version
  /\ chan \in [Conn -> Seq(Nat)] /\ wire \in [Conn -> Seq(Nat)] /\ out \in [Conn -> Nat]
  /\ DOMAIN writer = Conn /\ latest \in [Page -> Int] /\ ws \in [Page -> Conn \cup {NoConn}]

Pipe(c) ==
  /\ Rising(wire[c]) /\ Rising(chan[c]) /\ Follow(wire[c], chan[c])
  /\ AtMost(wire[c], payload) /\ AtMost(chan[c], payload)
  /\ writer[c] = "write" =>
       out[c] <= payload /\ AtMost(wire[c], out[c]) /\ AtLeast(chan[c], out[c])

Ahead(p, c) ==
  ws[p] = c => /\ AtLeast(wire[c], latest[p]) /\ AtLeast(chan[c], latest[p])
               /\ writer[c] = "write" => latest[p] <= out[c]

LOInv ==
  /\ PipesTyped
  /\ \A c \in Conn : Pipe(c)
  /\ \A p \in Page : latest[p] <= payload /\ \A c \in Conn : Ahead(p, c)

LEMMA TailOf ==
  ASSUME NEW s \in Seq(Nat), s # <<>>
  PROVE  /\ Tail(s) \in Seq(Nat) /\ Head(s) = s[1] /\ Len(s) \in Nat /\ 1 <= Len(s) /\ s[1] \in Nat
         /\ Len(Tail(s)) = Len(s) - 1 /\ \A i \in 1..Len(Tail(s)) : Tail(s)[i] = s[i + 1]
OBVIOUS

LEMMA AppendOf ==
  ASSUME NEW s \in Seq(Nat), NEW n \in Nat
  PROVE  /\ Append(s, n) \in Seq(Nat) /\ Len(s) \in Nat /\ Len(Append(s, n)) = Len(s) + 1
         /\ \A i \in 1..Len(Append(s, n)) : Append(s, n)[i] = IF i = Len(s) + 1 THEN n ELSE s[i]
OBVIOUS

(* The elements of a channel or wire that one was taken from or put to.     *)
LEMMA TailBounds ==
  ASSUME NEW s \in Seq(Nat), s # <<>>, Rising(s)
  PROVE  /\ Tail(s) \in Seq(Nat) /\ Rising(Tail(s)) /\ Head(s) \in Nat /\ AtLeast(Tail(s), Head(s))
         /\ \A n \in Int : AtMost(s, n) => AtMost(Tail(s), n) /\ Head(s) <= n
         /\ \A n \in Int : AtLeast(s, n) => AtLeast(Tail(s), n) /\ n <= Head(s)
         /\ \A t \in Seq(Nat) : Follow(s, t) => Follow(Tail(s), t) /\ AtLeast(t, Head(s))
         /\ \A t \in Seq(Nat) : Follow(t, s) => Follow(t, Tail(s)) /\ AtMost(t, Head(s))
<1> DEFINE u == Tail(s)
           h == Head(s)
<1>1. /\ u \in Seq(Nat) /\ h = s[1] /\ Len(s) \in Nat /\ 1 <= Len(s) /\ s[1] \in Nat
      /\ Len(u) = Len(s) - 1 /\ \A i \in 1..Len(u) : u[i] = s[i + 1]
  BY TailOf
<1> HIDE DEF u, h
<1>2. \A i \in 1..Len(u) : i + 1 \in 1..Len(s)
  BY <1>1
<1>3. 1 \in 1..Len(s)
  BY <1>1
<1>4. Rising(u) /\ AtLeast(u, h)
  <2>1. ASSUME NEW i \in 1..Len(u), NEW j \in 1..Len(u), i <= j PROVE u[i] <= u[j]
    <3>1. i + 1 <= j + 1 /\ u[i] = s[i + 1] /\ u[j] = s[j + 1]
      BY <1>1, <2>1
    <3>2. s[i + 1] <= s[j + 1]
      BY <1>2, <3>1 DEF Rising
    <3> QED
      BY <3>1, <3>2
  <2>2. ASSUME NEW i \in 1..Len(u) PROVE h <= u[i]
    <3>1. 1 <= i + 1 /\ u[i] = s[i + 1]
      BY <1>1
    <3>2. s[1] <= s[i + 1]
      BY <1>2, <1>3, <3>1 DEF Rising
    <3> QED
      BY <1>1, <3>1, <3>2
  <2> QED
    BY <2>1, <2>2 DEF Rising, AtLeast
<1>5. \A n \in Int : /\ AtMost(s, n) => AtMost(u, n) /\ h <= n
                     /\ AtLeast(s, n) => AtLeast(u, n) /\ n <= h
  BY <1>1, <1>2, <1>3 DEF AtMost, AtLeast
<1>6. \A t \in Seq(Nat) : Follow(s, t) => Follow(u, t) /\ AtLeast(t, h)
  BY <1>1, <1>2, <1>3 DEF Follow, AtLeast
<1>7. \A t \in Seq(Nat) : Follow(t, s) => Follow(t, u) /\ AtMost(t, h)
  BY <1>1, <1>2, <1>3 DEF Follow, AtMost
<1> QED
  BY <1>1, <1>4, <1>5, <1>6, <1>7 DEF u, h

LEMMA AppendBounds ==
  ASSUME NEW s \in Seq(Nat), NEW n \in Nat, Rising(s), AtMost(s, n)
  PROVE  /\ Append(s, n) \in Seq(Nat) /\ Rising(Append(s, n)) /\ AtMost(Append(s, n), n)
         /\ \A m \in Int : n <= m /\ AtMost(s, m) => AtMost(Append(s, n), m)
         /\ \A m \in Int : AtLeast(s, m) /\ m <= n => AtLeast(Append(s, n), m)
         /\ \A t \in Seq(Nat) : Follow(s, t) /\ AtLeast(t, n) => Follow(Append(s, n), t)
         /\ \A t \in Seq(Nat) : Follow(t, s) /\ AtMost(t, n) => Follow(t, Append(s, n))
<1> DEFINE u == Append(s, n)
<1>1. /\ u \in Seq(Nat) /\ Len(s) \in Nat /\ Len(u) = Len(s) + 1
      /\ \A i \in 1..Len(u) : u[i] = IF i = Len(s) + 1 THEN n ELSE s[i]
  BY AppendOf
<1> HIDE DEF u
<1>2. \A i \in 1..Len(u) : (i = Len(s) + 1 /\ u[i] = n) \/ (i \in 1..Len(s) /\ u[i] = s[i])
  BY <1>1
<1>3. \A i \in 1..Len(s) : s[i] \in Nat
  OBVIOUS
<1>4. Rising(u) /\ AtMost(u, n)
  <2>1. ASSUME NEW i \in 1..Len(u) PROVE u[i] <= n /\ u[i] \in Nat
    BY <1>2, <1>3, <2>1 DEF AtMost
  <2>2. ASSUME NEW i \in 1..Len(u), NEW j \in 1..Len(u), i <= j PROVE u[i] <= u[j]
    <3>1. CASE j = Len(s) + 1
      BY <1>1, <2>1, <3>1
    <3>2. CASE j \in 1..Len(s)
      <4>1. i \in 1..Len(s) /\ u[i] = s[i] /\ u[j] = s[j]
        BY <1>1, <1>2, <2>2, <3>2
      <4> QED
        BY <2>2, <3>2, <4>1 DEF Rising
    <3> QED
      BY <1>2, <3>1, <3>2
  <2> QED
    BY <2>1, <2>2 DEF Rising, AtMost
<1>5. \A m \in Int : /\ n <= m /\ AtMost(s, m) => AtMost(u, m)
                     /\ AtLeast(s, m) /\ m <= n => AtLeast(u, m)
  BY <1>1, <1>2 DEF AtMost, AtLeast
<1>6. \A t \in Seq(Nat) : Follow(s, t) /\ AtLeast(t, n) => Follow(u, t)
  BY <1>1, <1>2 DEF Follow, AtLeast
<1>7. \A t \in Seq(Nat) : Follow(t, s) /\ AtMost(t, n) => Follow(t, u)
  BY <1>1, <1>2 DEF Follow, AtMost
<1> QED
  BY <1>1, <1>4, <1>5, <1>6, <1>7 DEF u

LEMMA LOInitInv == LDInit => LOInv
<1> SUFFICES ASSUME LDInit PROVE LOInv
  OBVIOUS
<1>1. PipesTyped
  BY DEF LDInit, PipesTyped
<1>2. \A c \in Conn : Pipe(c)
  BY DEF LDInit, Pipe, Rising, Follow, AtMost
<1>3. \A p \in Page : latest[p] <= payload /\ \A c \in Conn : Ahead(p, c)
  BY NoConnAssumption DEF LDInit, Ahead, NoConn
<1> QED
  BY <1>1, <1>2, <1>3 DEF LOInv

(* Steps that move nothing: pages may leave, and writers stop.              *)
LEMMA PipesAtRest ==
  ASSUME LOInv, version' \in Nat, version <= version', payload' = payload,
         UNCHANGED <<chan, wire, out, latest>>, ws' \in [Page -> Conn \cup {NoConn}],
         DOMAIN writer' = Conn, \A c \in Conn : writer'[c] = "write" => writer[c] = "write",
         \A p \in Page, c \in Conn : ws'[p] = c => ws[p] = c
  PROVE  LOInv'
<1>1. PipesTyped'
  BY DEF LOInv, PipesTyped
<1>2. \A c \in Conn : Pipe(c)'
  BY DEF LOInv, Pipe
<1>3. \A p \in Page : (latest[p] <= payload)' /\ \A c \in Conn : Ahead(p, c)'
  BY DEF LOInv, Ahead
<1> QED
  BY <1>1, <1>2, <1>3 DEF LOInv

LEMMA PipeConnects ==
  ASSUME LOInv, NEW p \in Page, NEW c \in Conn, Connect(p, c)
  PROVE  LOInv'
<1>1. /\ ws' = [ws EXCEPT ![p] = c] /\ wire' = [wire EXCEPT ![c] = <<>>] /\ chan' = [chan EXCEPT ![c] = <<>>]
      /\ writer' = [writer EXCEPT ![c] = "take"] /\ UNCHANGED <<version, payload, out, latest>>
      /\ \A q \in Page : ws[q] # c
  BY DEF Connect, Free, castVars
<1>2. PipesTyped'
  BY <1>1 DEF LOInv, PipesTyped
<1>3. ASSUME NEW d \in Conn PROVE Pipe(d)'
  <2>1. CASE d = c
    BY <1>1, <2>1 DEF LOInv, PipesTyped, Pipe, Rising, Follow, AtMost
  <2>2. CASE d # c
    BY <1>1, <2>2 DEF LOInv, PipesTyped, Pipe
  <2> QED
    BY <2>1, <2>2
<1>4. ASSUME NEW q \in Page, NEW d \in Conn PROVE Ahead(q, d)'
  <2>1. CASE d = c
    BY <1>1, <2>1 DEF LOInv, PipesTyped, Ahead, AtLeast
  <2>2. CASE d # c
    BY <1>1, <2>2 DEF LOInv, PipesTyped, Ahead
  <2> QED
    BY <2>1, <2>2
<1> QED
  BY <1>1, <1>2, <1>3, <1>4 DEF LOInv

LEMMA PrepareStep == ASSUME LOInv, Prepare PROVE LOInv'
<1>1. /\ payload' = version /\ UNCHANGED <<version, chan, wire, out, writer, latest, ws>>
      /\ payload \in Nat /\ version \in Nat /\ payload <= version
  BY DEF Prepare, hubVars, connVars, netVars, pageVars, LOInv, PipesTyped
<1>2. PipesTyped'
  BY <1>1 DEF LOInv, PipesTyped
<1>3. ASSUME NEW c \in Conn PROVE Pipe(c)'
  <2>1. wire[c] \in Seq(Nat) /\ chan[c] \in Seq(Nat) /\ out[c] \in Nat
    BY DEF LOInv, PipesTyped
  <2>2. \A s \in Seq(Nat) : AtMost(s, payload) => AtMost(s, version)
    BY <1>1 DEF AtMost
  <2> QED
    BY <1>1, <2>1, <2>2 DEF LOInv, Pipe
<1>4. ASSUME NEW p \in Page PROVE (latest[p] <= payload)' /\ \A c \in Conn : Ahead(p, c)'
  <2>1. latest[p] \in Int /\ latest[p] <= payload
    BY DEF LOInv, PipesTyped
  <2> QED
    BY <1>1, <2>1 DEF LOInv, Ahead
<1> QED
  BY <1>2, <1>3, <1>4 DEF LOInv

LEMMA PipeSends == ASSUME LOInv, NEW c \in Conn, Send(c) PROVE LOInv'
<1>1. /\ chan' = chan \/ chan' = [chan EXCEPT ![c] = Append(@, payload)]
      /\ UNCHANGED <<version, payload, wire, out, writer, latest, ws>>
  BY DEF Send, connVars, netVars, pageVars
<1>2. CASE chan' = chan
  BY <1>1, <1>2, PipesAtRest DEF LOInv, PipesTyped
<1>3. CASE chan' = [chan EXCEPT ![c] = Append(@, payload)]
  <2>1. /\ chan[c] \in Seq(Nat) /\ wire[c] \in Seq(Nat) /\ out[c] \in Nat /\ payload \in Nat
        /\ Pipe(c)
    BY DEF LOInv, PipesTyped
  <2>2. /\ chan'[c] \in Seq(Nat) /\ Rising(chan'[c]) /\ AtMost(chan'[c], payload)
        /\ \A m \in Int : AtLeast(chan[c], m) /\ m <= payload => AtLeast(chan'[c], m)
        /\ \A t \in Seq(Nat) : Follow(t, chan[c]) /\ AtMost(t, payload) => Follow(t, chan'[c])
    BY <1>3, <2>1, AppendBounds DEF LOInv, PipesTyped, Pipe
  <2>3. PipesTyped'
    BY <1>1, <1>3, <2>2 DEF LOInv, PipesTyped
  <2>4. ASSUME NEW d \in Conn PROVE Pipe(d)'
    <3>1. CASE d = c
      BY <1>1, <2>1, <2>2, <3>1 DEF Pipe
    <3>2. CASE d # c
      BY <1>1, <1>3, <3>2 DEF LOInv, PipesTyped, Pipe
    <3> QED
      BY <3>1, <3>2
  <2>5. ASSUME NEW p \in Page, NEW d \in Conn PROVE Ahead(p, d)'
    <3>1. latest[p] \in Int /\ latest[p] <= payload /\ Ahead(p, d)
      BY DEF LOInv, PipesTyped
    <3>2. CASE d = c
      BY <1>1, <2>2, <3>1, <3>2 DEF Ahead
    <3>3. CASE d # c
      BY <1>1, <1>3, <3>1, <3>3 DEF LOInv, PipesTyped, Ahead
    <3> QED
      BY <3>2, <3>3
  <2> QED
    BY <1>1, <2>3, <2>4, <2>5 DEF LOInv
<1> QED
  BY <1>1, <1>2, <1>3

LEMMA TakeStep == ASSUME LOInv, NEW c \in Conn, Take(c) PROVE LOInv'
<1>1. /\ chan[c] # <<>> /\ out' = [out EXCEPT ![c] = Head(chan[c])]
      /\ chan' = [chan EXCEPT ![c] = Tail(@)] /\ writer' = [writer EXCEPT ![c] = "write"]
      /\ UNCHANGED <<version, payload, wire, latest, ws>>
  BY DEF Take, castVars, netVars, pageVars
<1>2. /\ chan[c] \in Seq(Nat) /\ wire[c] \in Seq(Nat) /\ payload \in Nat /\ Pipe(c)
  BY DEF LOInv, PipesTyped
<1>3. /\ chan'[c] = Tail(chan[c]) /\ out'[c] = Head(chan[c])
  BY <1>1 DEF LOInv, PipesTyped
<1>4. /\ chan'[c] \in Seq(Nat) /\ Rising(chan'[c]) /\ out'[c] \in Nat /\ AtLeast(chan'[c], out'[c])
      /\ \A n \in Int : AtMost(chan[c], n) => AtMost(chan'[c], n) /\ out'[c] <= n
      /\ \A n \in Int : AtLeast(chan[c], n) => AtLeast(chan'[c], n) /\ n <= out'[c]
      /\ \A t \in Seq(Nat) : Follow(t, chan[c]) => Follow(t, chan'[c]) /\ AtMost(t, out'[c])
  BY <1>1, <1>2, <1>3, TailBounds DEF Pipe
<1>5. PipesTyped'
  BY <1>1, <1>4 DEF LOInv, PipesTyped
<1>6. ASSUME NEW d \in Conn PROVE Pipe(d)'
  <2>1. CASE d = c
    BY <1>1, <1>2, <1>4, <2>1 DEF Pipe
  <2>2. CASE d # c
    BY <1>1, <2>2 DEF LOInv, PipesTyped, Pipe
  <2> QED
    BY <2>1, <2>2
<1>7. ASSUME NEW p \in Page, NEW d \in Conn PROVE Ahead(p, d)'
  <2>1. latest[p] \in Int /\ Ahead(p, d)
    BY DEF LOInv, PipesTyped
  <2>2. CASE d = c
    BY <1>1, <1>4, <2>1, <2>2 DEF Ahead
  <2>3. CASE d # c
    BY <1>1, <2>1, <2>3 DEF LOInv, PipesTyped, Ahead
  <2> QED
    BY <2>2, <2>3
<1> QED
  BY <1>1, <1>5, <1>6, <1>7 DEF LOInv

LEMMA WriteStep == ASSUME LOInv, NEW c \in Conn, WriteMessage(c) PROVE LOInv'
<1>1. /\ writer[c] = "write" /\ wire' = [wire EXCEPT ![c] = Append(@, out[c])]
      /\ writer' = [writer EXCEPT ![c] = "take"]
      /\ UNCHANGED <<version, payload, chan, out, latest, ws>>
  BY DEF WriteMessage, hubVars, castVars, pageVars
<1>2. /\ chan[c] \in Seq(Nat) /\ wire[c] \in Seq(Nat) /\ payload \in Nat /\ out[c] \in Nat /\ Pipe(c)
  BY DEF LOInv, PipesTyped
<1>3. wire'[c] = Append(wire[c], out[c]) /\ writer'[c] = "take"
  BY <1>1 DEF LOInv, PipesTyped
<1>4. /\ wire'[c] \in Seq(Nat) /\ Rising(wire'[c])
      /\ \A m \in Int : out[c] <= m /\ AtMost(wire[c], m) => AtMost(wire'[c], m)
      /\ \A m \in Int : AtLeast(wire[c], m) /\ m <= out[c] => AtLeast(wire'[c], m)
      /\ \A t \in Seq(Nat) : Follow(wire[c], t) /\ AtLeast(t, out[c]) => Follow(wire'[c], t)
  BY <1>1, <1>2, <1>3, AppendBounds DEF Pipe
<1>5. PipesTyped'
  BY <1>1, <1>4 DEF LOInv, PipesTyped
<1>6. ASSUME NEW d \in Conn PROVE Pipe(d)'
  <2>1. CASE d = c
    BY <1>1, <1>2, <1>3, <1>4, <2>1 DEF Pipe
  <2>2. CASE d # c
    BY <1>1, <2>2 DEF LOInv, PipesTyped, Pipe
  <2> QED
    BY <2>1, <2>2
<1>7. ASSUME NEW p \in Page, NEW d \in Conn PROVE Ahead(p, d)'
  <2>1. latest[p] \in Int /\ Ahead(p, d)
    BY DEF LOInv, PipesTyped
  <2>2. CASE d = c
    BY <1>1, <1>3, <1>4, <2>1, <2>2 DEF Ahead
  <2>3. CASE d # c
    BY <1>1, <2>1, <2>3 DEF LOInv, PipesTyped, Ahead
  <2> QED
    BY <2>2, <2>3
<1> QED
  BY <1>1, <1>5, <1>6, <1>7 DEF LOInv

(* What a page receives is not older than what it had.                      *)
LEMMA ReceiveStep ==
  ASSUME LOInv, NEW p \in Page, NEW c \in Conn, Receive(p, c)
  PROVE  LOInv' /\ \A q \in Page : latest'[q] >= latest[q]
<1>1. /\ ws[p] = c /\ wire[c] # <<>> /\ latest' = [latest EXCEPT ![p] = Head(wire[c])]
      /\ wire' = [wire EXCEPT ![c] = Tail(@)]
      /\ UNCHANGED <<version, payload, chan, out, writer, ws>>
  BY DEF Receive, hubVars, castVars, connVars
<1>2. /\ chan[c] \in Seq(Nat) /\ wire[c] \in Seq(Nat) /\ payload \in Nat /\ out[c] \in Nat /\ Pipe(c)
      /\ latest[p] \in Int /\ Ahead(p, c)
  BY DEF LOInv, PipesTyped
<1>3. wire'[c] = Tail(wire[c]) /\ latest'[p] = Head(wire[c])
  BY <1>1 DEF LOInv, PipesTyped
<1>4. /\ wire'[c] \in Seq(Nat) /\ Rising(wire'[c]) /\ latest'[p] \in Nat /\ AtLeast(wire'[c], latest'[p])
      /\ \A n \in Int : AtMost(wire[c], n) => AtMost(wire'[c], n) /\ latest'[p] <= n
      /\ \A n \in Int : AtLeast(wire[c], n) => AtLeast(wire'[c], n) /\ n <= latest'[p]
      /\ \A t \in Seq(Nat) : Follow(wire[c], t) => Follow(wire'[c], t) /\ AtLeast(t, latest'[p])
  BY <1>1, <1>2, <1>3, TailBounds DEF Pipe
<1>5. PipesTyped'
  BY <1>1, <1>4 DEF LOInv, PipesTyped
<1>6. ASSUME NEW d \in Conn PROVE Pipe(d)'
  <2>1. CASE d = c
    BY <1>1, <1>2, <1>4, <2>1 DEF Pipe
  <2>2. CASE d # c
    BY <1>1, <2>2 DEF LOInv, PipesTyped, Pipe
  <2> QED
    BY <2>1, <2>2
<1>7. ASSUME NEW q \in Page
      PROVE  /\ (latest[q] <= payload)' /\ latest'[q] >= latest[q]
             /\ \A d \in Conn : Ahead(q, d)'
  <2>1. CASE q = p
    <3>1. latest'[p] <= payload /\ latest[p] <= latest'[p]
      BY <1>1, <1>2, <1>4 DEF Pipe, Ahead
    <3>2. ASSUME NEW d \in Conn, ws[p] = d PROVE Ahead(p, d)'
      BY <1>1, <1>2, <1>4, <3>2 DEF Pipe, Ahead
    <3> QED
      BY <1>1, <1>2, <1>4, <2>1, <3>1, <3>2 DEF Ahead
  <2>2. CASE q # p
    <3>1. latest'[q] = latest[q] /\ latest[q] \in Int /\ latest[q] <= payload
      BY <1>1, <2>2 DEF LOInv, PipesTyped
    <3>2. ASSUME NEW d \in Conn PROVE Ahead(q, d)'
      <4>1. CASE d = c
        BY <1>1, <1>4, <3>1, <4>1 DEF LOInv, Ahead
      <4>2. CASE d # c
        BY <1>1, <3>1, <4>2 DEF LOInv, PipesTyped, Ahead
      <4> QED
        BY <4>1, <4>2
    <3> QED
      BY <1>1, <3>1, <3>2
  <2> QED
    BY <2>1, <2>2
<1> QED
  BY <1>5, <1>6, <1>7 DEF LOInv

LEMMA ReloadStep == ASSUME LOInv, NEW p \in Page, Reload(p) PROVE LOInv'
<1>1. /\ ws' = [ws EXCEPT ![p] = NoConn] /\ latest' = [latest EXCEPT ![p] = -1]
      /\ UNCHANGED <<version, payload, chan, wire, out, writer>>
  BY DEF Reload, hubVars, castVars, connVars
<1>2. PipesTyped' /\ \A c \in Conn : Pipe(c)'
  BY <1>1 DEF LOInv, PipesTyped, Pipe
<1>3. ASSUME NEW q \in Page PROVE (latest[q] <= payload)' /\ \A c \in Conn : Ahead(q, c)'
  <2>1. CASE q = p
    BY <1>1, <2>1, NoConnAssumption DEF LOInv, PipesTyped, Ahead, NoConn
  <2>2. CASE q # p
    BY <1>1, <2>2 DEF LOInv, PipesTyped, Ahead
  <2> QED
    BY <2>1, <2>2
<1> QED
  BY <1>2, <1>3 DEF LOInv

(* Writers that end, breaks, and the pages' requests.                       *)
LEMMA OtherSteps ==
  ASSUME LOInv,
         \/ UNCHANGED ldVars \/ Change \/ NoClients \/ Lock \/ Unlock
         \/ \E c \in Conn : \/ ChannelEnds(c) \/ WriteFails(c) \/ WriterRemoves(c) \/ WriterCloses(c)
                            \/ Reader(c) \/ Break(c)
         \/ \E p \in Page : \/ OpenTab(p) \/ OnClose(p) \/ Answer(p) \/ Seed(p) \/ SeedFails(p)
  PROVE  LOInv' /\ UNCHANGED latest
<1>1. version' \in Nat /\ version <= version'
  BY DEF LOInv, PipesTyped, ldVars, Change, NoClients, Lock, Unlock, ChannelEnds, WriteFails, WriterRemoves,
         WriterCloses, Reader, ReadFails, ReaderRemoves, ReaderCloses, Break, OpenTab, OnClose, Answer, Seed,
         SeedFails
<1>2. UNCHANGED <<payload, chan, wire, out, latest>>
  BY DEF ldVars, hubVars, castVars, connVars, netVars, pageVars, Change, NoClients, Lock, Unlock, ChannelEnds,
         WriteFails, WriterRemoves, WriterCloses, RemoveConn, Reader, ReadFails, ReaderRemoves, ReaderCloses,
         Break, OpenTab, OnClose, Answer, Seed, SeedFails
<1>3. /\ DOMAIN writer' = Conn
      /\ \A c \in Conn : writer'[c] = "write" => writer[c] = "write"
  BY DEF LOInv, PipesTyped, ldVars, connVars, Change, NoClients, Lock, Unlock, ChannelEnds, WriteFails,
         WriterRemoves, WriterCloses, Reader, ReadFails, ReaderRemoves, ReaderCloses, Break, OpenTab, OnClose,
         Answer, Seed, SeedFails
<1>4. /\ ws' \in [Page -> Conn \cup {NoConn}]
      /\ \A p \in Page, c \in Conn : ws'[p] = c => ws[p] = c
  BY NoConnAssumption DEF LOInv, PipesTyped, NoConn, ldVars, pageVars, Change, NoClients, Lock, Unlock,
                          ChannelEnds, WriteFails, WriterRemoves, WriterCloses, Reader, ReadFails,
                          ReaderRemoves, ReaderCloses, Break, OpenTab, OnClose, Answer, Seed, SeedFails
<1> QED
  BY <1>1, <1>2, <1>3, <1>4, PipesAtRest

LEMMA LOKept == ASSUME LOInv, [LDNext]_ldVars PROVE LOInv'
<1>1. CASE \/ UNCHANGED ldVars \/ Change \/ NoClients \/ Lock \/ Unlock
           \/ \E c \in Conn : \/ ChannelEnds(c) \/ WriteFails(c) \/ WriterRemoves(c) \/ WriterCloses(c)
                              \/ Reader(c) \/ Break(c)
           \/ \E p \in Page : \/ OpenTab(p) \/ OnClose(p) \/ Answer(p) \/ Seed(p) \/ SeedFails(p)
  BY <1>1, OtherSteps
<1>2. CASE Prepare \/ (\E c \in Conn : Send(c) \/ Take(c) \/ WriteMessage(c))
           \/ (\E p \in Page, c \in Conn : Connect(p, c) \/ Receive(p, c))
           \/ (\E p \in Page : Reload(p))
  BY <1>2, PrepareStep, PipeSends, TakeStep, WriteStep, PipeConnects, ReceiveStep, ReloadStep
<1> QED
  BY <1>1, <1>2 DEF LDNext, Broadcaster, Writer

(* The steps of the dashboard as steps of the feed, with the pages that     *)
(* have a connection under a name.                                          *)
Listening == {p \in Page : ws[p] # NoConn}

LEMMA ConnectIsJoin ==
  ASSUME LOInv, NEW p \in Page, NEW c \in Conn, Connect(p, c)
  PROVE  Feed!Join(p)
<1>1. /\ ws[p] = NoConn /\ ws' = [ws EXCEPT ![p] = c] /\ UNCHANGED <<version, latest>>
      /\ ws \in [Page -> Conn \cup {NoConn}] /\ c # NoConn
  BY NoConnAssumption DEF Connect, LOInv, PipesTyped, NoConn
<1>2. p \notin Listening /\ Listening' = Listening \cup {p}
  BY <1>1 DEF Listening
<1> QED
  BY <1>1, <1>2 DEF Feed!Join, Listening

LEMMA LeaveIsDrop ==
  ASSUME LOInv, NEW p \in Page, ws[p] # NoConn, ws' = [ws EXCEPT ![p] = NoConn]
  PROVE  p \in Listening /\ Listening' = Listening \ {p}
BY DEF LOInv, PipesTyped, Listening

LEMMA ReceiveIsBring ==
  ASSUME LOInv, NEW p \in Page, NEW c \in Conn, Receive(p, c)
  PROVE  Feed!Bring(p)
<1>1. /\ ws[p] = c /\ wire[c] # <<>> /\ latest' = [latest EXCEPT ![p] = Head(wire[c])]
      /\ UNCHANGED <<version, ws>> /\ wire[c] \in Seq(Nat) /\ c # NoConn
      /\ latest \in [Page -> Int] /\ version \in Nat
  BY NoConnAssumption DEF Receive, LOInv, PipesTyped, NoConn
<1>2. latest'[p] = Head(wire[c]) /\ Head(wire[c]) \in Nat
  BY <1>1
<1>3. LOInv' /\ latest'[p] >= latest[p]
  BY ReceiveStep
<1>4. /\ latest'[p] <= payload' /\ payload' <= version'
      /\ latest'[p] \in Int /\ payload' \in Nat /\ version' \in Nat
  BY <1>3 DEF LOInv, PipesTyped
<1>5. Head(wire[c]) \in 0..version /\ Head(wire[c]) >= latest[p]
  BY <1>1, <1>2, <1>3, <1>4
<1>6. p \in Listening /\ UNCHANGED Listening
  BY <1>1 DEF Listening
<1> QED
  BY <1>1, <1>5, <1>6 DEF Feed!Bring, Listening

(* What is brought to a page is never older than what it had nor newer than *)
(* what is stored, for any pages, connections and sizes of buffers, also    *)
(* over a new connection while the old one's writer is still at work, and   *)
(* whatever is dropped for a slow page (hub.go): the hub implements the     *)
(* feed.                                                                    *)
THEOREM LiveImplementsFeed == LDSpec => ImplementsLiveFeed
<1>1. LDInit => Feed!LFInit
  <2> SUFFICES ASSUME LDInit PROVE Feed!LFInit
    OBVIOUS
  <2>1. version = 0 /\ latest = [p \in Page |-> -1] /\ {p \in Page : ws[p] # NoConn} = {}
    BY DEF LDInit
  <2> QED
    BY <2>1 DEF Feed!LFInit, Feed!Nothing
<1>2. LOInv /\ [LDNext]_ldVars => [Feed!LFNext]_(Feed!feedVars)
  <2> SUFFICES ASSUME LOInv, [LDNext]_ldVars PROVE [Feed!LFNext]_(Feed!feedVars)
    OBVIOUS
  <2>1. CASE Change
    <3>1. Feed!Publish
      BY <2>1 DEF Change, pageVars, Feed!Publish
    <3> QED
      BY <3>1 DEF Feed!LFNext
  <2>2. ASSUME NEW p \in Page, NEW c \in Conn, Connect(p, c) PROVE Feed!LFNext
    BY <2>2, ConnectIsJoin DEF Feed!LFNext
  <2>3. ASSUME NEW p \in Page, NEW c \in Conn, Receive(p, c) PROVE Feed!LFNext
    BY <2>3, ReceiveIsBring DEF Feed!LFNext
  <2>4. ASSUME NEW p \in Page, OnClose(p) PROVE Feed!LFNext
    <3>1. ws[p] # NoConn /\ ws' = [ws EXCEPT ![p] = NoConn] /\ UNCHANGED <<version, latest>>
      BY <2>4 DEF OnClose
    <3>2. Feed!Drop(p)
      BY <3>1, LeaveIsDrop DEF Feed!Drop, Listening
    <3> QED
      BY <3>2 DEF Feed!LFNext
  <2>5. ASSUME NEW p \in Page, Reload(p) PROVE Feed!LFNext
    <3>1. /\ ws[p] # NoConn /\ ws' = [ws EXCEPT ![p] = NoConn] /\ UNCHANGED version
          /\ latest' = [latest EXCEPT ![p] = -1]
      BY <2>5 DEF Reload
    <3>2. Feed!LoadAnew(p)
      BY <3>1, LeaveIsDrop DEF Feed!LoadAnew, Feed!Nothing, Listening
    <3> QED
      BY <3>2 DEF Feed!LFNext
  <2>6. CASE \/ UNCHANGED ldVars \/ Prepare \/ NoClients \/ Lock \/ Unlock
             \/ \E c \in Conn : \/ Send(c) \/ Take(c) \/ ChannelEnds(c) \/ WriteMessage(c)
                                \/ WriteFails(c) \/ WriterRemoves(c) \/ WriterCloses(c)
                                \/ Reader(c) \/ Break(c)
             \/ \E p \in Page : OpenTab(p) \/ Answer(p) \/ Seed(p) \/ SeedFails(p)
    <3>1. UNCHANGED <<version, ws, latest>>
      BY <2>6 DEF ldVars, pageVars, Prepare, NoClients, Lock, Unlock, Send, Take, ChannelEnds, WriteMessage,
                  WriteFails, WriterRemoves, WriterCloses, Reader, ReadFails, ReaderRemoves, ReaderCloses,
                  Break, OpenTab, Answer, Seed, SeedFails
    <3> QED
      BY <3>1 DEF Feed!feedVars
  <2> QED
    BY <2>1, <2>2, <2>3, <2>4, <2>5, <2>6 DEF LDNext, Broadcaster, Writer
<1>3. LOInv /\ [LDNext]_ldVars => LOInv'
  BY LOKept
<1> QED
  BY LOInitInv, <1>1, <1>2, <1>3, PTL DEF LDSpec, ImplementsLiveFeed, Feed!LFSpec
-----------------------------------------------------------------------------
(* The types of the loops.  A log that is cut keeps within its limit; what  *)
(* is in it stays an entry as more ids come in use.                         *)
LEMMA LogCut ==
  ASSUME NEW S, NEW s \in Seq(S), NEW n \in Nat \ {0}, Len(s) <= n, NEW e \in S
  PROVE  LET all == Append(s, e)
             log == IF Len(all) > n THEN Tail(all) ELSE all
         IN  log \in Seq(S) /\ Len(log) <= n
<1> DEFINE all == Append(s, e)
           log == IF Len(all) > n THEN Tail(all) ELSE all
<1>1. all \in Seq(S) /\ Len(s) \in Nat /\ Len(all) = Len(s) + 1
  OBVIOUS
<1> HIDE DEF all
<1>2. CASE Len(all) > n
  <2>1. all # <<>>
    BY <1>1
  <2>2. Tail(all) \in Seq(S) /\ Len(Tail(all)) = Len(all) - 1
    BY <1>1, <2>1
  <2> QED
    BY <1>1, <1>2, <2>2
<1>3. CASE ~ (Len(all) > n)
  BY <1>1, <1>3
<1> QED
  BY <1>2, <1>3

LEMMA LogOfMore ==
  ASSUME NEW S, NEW T, S \subseteq T, NEW s \in Seq(S)
  PROVE  s \in Seq(T)
OBVIOUS

-----------------------------------------------------------------------------
Logged == executions \in Seq(usedTasks \X BOOLEAN) /\ Len(executions) <= MaxHistory
LeftKept == left \in [CronTask -> (- MaxLate)..Never]
FlagsKept ==
  /\ enabled \in [CronTask -> BOOLEAN] /\ scanned \in BOOLEAN
  /\ triggers \subseteq usedTasks /\ awake \subseteq tasks
CRKept == Logged /\ LeftKept /\ FlagsKept

LEMMA CRTypes == CRInv /\ CRKept => CRTypeOK
<1> SUFFICES ASSUME CRInv, CRKept PROVE CRTypeOK
  OBVIOUS
<1>1. \A t \in CronTask : runs[t] \in Nat
  BY DEF CRInv, CRTyped
<1>2. executions \in Seq(usedTasks \X BOOLEAN) /\ Len(executions) <= MaxHistory
  BY DEF CRKept, Logged
<1> QED
  BY <1>1, <1>2 DEF CRInv, CRTyped, CRKept, LeftKept, FlagsKept, CRTypeOK

LEMMA CRInitKept == CRInit => CRKept
<1> SUFFICES ASSUME CRInit PROVE CRKept
  OBVIOUS
<1>1. Logged
  BY CronLimits DEF CRInit, Logged
<1>2. Never \in (- MaxLate)..Never
  BY PeriodsAssumption, CronLimits DEF Never
<1>3. LeftKept /\ FlagsKept
  BY <1>2 DEF CRInit, LeftKept, FlagsKept
<1> QED
  BY <1>1, <1>3 DEF CRKept

LEMMA NextRunRange ==
  ASSUME time \in 0..(Cycle - 1), NEW p \in Periods \cup {NoSchedule}
  PROVE  NextRun(p) \in (- MaxLate)..Never
<1>1. NextRun(p) \in Int /\ NextRun(p) > 0
  BY NextRunAhead
<1>2. NextRun(p) <= Never
  <2>1. CASE p = NoSchedule
    BY <2>1, PeriodsAssumption DEF NextRun, Never
  <2>2. CASE p # NoSchedule
    <3>1. p \in Nat \ {0} /\ p <= Cycle /\ time \in Nat /\ Cycle \in Nat
      BY <2>2, PeriodsAssumption
    <3>2. (time % p) \in 0..(p - 1)
      BY <3>1, RemainderNext
    <3> QED
      BY <2>2, <3>1, <3>2 DEF NextRun, Never
  <2> QED
    BY <2>1, <2>2
<1> QED
  BY <1>1, <1>2, PeriodsAssumption, CronLimits DEF Never

LEMMA RecordKeeps ==
  ASSUME CRInv, CRKept, NEW t \in usedTasks, NEW manual \in BOOLEAN,
         RecordExecution(t, manual), UNCHANGED time
  PROVE  Logged' /\ LeftKept'
<1>1. Logged'
  <2> DEFINE e == <<t, manual>>
             all == Append(executions, e)
             log == IF Len(all) > MaxHistory THEN Tail(all) ELSE all
  <2>1. /\ executions \in Seq(usedTasks \X BOOLEAN) /\ Len(executions) <= MaxHistory
        /\ e \in usedTasks \X BOOLEAN /\ MaxHistory \in Nat \ {0}
    BY CronLimits DEF CRKept, Logged
  <2>2. executions' = log /\ usedTasks' = usedTasks
    BY DEF RecordExecution, Log
  <2> HIDE DEF e
  <2>3. log \in Seq(usedTasks \X BOOLEAN) /\ Len(log) <= MaxHistory
    BY <2>1, LogCut
  <2> HIDE DEF log
  <2> QED
    BY <2>2, <2>3 DEF Logged
<1>2. LeftKept'
  <2>1. t \in CronTask /\ NextRun(schedule[t]) \in (- MaxLate)..Never
    BY NextRunRange DEF CRInv, CRTyped
  <2>2. left' = IF t \in tasks THEN [left EXCEPT ![t] = NextRun(schedule[t])] ELSE left
    BY DEF RecordExecution
  <2> QED
    BY <2>1, <2>2 DEF CRKept, LeftKept
<1> QED
  BY <1>1, <1>2

(* Nothing is recorded, and no task is lost from use.                       *)
LEMMA LogKeeps ==
  ASSUME Logged, UNCHANGED executions, usedTasks \subseteq usedTasks'
  PROVE  Logged'
<1>1. usedTasks \X BOOLEAN \subseteq usedTasks' \X BOOLEAN
  OBVIOUS
<1>2. executions \in Seq(usedTasks' \X BOOLEAN)
  BY <1>1, LogOfMore DEF Logged
<1> QED
  BY <1>2 DEF Logged

LEMMA LaterRange == ASSUME NEW n \in (- MaxLate)..Never PROVE Later(n) \in (- MaxLate)..Never
<1>1. MaxLate \in Nat \ {0, 1} /\ Never \in Nat
  BY PeriodsAssumption, CronLimits DEF Never
<1> QED
  BY <1>1 DEF Later

LEMMA AdminKeeps ==
  ASSUME CRInv, CRKept, NEW t \in CronTask, NEW p \in Periods \cup {NoSchedule},
         Create(t, p) \/ SetSchedule(t, p)
  PROVE  CRKept'
<1>1. /\ left' = [left EXCEPT ![t] = NextRun(p)] /\ usedTasks \subseteq usedTasks'
      /\ tasks \subseteq tasks' /\ UNCHANGED <<executions, scanned, triggers, awake>>
  BY DEF Create, SetSchedule, runnerVars, historyVars
<1>2. NextRun(p) \in (- MaxLate)..Never
  BY NextRunRange DEF CRInv, CRTyped
<1>3. LeftKept' /\ Logged'
  BY <1>1, <1>2, LogKeeps DEF CRKept, LeftKept
<1>4. enabled' \in [CronTask -> BOOLEAN]
  BY DEF Create, SetSchedule, CRKept, FlagsKept
<1> QED
  BY <1>1, <1>3, <1>4 DEF CRKept, FlagsKept

LEMMA TickKeeps == ASSUME CRInv, CRKept, CronTick PROVE CRKept'
<1>1. Logged'
  BY LogKeeps DEF CronTick, CRKept
<1>2. LeftKept'
  BY LaterRange DEF CronTick, CRKept, LeftKept
<1>3. FlagsKept'
  BY DEF CronTick, CRKept, FlagsKept
<1> QED
  BY <1>1, <1>2, <1>3 DEF CRKept

LEMMA CRNextKept == ASSUME CRInv, CRKept, [CRNext]_crVars PROVE CRKept'
<1>1. CASE UNCHANGED crVars
  BY <1>1 DEF crVars, cronVars, runnerVars, historyVars, CRKept, Logged, LeftKept, FlagsKept
<1>2. ASSUME NEW t \in CronTask, NEW b \in BOOLEAN, SetEnabled(t, b) PROVE CRKept'
  <2>1. awake' \subseteq tasks'
    BY <1>2 DEF SetEnabled, CRKept, FlagsKept
  <2>2. enabled' \in [CronTask -> BOOLEAN]
    BY <1>2 DEF SetEnabled, CRKept, FlagsKept
  <2>3. UNCHANGED <<executions, usedTasks, left, scanned, triggers>>
    BY <1>2 DEF SetEnabled, runnerVars
  <2> QED
    BY <2>1, <2>2, <2>3 DEF CRKept, Logged, LeftKept, FlagsKept
<1>3. ASSUME NEW t \in CronTask, Delete(t) PROVE CRKept'
  <2>1. awake' \subseteq tasks'
    BY <1>3 DEF Delete, CRKept, FlagsKept
  <2>2. UNCHANGED <<executions, usedTasks, left, enabled, scanned, triggers>>
    BY <1>3 DEF Delete, runnerVars
  <2> QED
    BY <2>1, <2>2 DEF CRKept, Logged, LeftKept, FlagsKept
<1>4. ASSUME NEW t \in CronTask, TriggerNow(t) PROVE CRKept'
  <2>1. triggers' \subseteq usedTasks
    BY <1>4 DEF TriggerNow, CRInv, CRTyped, CRKept, FlagsKept
  <2>2. UNCHANGED <<executions, usedTasks, tasks, left, enabled, scanned, awake>>
    BY <1>4 DEF TriggerNow, cronVars, historyVars
  <2> QED
    BY <2>1, <2>2 DEF CRKept, Logged, LeftKept, FlagsKept
<1>5. ASSUME NEW t \in CronTask, TriggerRecorded(t) \/ RunTask(t) PROVE CRKept'
  <2>1. PICK manual \in BOOLEAN : RecordExecution(t, manual)
    BY <1>5 DEF TriggerRecorded, RunTask
  <2>2. t \in usedTasks /\ UNCHANGED time
    BY <1>5 DEF TriggerRecorded, RunTask, CRInv, CRTyped, CRKept, FlagsKept
  <2>3. Logged' /\ LeftKept'
    BY <2>1, <2>2, RecordKeeps
  <2>4. /\ triggers' \subseteq triggers
        /\ UNCHANGED <<tasks, usedTasks, enabled, scanned, awake>>
    BY <1>5, <2>1 DEF TriggerRecorded, RunTask, RecordExecution, historyVars
  <2> QED
    BY <2>3, <2>4 DEF CRKept, FlagsKept
<1>6. CASE DueTasks
  <2>1. scanned' = TRUE /\ UNCHANGED <<executions, usedTasks, tasks, left, enabled, triggers, awake>>
    BY <1>6 DEF DueTasks, cronVars, historyVars
  <2> QED
    BY <2>1 DEF CRKept, Logged, LeftKept, FlagsKept
<1> QED
  BY <1>1, <1>2, <1>3, <1>4, <1>5, <1>6, AdminKeeps, TickKeeps DEF CRNext, CronAdmin

(* Executions are of tasks that were stored, and as many as are kept.       *)
THEOREM CRTypeCorrect == CRSpec => []CRTypeOK
BY CRInitInv, CRNextInv, CRInitKept, CRNextKept, CRTypes, PTL DEF CRSpec

-----------------------------------------------------------------------------
(* Metrics.  A heartbeat on its way is for a row that was stored, and its   *)
(* point was read from one.                                                 *)
Point == (-1..MaxTime) \X Source
PointsKept ==
  /\ DOMAIN points = Server
  /\ \A s \in Server : points[s] \in Seq(Point) /\ Len(points[s]) <= MaxPoints
BeatKept(x) ==
  /\ x.at \in {"apply", "read"} => x = [at |-> x.at, srv |-> x.srv] /\ x.srv \in usedRows
  /\ x.at = "append" => x.srv \in usedRows /\ x.point \in Point
BeatsKept == DOMAIN beats = Beat /\ \A b \in Beat : BeatKept(beats[b])
SimKept ==
  /\ sim.at \in {"flag", "write", "append"} =>
       sim = [at |-> sim.at, now |-> sim.now, srv |-> sim.srv] /\ sim.srv \in Server
  /\ sim.at # "idle" => sim.now \in -1..MaxTime
SeenKept ==
  /\ rows \subseteq usedRows /\ usedRows \subseteq Server /\ rowsLeft \subseteq usedRows
  /\ online \subseteq usedRows /\ connected \subseteq usedRows
  /\ agentSeen \in [Server -> -1..MaxTime] /\ source \in [Server -> Source]
  /\ clock \in 0..MaxTime
TMKept == PointsKept /\ BeatsKept /\ SimKept /\ SeenKept

LEMMA TMTypes == TMInv /\ TMKept => TMTypeOK
<1> SUFFICES ASSUME TMInv, TMKept PROVE TMTypeOK
  OBVIOUS
<1>1. \A s \in Server : points[s] \in Seq((-1..MaxTime) \X Source) /\ Len(points[s]) <= MaxPoints
  BY DEF TMKept, PointsKept, Point
<1>2. \A s \in Server : faked[s] \in Nat
  BY DEF TMInv, RowsTyped
<1> QED
  BY <1>1, <1>2 DEF TMKept, SeenKept, TMTypeOK

LEMMA TMInitKept == TMInit => TMKept
<1> SUFFICES ASSUME TMInit PROVE TMKept
  OBVIOUS
<1>1. sim.at = "idle" /\ \A b \in Beat : beats[b].at = "idle"
  BY DEF TMInit, Idle
<1>2. BeatsKept /\ SimKept
  BY <1>1 DEF TMInit, BeatsKept, BeatKept, SimKept
<1>3. PointsKept
  <2>1. <<>> \in Seq(Point) /\ Len(<<>>) = 0
    OBVIOUS
  <2> QED
    BY <2>1, TelemetryLimits DEF TMInit, PointsKept
<1>4. -1 \in -1..MaxTime /\ 0 \in 0..MaxTime
  BY TelemetryLimits
<1>5. SeenKept
  BY <1>4, SampleAssumption DEF TMInit, SeenKept, Source
<1> QED
  BY <1>2, <1>3, <1>5 DEF TMKept

LEMMA PointAppended ==
  ASSUME PointsKept, NEW s \in Server, NEW p \in Point, AppendPoint(s, p)
  PROVE  PointsKept'
<1> DEFINE all == Append(points[s], p)
           log == IF Len(all) > MaxPoints THEN Tail(all) ELSE all
<1>1. points' = [points EXCEPT ![s] = log]
  BY DEF AppendPoint
<1>2. /\ points[s] \in Seq(Point) /\ Len(points[s]) <= MaxPoints /\ MaxPoints \in Nat \ {0}
  BY TelemetryLimits DEF PointsKept
<1>3. log \in Seq(Point) /\ Len(log) <= MaxPoints
  BY <1>2, LogCut
<1> HIDE DEF log
<1>4. DOMAIN points' = Server /\ \A u \in Server : points'[u] = IF u = s THEN log ELSE points[u]
  BY <1>1 DEF PointsKept
<1> QED
  BY <1>3, <1>4 DEF PointsKept

(* One heartbeat goes on, while no row is forgotten.                        *)
LEMMA BeatGoesOn ==
  ASSUME BeatsKept, NEW b \in Beat, NEW x, beats' = [beats EXCEPT ![b] = x],
         UNCHANGED usedRows, BeatKept(x)
  PROVE  BeatsKept'
<1>1. DOMAIN beats' = Beat /\ \A c \in Beat : beats'[c] = IF c = b THEN x ELSE beats[c]
  BY DEF BeatsKept
<1> QED
  BY <1>1 DEF BeatsKept, BeatKept

LEMMA IdleKept == BeatKept(Idle)
<1>1. Idle.at = "idle"
  BY DEF Idle
<1> QED
  BY <1>1 DEF BeatKept

LEMMA BeatsAtRest == ASSUME BeatsKept, UNCHANGED beats, usedRows \subseteq usedRows' PROVE BeatsKept'
BY DEF BeatsKept, BeatKept

LEMMA SimAtRest == ASSUME TMKept, UNCHANGED sim PROVE SimKept'
BY DEF TMKept, SimKept

LEMMA PointsAtRest == ASSUME TMKept, UNCHANGED points PROVE PointsKept'
BY DEF TMKept, PointsKept

(* The steps on the rows.                                                   *)
LEMMA SeenNext == ASSUME TMInv, TMKept, [TMNext]_tmVars PROVE SeenKept'
<1> USE DEF TMKept, SeenKept, rowVars
<1>1. CASE TelemetryTick
  BY <1>1, TelemetryLimits DEF TelemetryTick
<1>2. CASE ReapStaleAgents
  BY <1>2 DEF ReapStaleAgents
<1>3. ASSUME NEW s \in Server, CreateServer(s) \/ DeleteServer(s) PROVE SeenKept'
  BY <1>3 DEF CreateServer, DeleteServer
<1>4. ASSUME NEW s \in Server, CheckStatus(s) PROVE SeenKept'
  BY <1>4 DEF CheckStatus
<1>5. ASSUME NEW b \in Beat, ApplyHeartbeat(b) PROVE SeenKept'
  <2> DEFINE s == beats[b].srv
  <2>1. CASE s \in rows
    <3>1. /\ source' = [source EXCEPT ![s] = "agent"] /\ agentSeen' = [agentSeen EXCEPT ![s] = clock]
          /\ connected' = connected \cup {s} /\ online' = online \cup {s}
          /\ UNCHANGED <<rows, usedRows, rowsLeft, clock>>
      BY <1>5, <2>1 DEF ApplyHeartbeat
    <3>2. s \in usedRows /\ s \in Server /\ clock \in -1..MaxTime
      BY <2>1, TelemetryLimits
    <3> HIDE DEF s
    <3> QED
      BY <3>1, <3>2 DEF Source
  <2>2. CASE s \notin rows
    BY <1>5, <2>2 DEF ApplyHeartbeat
  <2> QED
    BY <2>1, <2>2
<1>6. ASSUME NEW b \in Beat, \/ \E s \in Server : HeartbeatArrives(b, s)
                             \/ ReadBack(b) \/ HeartbeatAppends(b)
      PROVE  SeenKept'
  BY <1>6 DEF HeartbeatArrives, ReadBack, HeartbeatAppends
<1>7. CASE BeginPass \/ EndPass \/ CheckAgent \/ SimulatorAppends \/ UNCHANGED tmVars
  BY <1>7 DEF BeginPass, EndPass, CheckAgent, SimulatorAppends, tmVars
<1>8. CASE Simulate
  BY <1>8 DEF Simulate, Source
<1> QED
  BY <1>1, <1>2, <1>3, <1>4, <1>5, <1>6, <1>7, <1>8 DEF TMNext

(* The heartbeats.                                                          *)
LEMMA BeatsNext == ASSUME TMKept, [TMNext]_tmVars PROVE BeatsKept'
<1> USE DEF TMKept
<1>1. CASE UNCHANGED <<beats, usedRows>>
  BY <1>1, BeatsAtRest
<1>2. ASSUME NEW s \in Server, CreateServer(s) PROVE BeatsKept'
  BY <1>2, BeatsAtRest DEF CreateServer
<1>3. ASSUME NEW b \in Beat, NEW s \in Server, HeartbeatArrives(b, s) PROVE BeatsKept'
  <2> DEFINE x == [at |-> "apply", srv |-> s]
  <2>1. s \in usedRows /\ beats' = [beats EXCEPT ![b] = x] /\ UNCHANGED usedRows
    BY <1>3 DEF HeartbeatArrives, SeenKept, rowVars
  <2>2. x.at = "apply" /\ x.srv = s /\ x = [at |-> x.at, srv |-> x.srv]
    OBVIOUS
  <2> HIDE DEF x
  <2>3. BeatKept(x)
    BY <2>1, <2>2 DEF BeatKept
  <2> QED
    BY <2>1, <2>3, BeatGoesOn
<1>4. ASSUME NEW b \in Beat, ApplyHeartbeat(b) PROVE BeatsKept'
  <2> DEFINE s == beats[b].srv
             x == [at |-> "read", srv |-> s]
  <2>1. beats[b].at = "apply" /\ UNCHANGED usedRows
    BY <1>4 DEF ApplyHeartbeat
  <2>2. beats[b] = [at |-> "apply", srv |-> s] /\ s \in usedRows
    BY <2>1 DEF BeatsKept, BeatKept
  <2>3. [beats[b] EXCEPT !.at = "read"] = x
    BY <2>2
  <2>4. beats' = [beats EXCEPT ![b] = x] \/ beats' = [beats EXCEPT ![b] = Idle]
    BY <1>4, <2>3 DEF ApplyHeartbeat
  <2>5. x.at = "read" /\ x.srv = s /\ x = [at |-> x.at, srv |-> x.srv]
    OBVIOUS
  <2> HIDE DEF x
  <2>6. BeatKept(x)
    BY <2>2, <2>5 DEF BeatKept
  <2> QED
    BY <2>1, <2>4, <2>6, IdleKept, BeatGoesOn
<1>5. ASSUME NEW b \in Beat, ReadBack(b) PROVE BeatsKept'
  <2> DEFINE s == beats[b].srv
             p == <<agentSeen[s], source[s]>>
             x == [at |-> "append", srv |-> s, point |-> p]
  <2>1. beats[b].at = "read" /\ UNCHANGED usedRows
    BY <1>5 DEF ReadBack, rowVars
  <2>2. s \in usedRows /\ s \in Server
    BY <2>1 DEF BeatsKept, BeatKept, SeenKept
  <2>3. p \in Point
    BY <2>2 DEF SeenKept, Point
  <2>4. beats' = [beats EXCEPT ![b] = x] \/ beats' = [beats EXCEPT ![b] = Idle]
    BY <1>5 DEF ReadBack
  <2>5. x.at = "append" /\ x.srv = s /\ x.point = p
    OBVIOUS
  <2> HIDE DEF x, p
  <2>6. BeatKept(x)
    BY <2>2, <2>3, <2>5 DEF BeatKept
  <2> QED
    BY <2>1, <2>4, <2>6, IdleKept, BeatGoesOn
<1>6. ASSUME NEW b \in Beat, HeartbeatAppends(b) PROVE BeatsKept'
  BY <1>6, IdleKept, BeatGoesOn DEF HeartbeatAppends, rowVars
<1>7. ASSUME NEW s \in Server, DeleteServer(s) \/ CheckStatus(s) PROVE BeatsKept'
  BY <1>1, <1>7 DEF DeleteServer, CheckStatus, rowVars
<1>8. CASE \/ TelemetryTick \/ ReapStaleAgents \/ BeginPass \/ EndPass \/ CheckAgent
           \/ Simulate \/ SimulatorAppends \/ UNCHANGED tmVars
  BY <1>1, <1>8 DEF TelemetryTick, ReapStaleAgents, BeginPass, EndPass, CheckAgent, Simulate,
                    SimulatorAppends, tmVars, rowVars
<1> QED
  BY <1>2, <1>3, <1>4, <1>5, <1>6, <1>7, <1>8 DEF TMNext

(* The simulator.                                                           *)
LEMMA SimNext == ASSUME TMKept, [TMNext]_tmVars PROVE SimKept'
<1>1. ASSUME NEW t \in -1..MaxTime, sim' = [at |-> "scan", now |-> t] PROVE SimKept'
  <2>1. sim'.at = "scan" /\ sim'.now = t
    BY <1>1
  <2> QED
    BY <2>1 DEF SimKept
<1>2. CASE BeginPass
  <2>1. clock \in -1..MaxTime /\ sim' = [at |-> "scan", now |-> clock]
    BY <1>2, TelemetryLimits DEF BeginPass, TMKept, SeenKept
  <2> QED
    BY <1>1, <2>1
<1>3. CASE EndPass
  <2>1. sim'.at = "idle"
    BY <1>3 DEF EndPass, Idle
  <2> QED
    BY <2>1 DEF SimKept
<1>4. ASSUME NEW s \in Server, CheckStatus(s) PROVE SimKept'
  <2>1. sim.at = "scan" /\ sim.now \in -1..MaxTime
    BY <1>4 DEF CheckStatus, TMKept, SimKept
  <2>2. CASE sim' = [at |-> "flag", now |-> sim.now, srv |-> s]
    <3>1. /\ sim'.at = "flag" /\ sim'.now = sim.now /\ sim'.srv = s
          /\ sim' = [at |-> sim'.at, now |-> sim'.now, srv |-> sim'.srv]
      BY <2>2
    <3> QED
      BY <2>1, <3>1 DEF SimKept
  <2>3. CASE UNCHANGED sim
    BY <2>3, SimAtRest
  <2> QED
    BY <1>4, <2>2, <2>3 DEF CheckStatus
<1>5. ASSUME NEW a \in {"write", "append"}, sim.at \in {"flag", "write"}, sim' = [sim EXCEPT !.at = a]
      PROVE  SimKept'
  <2>1. /\ sim = [at |-> sim.at, now |-> sim.now, srv |-> sim.srv]
        /\ sim.srv \in Server /\ sim.now \in -1..MaxTime
    BY <1>5 DEF TMKept, SimKept
  <2>2. sim' = [at |-> a, now |-> sim.now, srv |-> sim.srv]
    BY <1>5, <2>1
  <2>3. /\ sim'.at = a /\ sim'.now = sim.now /\ sim'.srv = sim.srv
        /\ sim' = [at |-> sim'.at, now |-> sim'.now, srv |-> sim'.srv]
    BY <2>2
  <2> QED
    BY <2>1, <2>3 DEF SimKept
<1>6. CASE CheckAgent \/ Simulate \/ SimulatorAppends
  <2>1. sim.at \in {"flag", "write", "append"}
    BY <1>6 DEF CheckAgent, Simulate, SimulatorAppends
  <2>2. sim.now \in -1..MaxTime
    BY <2>1 DEF TMKept, SimKept
  <2>3. \/ sim' = [at |-> "scan", now |-> sim.now]
        \/ /\ sim.at \in {"flag", "write"}
           /\ sim' = [sim EXCEPT !.at = "write"] \/ sim' = [sim EXCEPT !.at = "append"]
    BY <1>6 DEF CheckAgent, Simulate, SimulatorAppends
  <2> QED
    BY <1>1, <1>5, <2>2, <2>3
<1>7. ASSUME NEW b \in Beat, \/ \E s \in Server : HeartbeatArrives(b, s)
                             \/ ApplyHeartbeat(b) \/ ReadBack(b) \/ HeartbeatAppends(b)
      PROVE  UNCHANGED sim
  BY <1>7 DEF HeartbeatArrives, ApplyHeartbeat, ReadBack, HeartbeatAppends
<1>8. ASSUME NEW s \in Server, CreateServer(s) \/ DeleteServer(s) PROVE UNCHANGED sim
  BY <1>8 DEF CreateServer, DeleteServer
<1>9. CASE TelemetryTick \/ ReapStaleAgents \/ UNCHANGED tmVars
  BY <1>9, SimAtRest DEF TelemetryTick, ReapStaleAgents, tmVars
<1> QED
  BY <1>2, <1>3, <1>4, <1>6, <1>7, <1>8, <1>9, SimAtRest DEF TMNext

(* The histories.                                                           *)
LEMMA PointsNext == ASSUME TMKept, [TMNext]_tmVars PROVE PointsKept'
<1>1. ASSUME NEW b \in Beat, HeartbeatAppends(b) PROVE PointsKept'
  <2>1. beats[b].at = "append" /\ AppendPoint(beats[b].srv, beats[b].point)
    BY <1>1 DEF HeartbeatAppends
  <2>2. beats[b].srv \in Server /\ beats[b].point \in Point
    BY <2>1 DEF TMKept, BeatsKept, BeatKept, SeenKept
  <2> QED
    BY <2>1, <2>2, PointAppended DEF TMKept
<1>2. CASE SimulatorAppends
  <2>1. sim.at = "append" /\ AppendPoint(sim.srv, <<sim.now, source[sim.srv]>>)
    BY <1>2 DEF SimulatorAppends
  <2>2. sim.srv \in Server /\ sim.now \in -1..MaxTime /\ source[sim.srv] \in Source
    BY <2>1 DEF TMKept, SimKept, SeenKept
  <2>3. <<sim.now, source[sim.srv]>> \in Point
    BY <2>2 DEF Point
  <2> QED
    BY <2>1, <2>2, <2>3, PointAppended DEF TMKept
<1>3. ASSUME NEW b \in Beat, \/ \E s \in Server : HeartbeatArrives(b, s)
                             \/ ApplyHeartbeat(b) \/ ReadBack(b)
      PROVE  UNCHANGED points
  BY <1>3 DEF HeartbeatArrives, ApplyHeartbeat, ReadBack
<1>4. ASSUME NEW s \in Server, CreateServer(s) \/ DeleteServer(s) \/ CheckStatus(s) PROVE UNCHANGED points
  BY <1>4 DEF CreateServer, DeleteServer, CheckStatus
<1>5. CASE \/ TelemetryTick \/ ReapStaleAgents \/ BeginPass \/ EndPass \/ CheckAgent \/ Simulate
           \/ UNCHANGED tmVars
  BY <1>5, PointsAtRest DEF TelemetryTick, ReapStaleAgents, BeginPass, EndPass, CheckAgent, Simulate, tmVars
<1> QED
  BY <1>1, <1>2, <1>3, <1>4, <1>5, PointsAtRest DEF TMNext

LEMMA TMNextKept == ASSUME TMInv, TMKept, [TMNext]_tmVars PROVE TMKept'
BY PointsNext, BeatsNext, SimNext, SeenNext DEF TMKept

(* Every point of a history was read of a stored row, and a history keeps   *)
(* within its limit, whatever heartbeats and simulator append at a time.    *)
THEOREM TMTypeCorrect == TMSpec => []TMTypeOK
BY TMInitInv, TMNextInv, TMInitKept, TMNextKept, TMTypes, PTL DEF TMSpec

-----------------------------------------------------------------------------
RulesKept == on \subseteq usedRules /\ cond \in [Rule -> Condition] /\ thr \in [Rule -> Threshold]
TimesKept == since \in [Rule -> 0..LongAgo] /\ quiet \in [Rule -> 0..LongAgo]
EventsKept == events \in Seq(usedRules) /\ Len(events) <= MaxEvents
TargetsKept == /\ level \in [Target -> [Condition -> 0..MaxLevel]]
               /\ targets \subseteq Target /\ ready \subseteq rules \X Target
AEKept == RulesKept /\ TimesKept /\ EventsKept /\ TargetsKept

LEMMA AETypes == AEInv /\ NMInv /\ AEKept => AETypeOK
<1> SUFFICES ASSUME AEInv, NMInv, AEKept PROVE AETypeOK
  OBVIOUS
<1>1. /\ rules \subseteq usedRules /\ usedRules \subseteq Rule /\ on \subseteq usedRules
      /\ rulesLeft \subseteq usedRules /\ targets \subseteq Target /\ ready \subseteq rules \X Target
  BY DEF AEInv, AETyped, AEKept, RulesKept, TargetsKept
<1>2. /\ cond \in [Rule -> Condition] /\ thr \in [Rule -> Threshold]
      /\ cooldown \in [Rule -> Cooldowns] /\ TimesKept /\ EventsKept
      /\ level \in [Target -> [Condition -> 0..MaxLevel]]
  BY DEF NMInv, EvaluatorTyped, AEKept, RulesKept, TargetsKept
<1>3. /\ stage \in {"idle", "scan", "check", "fire", "mark"}
      /\ pass \in {"server", "service"} /\ passed \in BOOLEAN
  BY DEF NMInv, EvaluatorTyped
<1>4. /\ stage \in {"check", "fire", "mark"} => cur[1] \in rulesLeft
      /\ \A r \in Rule : firedOff[r] \in Nat
  BY DEF AEInv, AETyped, Looking
<1> QED
  BY <1>1, <1>2, <1>3, <1>4 DEF AETypeOK, TimesKept, EventsKept

LEMMA AEInitKept == AEInit => AEKept
<1> SUFFICES ASSUME AEInit PROVE AEKept
  OBVIOUS
<1>1. RulesKept
  BY AlertLimits DEF AEInit, RulesKept, Condition, Threshold
<1>2. TimesKept
  BY LongestNat DEF AEInit, TimesKept
<1>3. EventsKept
  BY AlertLimits DEF AEInit, EventsKept
<1>4. TargetsKept
  BY AlertLimits DEF AEInit, TargetsKept
<1> QED
  BY <1>1, <1>2, <1>3, <1>4 DEF AEKept

(* What an admin sets of a rule, and the rules that are stored.             *)
LEMMA RulesNext == ASSUME AEInv, AEKept, [AENext]_aeVars PROVE RulesKept' /\ usedRules \subseteq usedRules'
<1>1. ASSUME NEW r \in Rule, NEW c \in Condition, NEW t \in Threshold, NEW d \in Cooldowns,
             CreateRule(r, c, t, d) \/ \E isOn \in BOOLEAN : UpdateRule(r, c, t, d, isOn)
      PROVE  RulesKept' /\ usedRules \subseteq usedRules'
  <2>1. /\ cond' = [cond EXCEPT ![r] = c] /\ thr' = [thr EXCEPT ![r] = t]
        /\ r \in usedRules' /\ usedRules \subseteq usedRules' /\ on' \subseteq on \cup {r}
    BY <1>1 DEF CreateRule, UpdateRule, AEInv, AETyped
  <2>2. on' \subseteq usedRules'
    BY <2>1 DEF AEKept, RulesKept
  <2>3. cond' \in [Rule -> Condition] /\ thr' \in [Rule -> Threshold]
    BY <2>1 DEF AEKept, RulesKept
  <2> QED
    BY <2>1, <2>2, <2>3 DEF RulesKept
<1>2. CASE UNCHANGED <<usedRules, on, cond, thr>>
  BY <1>2 DEF AEKept, RulesKept
<1>3. ASSUME NEW r \in Rule, DeleteRule(r) PROVE UNCHANGED <<usedRules, on, cond, thr>>
  BY <1>3 DEF DeleteRule
<1>4. ASSUME NEW x \in Target, NEW c \in Condition, NEW v \in 0..MaxLevel, Report(x, c, v)
      PROVE  UNCHANGED <<usedRules, on, cond, thr>>
  BY <1>4 DEF Report, alertVars
<1>5. CASE Evaluator \/ EvaluatorTick \/ UNCHANGED aeVars
  BY <1>2, <1>5 DEF Evaluator, EvaluatorTick, BeginEvaluation, SecondLoop, EndEvaluation, Consider,
                    CheckCondition, NoneBreached, AddEvent, MarkFired, aeVars, alertVars
<1> QED
  BY <1>1, <1>2, <1>3, <1>4, <1>5 DEF AENext, AlertAdmin

(* Times grow to LongAgo and are set back to 0.                             *)
LEMMA OlderKept == ASSUME NEW f \in [Rule -> 0..LongAgo] PROVE Older(f) \in [Rule -> 0..LongAgo]
BY LongestNat DEF Older

LEMMA SetBackKept ==
  ASSUME NEW f \in [Rule -> 0..LongAgo], NEW k
  PROVE  [f EXCEPT ![k] = 0] \in [Rule -> 0..LongAgo]
<1> DEFINE S == 0..LongAgo
<1>1. 0 \in S
  BY LongestNat
<1> HIDE DEF S
<1>2. ASSUME NEW g \in [Rule -> S] PROVE [g EXCEPT ![k] = 0] \in [Rule -> S]
  BY <1>1
<1> QED
  BY <1>2 DEF S

LEMMA TimesNext == ASSUME AEInv, AEKept, [AENext]_aeVars PROVE TimesKept'
<1>1. since' \in {since, Older(since), [since EXCEPT ![cur[1]] = 0]}
  BY DEF AENext, AlertAdmin, CreateRule, UpdateRule, DeleteRule, Report, Evaluator, EvaluatorTick,
         BeginEvaluation, SecondLoop, EndEvaluation, Consider, CheckCondition, NoneBreached, AddEvent,
         MarkFired, aeVars, alertVars
<1>2. quiet' \in {quiet, Older(quiet), [quiet EXCEPT ![cur[1]] = 0]}
  BY DEF AENext, AlertAdmin, CreateRule, UpdateRule, DeleteRule, Report, Evaluator, EvaluatorTick,
         BeginEvaluation, SecondLoop, EndEvaluation, Consider, CheckCondition, NoneBreached, AddEvent,
         MarkFired, aeVars
<1>3. since \in [Rule -> 0..LongAgo] /\ quiet \in [Rule -> 0..LongAgo]
  BY DEF AEKept, TimesKept
<1> QED
  BY <1>1, <1>2, <1>3, OlderKept, SetBackKept DEF TimesKept

LEMMA EventsNext == ASSUME AEInv, AEKept, [AENext]_aeVars PROVE EventsKept'
<1>1. events \in Seq(usedRules) /\ Len(events) <= MaxEvents /\ MaxEvents \in Nat \ {0}
  BY AlertLimits DEF AEKept, EventsKept
<1>2. usedRules \subseteq usedRules'
  BY RulesNext
<1>3. CASE AddEvent
  <2>1. cur[1] \in usedRules /\ usedRules' = usedRules
    BY <1>3 DEF AddEvent, AEInv, AETyped, Looking
  <2>2. events' = LET log == Append(events, cur[1])
                  IN  IF Len(log) > MaxEvents THEN Tail(log) ELSE log
    BY <1>3 DEF AddEvent
  <2> QED
    BY <1>1, <2>1, <2>2, LogCut DEF EventsKept
<1>4. CASE UNCHANGED events
  BY <1>1, <1>2, <1>4, LogOfMore DEF EventsKept
<1>5. AddEvent \/ UNCHANGED events
  BY DEF AENext, AlertAdmin, CreateRule, UpdateRule, DeleteRule, Report, Evaluator, EvaluatorTick,
         BeginEvaluation, SecondLoop, EndEvaluation, Consider, CheckCondition, NoneBreached,
         MarkFired, aeVars, alertVars
<1> QED
  BY <1>3, <1>4, <1>5

LEMMA TargetsNext == ASSUME AEInv, AEKept, [AENext]_aeVars PROVE TargetsKept'
<1>1. targets' \subseteq Target
  BY DEF AEKept, TargetsKept, AENext, AlertAdmin, CreateRule, UpdateRule, DeleteRule, Report, Evaluator,
         EvaluatorTick, BeginEvaluation, SecondLoop, EndEvaluation, Consider, CheckCondition,
         NoneBreached, AddEvent, MarkFired, aeVars, evalVars
<1>2. \/ UNCHANGED level
      \/ \E x \in Target, c \in Condition, v \in 0..MaxLevel : level' = [level EXCEPT ![x][c] = v]
  BY DEF AENext, AlertAdmin, CreateRule, UpdateRule, DeleteRule, Report, Evaluator,
         EvaluatorTick, BeginEvaluation, SecondLoop, EndEvaluation, Consider, CheckCondition,
         NoneBreached, AddEvent, MarkFired, aeVars
<1>3. level' \in [Target -> [Condition -> 0..MaxLevel]]
  BY <1>2 DEF AEKept, TargetsKept
<1>4. CASE Watch
  BY <1>1, <1>3, <1>4 DEF Watch, Ready, TargetsKept
<1>5. CASE UNCHANGED aeVars
  BY <1>5 DEF AEKept, TargetsKept, aeVars, alertVars, evalVars
<1> QED
  BY <1>4, <1>5 DEF AENext

LEMMA AENextKept == ASSUME AEInv, AEKept, [AENext]_aeVars PROVE AEKept'
BY RulesNext, TimesNext, EventsNext, TargetsNext DEF AEKept

(* Events are of rules that were stored, as many as are kept.               *)
THEOREM AETypeCorrect == AESpec => []AETypeOK
BY AEInitInv, AENextInv, NMInitInv, NMNextInv, AEInitKept, AENextKept, AETypes, PTL DEF AESpec

-----------------------------------------------------------------------------
Holds(s, n) == s \in Seq(Snapshot) /\ Len(s) <= n
SnapshotsKept == /\ version \in Snapshot /\ payload \in Snapshot
                 /\ out \in [Conn -> Snapshot] /\ answer \in [Page -> Snapshot]
PipesKept == /\ DOMAIN chan = Conn /\ \A c \in Conn : Holds(chan[c], Buffer)
             /\ DOMAIN wire = Conn /\ \A c \in Conn : Holds(wire[c], Wire)
HubKept == clients \subseteq Conn /\ closed \subseteq Conn /\ caster \in {"idle", "ready", "sending"}
EndsKept == /\ writer \in [Conn -> {"none", "take", "write", "remove", "close"}]
            /\ reader \in [Conn -> {"none", "read", "remove", "close"}]
            /\ sock \in [Conn -> {"none", "open", "broken", "left", "shut", "dead"}]
ScreensKept == /\ ws \in [Page -> Conn \cup {NoConn}]
               /\ seed \in [Page -> {"none", "asked", "answered", "done"}]
               /\ shown \in [Page -> {-1} \cup Snapshot]
LDKept == SnapshotsKept /\ PipesKept /\ HubKept /\ EndsKept /\ ScreensKept

LEMMA LDTypes == LDInv /\ LDKept => LDTypeOK
<1> SUFFICES ASSUME LDInv, LDKept PROVE LDTypeOK
  OBVIOUS
<1>1. \A c \in Conn : /\ chan[c] \in Seq(Snapshot) /\ Len(chan[c]) <= Buffer
                      /\ wire[c] \in Seq(Snapshot) /\ Len(wire[c]) <= Wire
  BY DEF LDKept, PipesKept, Holds
<1>2. unsent \subseteq clients
  BY DEF LDInv
<1> QED
  BY <1>1, <1>2 DEF LDTypeOK, LDKept, SnapshotsKept, HubKept, EndsKept, ScreensKept

LEMMA LDInitKept == LDInit => LDKept
<1> SUFFICES ASSUME LDInit PROVE LDKept
  OBVIOUS
<1>1. 0 \in Snapshot
  BY LiveLimits DEF Snapshot
<1>2. SnapshotsKept
  BY <1>1 DEF LDInit, SnapshotsKept
<1>3. Holds(<<>>, Buffer) /\ Holds(<<>>, Wire)
  BY LiveLimits DEF Holds
<1>4. PipesKept
  BY <1>3 DEF LDInit, PipesKept
<1>5. HubKept /\ EndsKept
  BY DEF LDInit, HubKept, EndsKept
<1>6. ScreensKept
  BY DEF LDInit, ScreensKept
<1> QED
  BY <1>2, <1>4, <1>5, <1>6 DEF LDKept

(* A message is put to a channel or wire that has room, or is the first one *)
(* that is taken.                                                           *)
LEMMA PutAndTaken ==
  ASSUME NEW s, NEW n \in Nat \ {0}, Holds(s, n)
  PROVE  /\ \A v \in Snapshot : Len(s) < n => Holds(Append(s, v), n)
         /\ s # <<>> => Head(s) \in Snapshot /\ Holds(Tail(s), n)
         /\ Holds(<<>>, n)
<1>1. ASSUME NEW v \in Snapshot, Len(s) < n PROVE Holds(Append(s, v), n)
  <2>1. Append(s, v) \in Seq(Snapshot) /\ Len(Append(s, v)) = Len(s) + 1 /\ Len(s) \in Nat
    BY DEF Holds
  <2> QED
    BY <1>1, <2>1 DEF Holds
<1>2. ASSUME s # <<>> PROVE Head(s) \in Snapshot /\ Holds(Tail(s), n)
  <2>1. Head(s) \in Snapshot /\ Tail(s) \in Seq(Snapshot) /\ Len(Tail(s)) = Len(s) - 1 /\ Len(s) \in Nat
    BY <1>2 DEF Holds
  <2> QED
    BY <2>1 DEF Holds
<1> QED
  BY <1>1, <1>2 DEF Holds

LEMMA SnapshotsNext == ASSUME LDKept, [LDNext]_ldVars PROVE SnapshotsKept'
<1>1. version' = version \/ (version < MaxVersion /\ version' = version + 1)
  BY DEF LDNext, Change, Broadcaster, Prepare, NoClients, Lock, Send, Unlock, Writer, Take, ChannelEnds,
         WriteMessage, WriteFails, WriterRemoves, WriterCloses, Reader, ReadFails, ReaderRemoves,
         ReaderCloses, Break, Connect, Receive, OpenTab, OnClose, Reload, Answer, Seed, SeedFails, ldVars
<1>2. version \in Snapshot /\ version' \in Snapshot
  BY <1>1, LiveLimits DEF LDKept, SnapshotsKept, Snapshot
<1>3. payload' \in {payload, version}
  BY DEF LDNext, Change, Broadcaster, Prepare, NoClients, Lock, Send, Unlock, Writer, Take, ChannelEnds,
         WriteMessage, WriteFails, WriterRemoves, WriterCloses, Reader, ReadFails, ReaderRemoves,
         ReaderCloses, Break, Connect, Receive, OpenTab, OnClose, Reload, Answer, Seed, SeedFails, ldVars,
         castVars
<1>4. out' = out \/ \E c \in Conn : chan[c] # <<>> /\ out' = [out EXCEPT ![c] = Head(chan[c])]
  BY DEF LDNext, Change, Broadcaster, Prepare, NoClients, Lock, Send, Unlock, Writer, Take, ChannelEnds,
         WriteMessage, WriteFails, WriterRemoves, WriterCloses, Reader, ReadFails, ReaderRemoves,
         ReaderCloses, Break, Connect, Receive, OpenTab, OnClose, Reload, Answer, Seed, SeedFails, ldVars,
         connVars
<1>5. out' \in [Conn -> Snapshot]
  <2>1. \A c \in Conn : chan[c] # <<>> => Head(chan[c]) \in Snapshot
    BY LiveLimits, PutAndTaken DEF LDKept, PipesKept
  <2> QED
    BY <1>4, <2>1 DEF LDKept, SnapshotsKept
<1>6. answer' = answer \/ \E p \in Page : answer' = [answer EXCEPT ![p] = version]
  BY DEF LDNext, Change, Broadcaster, Prepare, NoClients, Lock, Send, Unlock, Writer, Take, ChannelEnds,
         WriteMessage, WriteFails, WriterRemoves, WriterCloses, Reader, ReadFails, ReaderRemoves,
         ReaderCloses, Break, Connect, Receive, OpenTab, OnClose, Reload, Answer, Seed, SeedFails, ldVars,
         pageVars
<1>7. answer' \in [Page -> Snapshot]
  BY <1>2, <1>6 DEF LDKept, SnapshotsKept
<1> QED
  BY <1>2, <1>3, <1>5, <1>7 DEF LDKept, SnapshotsKept

LEMMA PipeSet ==
  ASSUME NEW f, NEW n \in Nat, DOMAIN f = Conn, \A c \in Conn : Holds(f[c], n),
         NEW d \in Conn, NEW s, Holds(s, n)
  PROVE  LET g == [f EXCEPT ![d] = s] IN DOMAIN g = Conn /\ \A c \in Conn : Holds(g[c], n)
OBVIOUS

LEMMA PipesNext == ASSUME LDKept, [LDNext]_ldVars PROVE PipesKept'
<1>1. \/ chan' = chan
      \/ \E c \in Conn : \/ Len(chan[c]) < Buffer /\ chan' = [chan EXCEPT ![c] = Append(@, payload)]
                         \/ chan[c] # <<>> /\ chan' = [chan EXCEPT ![c] = Tail(@)]
                         \/ chan' = [chan EXCEPT ![c] = <<>>]
  BY DEF LDNext, Change, Broadcaster, Prepare, NoClients, Lock, Send, Unlock, Writer, Take, ChannelEnds,
         WriteMessage, WriteFails, WriterRemoves, WriterCloses, Reader, ReadFails, ReaderRemoves,
         ReaderCloses, RemoveConn, Break, Connect, Receive, OpenTab, OnClose, Reload, Answer, Seed, SeedFails,
         ldVars, hubVars
<1>2. \/ wire' = wire
      \/ \E c \in Conn : \/ Len(wire[c]) < Wire /\ wire' = [wire EXCEPT ![c] = Append(@, out[c])]
                         \/ wire[c] # <<>> /\ wire' = [wire EXCEPT ![c] = Tail(@)]
                         \/ wire' = [wire EXCEPT ![c] = <<>>]
  BY DEF LDNext, Change, Broadcaster, Prepare, NoClients, Lock, Send, Unlock, Writer, Take, ChannelEnds,
         WriteMessage, WriteFails, WriterRemoves, WriterCloses, Reader, ReadFails, ReaderRemoves,
         ReaderCloses, Break, Connect, Receive, OpenTab, OnClose, Reload, Answer, Seed, SeedFails, ldVars,
         netVars
<1>3. /\ Buffer \in Nat \ {0} /\ Wire \in Nat \ {0} /\ payload \in Snapshot /\ out \in [Conn -> Snapshot]
      /\ DOMAIN chan = Conn /\ \A c \in Conn : Holds(chan[c], Buffer)
      /\ DOMAIN wire = Conn /\ \A c \in Conn : Holds(wire[c], Wire)
  BY LiveLimits DEF LDKept, SnapshotsKept, PipesKept
<1>4. DOMAIN chan' = Conn /\ \A c \in Conn : Holds(chan'[c], Buffer)
  <2>1. CASE chan' = chan
    BY <1>3, <2>1
  <2>2. ASSUME NEW c \in Conn, NEW s, chan' = [chan EXCEPT ![c] = s], Holds(s, Buffer)
        PROVE  DOMAIN chan' = Conn /\ \A d \in Conn : Holds(chan'[d], Buffer)
    BY <1>3, <2>2, PipeSet
  <2>3. ASSUME NEW c \in Conn
        PROVE  /\ Len(chan[c]) < Buffer => Holds(Append(chan[c], payload), Buffer)
               /\ chan[c] # <<>> => Holds(Tail(chan[c]), Buffer)
               /\ Holds(<<>>, Buffer)
    BY <1>3, PutAndTaken
  <2> QED
    BY <1>1, <2>1, <2>2, <2>3
<1>5. DOMAIN wire' = Conn /\ \A c \in Conn : Holds(wire'[c], Wire)
  <2>1. CASE wire' = wire
    BY <1>3, <2>1
  <2>2. ASSUME NEW c \in Conn, NEW s, wire' = [wire EXCEPT ![c] = s], Holds(s, Wire)
        PROVE  DOMAIN wire' = Conn /\ \A d \in Conn : Holds(wire'[d], Wire)
    BY <1>3, <2>2, PipeSet
  <2>3. ASSUME NEW c \in Conn
        PROVE  /\ Len(wire[c]) < Wire => Holds(Append(wire[c], out[c]), Wire)
               /\ wire[c] # <<>> => Holds(Tail(wire[c]), Wire)
               /\ Holds(<<>>, Wire)
    BY <1>3, PutAndTaken
  <2> QED
    BY <1>2, <2>1, <2>2, <2>3
<1> QED
  BY <1>4, <1>5 DEF PipesKept, Holds

LEMMA HubNext == ASSUME LDKept, [LDNext]_ldVars PROVE HubKept'
<1>1. clients' \subseteq clients \cup Conn /\ closed' \subseteq closed \cup Conn
  BY DEF LDNext, Change, Broadcaster, Prepare, NoClients, Lock, Send, Unlock, Writer, Take, ChannelEnds,
         WriteMessage, WriteFails, WriterRemoves, WriterCloses, Reader, ReadFails, ReaderRemoves,
         ReaderCloses, RemoveConn, Break, Connect, Receive, OpenTab, OnClose, Reload, Answer, Seed, SeedFails,
         ldVars, hubVars
<1>2. caster' \in {caster, "idle", "ready", "sending"}
  BY DEF LDNext, Change, Broadcaster, Prepare, NoClients, Lock, Send, Unlock, Writer, Take, ChannelEnds,
         WriteMessage, WriteFails, WriterRemoves, WriterCloses, Reader, ReadFails, ReaderRemoves,
         ReaderCloses, RemoveConn, Break, Connect, Receive, OpenTab, OnClose, Reload, Answer, Seed, SeedFails,
         ldVars, castVars
<1> QED
  BY <1>1, <1>2 DEF LDKept, HubKept

(* Each end of a connection goes from one of its states to another.         *)
LEMMA EndsNext == ASSUME LDKept, [LDNext]_ldVars PROVE EndsKept'
<1>1. \/ writer' = writer
      \/ \E c \in Conn, w \in {"none", "take", "write", "remove", "close"} : writer' = [writer EXCEPT ![c] = w]
  BY DEF LDNext, Change, Broadcaster, Prepare, NoClients, Lock, Send, Unlock, Writer, Take, ChannelEnds,
         WriteMessage, WriteFails, WriterRemoves, WriterCloses, Reader, ReadFails, ReaderRemoves,
         ReaderCloses, Break, Connect, Receive, OpenTab, OnClose, Reload, Answer, Seed, SeedFails, ldVars,
         connVars
<1>2. \/ reader' = reader
      \/ \E c \in Conn, w \in {"none", "read", "remove", "close"} : reader' = [reader EXCEPT ![c] = w]
  BY DEF LDNext, Change, Broadcaster, Prepare, NoClients, Lock, Send, Unlock, Writer, Take, ChannelEnds,
         WriteMessage, WriteFails, WriterRemoves, WriterCloses, Reader, ReadFails, ReaderRemoves,
         ReaderCloses, Break, Connect, Receive, OpenTab, OnClose, Reload, Answer, Seed, SeedFails, ldVars,
         connVars
<1>3. \/ sock' = sock
      \/ \E c \in Conn, w \in {"open", "broken", "left", "shut", "dead"} : sock' = [sock EXCEPT ![c] = w]
  <2>1. ASSUME NEW p \in Page, Reload(p)
        PROVE  sock' = sock \/ \E c \in Conn : sock' = [sock EXCEPT ![c] = "left"]
    <3>1. ws[p] \in Conn
      BY <2>1 DEF Reload, LDKept, ScreensKept
    <3> QED
      BY <2>1, <3>1 DEF Reload, LDKept, EndsKept
  <2>2. CASE \A p \in Page : ~ Reload(p)
    BY <2>2 DEF LDNext, Change, Broadcaster, Prepare, NoClients, Lock, Send, Unlock, Writer, Take,
                ChannelEnds, WriteMessage, WriteFails, WriterRemoves, WriterCloses, Reader, ReadFails,
                ReaderRemoves, ReaderCloses, RemoveConn, Shut, Break, Connect, Receive, OpenTab, OnClose,
                Answer, Seed, SeedFails, ldVars, netVars
  <2> QED
    BY <2>1, <2>2
<1> QED
  BY <1>1, <1>2, <1>3 DEF LDKept, EndsKept

(* A page shows what it received, or was answered.                          *)
LEMMA ScreensNext == ASSUME LDKept, [LDNext]_ldVars PROVE ScreensKept'
<1>1. ws' = ws \/ \E p \in Page, c \in Conn \cup {NoConn} : ws' = [ws EXCEPT ![p] = c]
  BY DEF LDNext, Change, Broadcaster, Prepare, NoClients, Lock, Send, Unlock, Writer, Take, ChannelEnds,
         WriteMessage, WriteFails, WriterRemoves, WriterCloses, Reader, ReadFails, ReaderRemoves,
         ReaderCloses, Break, Connect, Receive, OpenTab, OnClose, Reload, Answer, Seed, SeedFails, ldVars,
         pageVars
<1>2. \/ seed' = seed
      \/ \E p \in Page, s \in {"asked", "answered", "done"} : seed' = [seed EXCEPT ![p] = s]
  BY DEF LDNext, Change, Broadcaster, Prepare, NoClients, Lock, Send, Unlock, Writer, Take, ChannelEnds,
         WriteMessage, WriteFails, WriterRemoves, WriterCloses, Reader, ReadFails, ReaderRemoves,
         ReaderCloses, Break, Connect, Receive, OpenTab, OnClose, Reload, Answer, Seed, SeedFails, ldVars,
         pageVars
<1>3. \/ shown' = shown
      \/ \E p \in Page : \/ shown' = [shown EXCEPT ![p] = -1]
                         \/ shown' = [shown EXCEPT ![p] = answer[p]]
                         \/ \E c \in Conn : wire[c] # <<>> /\ shown' = [shown EXCEPT ![p] = Head(wire[c])]
  BY DEF LDNext, Change, Broadcaster, Prepare, NoClients, Lock, Send, Unlock, Writer, Take, ChannelEnds,
         WriteMessage, WriteFails, WriterRemoves, WriterCloses, Reader, ReadFails, ReaderRemoves,
         ReaderCloses, Break, Connect, Receive, OpenTab, OnClose, Reload, Answer, Seed, SeedFails, ldVars,
         pageVars
<1>4. \A c \in Conn : wire[c] # <<>> => Head(wire[c]) \in Snapshot
  BY LiveLimits, PutAndTaken DEF LDKept, PipesKept
<1>5. shown' \in [Page -> {-1} \cup Snapshot]
  <2> DEFINE S == {-1} \cup Snapshot
  <2>1. shown \in [Page -> S] /\ -1 \in S /\ answer \in [Page -> S]
    BY DEF LDKept, ScreensKept, SnapshotsKept
  <2>2. \A c \in Conn : wire[c] # <<>> => Head(wire[c]) \in S
    BY <1>4
  <2> HIDE DEF S
  <2>3. shown' \in [Page -> S]
    BY <1>3, <2>1, <2>2
  <2> QED
    BY <2>3 DEF S
<1> QED
  BY <1>1, <1>2, <1>5 DEF LDKept, ScreensKept

LEMMA LDNextKept == ASSUME LDKept, [LDNext]_ldVars PROVE LDKept'
BY SnapshotsNext, PipesNext, HubNext, EndsNext, ScreensNext DEF LDKept

(* No channel and no wire holds more than it has room for, and nothing else *)
(* than snapshots of the server list.                                       *)
THEOREM LDTypeCorrect == LDSpec => []LDTypeOK
BY LDInitInv, LDNextInv, LDInitKept, LDNextKept, LDTypes, PTL DEF LDSpec

-----------------------------------------------------------------------------
(* The loops together: each moves with the others at rest, so that what     *)
(* happens to its state is a behaviour of its own.                          *)
LEMMA LoopParts == Spec => AESpec /\ CRSpec /\ TMSpec /\ LDSpec
<1>1. Init => AEInit /\ CRInit /\ TMInit /\ LDInit
  BY DEF Init
<1>2. ASSUME [Alerts \/ Edits \/ Cron \/ Batches \/ Metrics \/ Live]_<<part, aeVars, crVars, tmVars, ldVars>>
      PROVE  [AENext]_aeVars /\ [CRNext]_crVars /\ [TMNext]_tmVars /\ [LDNext]_ldVars
  BY <1>2 DEF Alerts, Edits, Cron, Batches, Metrics, Live
<1> QED
  BY <1>1, <1>2, PTL DEF Spec, AESpec, CRSpec, TMSpec, LDSpec

(* Everything that the loops keep has its type, for all constants of the    *)
(* parts: rules, tasks, agents and connections in any numbers.              *)
THEOREM LoopsTypeCorrect == Spec => []LoopsTypeOK
BY LoopParts, AETypeCorrect, CRTypeCorrect, TMTypeCorrect, LDTypeCorrect, PTL DEF LoopsTypeOK

(* The loops keep their promises together.  Of alert rules: one that is off *)
(* fires at most once more, none that is crossed is missed, and each waits  *)
(* for its cooldown.  Of tasks: each runs once per slot, when its schedule  *)
(* says.  Agents' rows are simulated at most once, no broadcast panics, and *)
(* pages receive in order.                                                  *)
THEOREM LoopsSafe ==
  Spec => /\ [](OffMeansOff /\ NoneMissed /\ OncePerSlot /\ NextRunMatches /\ SimulatedOnce /\ NoPanic
             /\ ClientsServed)
          /\ CooldownRespected /\ ImplementsLiveFeed
BY LoopParts, OffFiresOnce, PassMissesNone, CooldownGates, CronOncePerSlot, CronNextRunMatches,
   SimulatesAtMostOnce, BroadcastSafe, HubServesClients, LiveImplementsFeed, PTL
=============================================================================
