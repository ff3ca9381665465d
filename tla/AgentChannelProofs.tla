------------------------ MODULE AgentChannelProofs -------------------------
(* Theorems about AgentChannel, for every set of servers and connections,   *)
(* every number of tasks and every cap of the store.                        *)
EXTENDS AgentChannel, TaskStoreProofs

USE NoConnAssumption, MaxTasksAssumption, NoServerAssumption, CapAssumption

LEMMA ACInitInv == ACInit => ACInv
<1> SUFFICES ASSUME ACInit PROVE ACInv
  OBVIOUS
<1> USE DEF ACInit, TSInit
<1>1. ACTypeOK
  BY DEF ACTypeOK, TSTypeOK, Task, Unfinished, Done, NoRequest, Request, Stage, Phase, WaitState
<1>2. AtMostOnce /\ StoredTrue /\ WaiterToldTruth
  BY DEF AtMostOnce, StoredTrue, WaiterToldTruth, Done
<1>3. ConnectionsSound
  BY DEF ConnectionsSound
<1>4. UpcomingSound /\ PendingSound
  BY DEF UpcomingSound, PendingSound, Upcoming
<1>5. CurrentSound /\ RunsSound
  BY DEF CurrentSound, RunsSound
<1>6. QED
  BY <1>1, <1>2, <1>3, <1>4, <1>5 DEF ACInv

(* A step that leaves the requests, the agents and the tasks alone.         *)
LEMMA QuietStep ==
  ASSUME ACInv, UNCHANGED <<tsVars, netVars, agentVars>>, ACTypeOK', WaiterToldTruth'
  PROVE  ACInv'
<1> USE DEF tsVars, agentVars, netVars, ACInv
<1>1. AtMostOnce' /\ StoredTrue' /\ RunsSound' /\ CurrentSound'
  BY DEF AtMostOnce, StoredTrue, RunsSound, CurrentSound
<1>2. ConnectionsSound'
  BY DEF ConnectionsSound, Awaited
<1>3. \A s, t : Upcoming(s, t)' = Upcoming(s, t)
  BY DEF Upcoming
<1>4. UpcomingSound' /\ PendingSound'
  BY <1>3 DEF UpcomingSound, PendingSound
<1>5. QED
  BY <1>1, <1>2, <1>4

(* Enqueue adds a task that is younger than all others and may drop old     *)
(* results; no agent hears of it.                                           *)
LEMMA EnqueueKeeps ==
  ASSUME ACInv, NEW s \in ServerID, Enqueue(s), UNCHANGED <<netVars, agentVars>>,
         ACTypeOK', WaiterToldTruth'
  PROVE  ACInv'
<1> USE DEF netVars, agentVars, ACInv
<1>1. /\ TSTypeOK /\ created \in Nat /\ created' = created + 1 /\ created' \in Task
      /\ owner' = [owner EXCEPT ![created'] = s]
      /\ taskStatus[created'] = "absent" /\ taskStatus'[created'] = "pending"
      /\ \A t \in Task \ {created'} :
           \/ taskStatus'[t] = taskStatus[t]
           \/ taskStatus[t] \in Done /\ taskStatus'[t] = "absent"
  BY EnqueueEffect DEF ACTypeOK, TSTypeOK
<1>2. /\ runs[created'] = 0
      /\ \A z \in ServerID : ~ Upcoming(z, created') /\ current[z] # created'
  BY <1>1 DEF ACTypeOK, RunsSound, UpcomingSound, CurrentSound
<1>3. /\ \A t \in Task \ {created'} : owner'[t] = owner[t]
      /\ owner'[created'] = s
      /\ \A t \in Task : owner[t] \in ServerID => t <= created
      /\ \A z, t : Upcoming(z, t)' = Upcoming(z, t)
  BY <1>1 DEF TSTypeOK, Upcoming
<1>4. AtMostOnce' /\ RunsSound' /\ CurrentSound'
  BY <1>1, <1>2, <1>3 DEF AtMostOnce, RunsSound, CurrentSound, ACTypeOK, Task
<1>5. StoredTrue'
  BY <1>1, <1>2, <1>3 DEF StoredTrue, ACTypeOK, Done
<1>6. ConnectionsSound'
  BY DEF ConnectionsSound, Awaited
<1>7. UpcomingSound'
  <2>1. ASSUME NEW z \in ServerID, NEW t \in Task, Upcoming(z, t)
        PROVE  /\ t <= created' /\ owner'[t] = z /\ runs[t] = 0
               /\ taskStatus'[t] # "pending"
               /\ \A u \in Task : owner'[u] = z /\ runs[u] > 0 => u < t
    <3>1. /\ t # created' /\ t <= created /\ owner[t] = z /\ runs[t] = 0
          /\ taskStatus[t] # "pending"
          /\ \A u \in Task : owner[u] = z /\ runs[u] > 0 => u < t
      BY <2>1, <1>2 DEF UpcomingSound
    <3>2. taskStatus'[t] # "pending"
      BY <3>1, <1>1
    <3>3. \A u \in Task : runs[u] > 0 => u # created'
      BY <1>2
    <3>4. QED
      BY <3>1, <3>2, <3>3, <1>1, <1>3 DEF Task
  <2>2. \A z \in ServerID : /\ todo'[z] # {} => pc'[z] \in {"start", "run", "report"}
                         /\ pc'[z] = "start" => todo'[z] # {}
    BY DEF UpcomingSound
  <2>3. QED
    BY <2>1, <2>2, <1>3 DEF UpcomingSound
<1>8. PendingSound'
  <2> SUFFICES ASSUME NEW t \in Task, taskStatus'[t] = "pending"
               PROVE  /\ runs[t] = 0
                      /\ \A u \in Task : owner'[u] = owner'[t]
                                          /\ (runs[u] > 0 \/ Upcoming(owner'[t], u)) => u < t
    BY <1>3 DEF PendingSound
  <2>1. \A u \in Task : runs[u] > 0 => u # created' /\ u <= created
    BY <1>2 DEF RunsSound
  <2>2. \A z \in ServerID, u \in Task : Upcoming(z, u) => u # created' /\ u <= created
    BY <1>2 DEF UpcomingSound
  <2>3. CASE t = created'
    BY <2>1, <2>2, <2>3, <1>1, <1>2, <1>3 DEF Task
  <2>4. CASE t # created'
    <3>1. taskStatus[t] = "pending" /\ owner'[t] = owner[t] /\ owner[t] \in ServerID
      BY <2>4, <1>1, <1>3 DEF TSTypeOK
    <3>2. QED
      BY <3>1, <2>1, <2>2, <1>3 DEF PendingSound
  <2>5. QED
    BY <2>3, <2>4
<1>9. QED
  BY <1>4, <1>5, <1>6, <1>7, <1>8

(* A step of the network or of a handler that hands out no tasks.           *)
LEMMA NetworkStep ==
  ASSUME ACInv, UNCHANGED <<tsVars, agentVars, waiter>>, UNCHANGED reply,
         ACTypeOK', ConnectionsSound'
  PROVE  ACInv'
<1> USE DEF tsVars, agentVars, ACInv
<1>1. AtMostOnce' /\ StoredTrue' /\ WaiterToldTruth' /\ RunsSound' /\ CurrentSound'
  BY DEF AtMostOnce, StoredTrue, WaiterToldTruth, RunsSound, CurrentSound
<1>2. \A s, t : Upcoming(s, t)' = Upcoming(s, t)
  BY DEF Upcoming
<1>3. UpcomingSound' /\ PendingSound'
  BY <1>2 DEF UpcomingSound, PendingSound
<1>4. QED
  BY <1>1, <1>3

(* An empty answer, or the end of a request nobody waits for.               *)
LEMMA EmptyAnswer ==
  ASSUME ACInv, NEW c \in Conn, stage[c] \in {"sent", "authed"}, UNCHANGED agentVars,
         Answer(c, {}) \/ (~ Awaited(c) /\ Release(c))
  PROVE  /\ UNCHANGED reply /\ ConnectionsSound'
         /\ stage' \in [Conn -> Stage] /\ req' \in [Conn -> Request]
<1>1. /\ reply[c] = {} /\ reply \in [Conn -> SUBSET Task]
      /\ stage \in [Conn -> Stage] /\ req \in [Conn -> Request]
      /\ waits \in [ServerID -> Conn \cup {NoConn}]
      /\ ConnectionsSound
  BY DEF ACInv, ACTypeOK, ConnectionsSound
<1>2. reply = [reply EXCEPT ![c] = {}]
  BY <1>1
<1>3. CASE Awaited(c)
  <2>1. stage' = [stage EXCEPT ![c] = "answered"] /\ UNCHANGED <<req, reply>>
    BY <1>2, <1>3 DEF Answer
  <2>2. stage' \in [Conn -> Stage]
    BY <1>1, <2>1 DEF Stage
  <2>3. ConnectionsSound'
    BY <1>1, <1>3, <2>1 DEF ConnectionsSound, Awaited, agentVars
  <2>4. QED
    BY <1>1, <2>1, <2>2, <2>3
<1>4. CASE ~ Awaited(c)
  <2>1. /\ stage' = [stage EXCEPT ![c] = "free"]
        /\ req' = [req EXCEPT ![c] = NoRequest]
        /\ UNCHANGED reply
    BY <1>2, <1>4 DEF Answer, Release
  <2>2. stage' \in [Conn -> Stage] /\ req' \in [Conn -> Request]
    BY <1>1, <2>1 DEF Stage, Request, NoRequest
  <2>3. ConnectionsSound'
    BY <1>1, <1>4, <2>1 DEF ConnectionsSound, Awaited, agentVars
  <2>4. QED
    BY <2>1, <2>2, <2>3
<1>5. QED
  BY <1>3, <1>4

-----------------------------------------------------------------------------
(* One lemma for each action.                                               *)

LEMMA CheckServerKeeps == ASSUME ACInv, NEW s \in ServerID, CheckServer(s) PROVE ACInv'
<1> USE DEF CheckServer, ACInv, tsVars, netVars, agentVars
<1>1. ACTypeOK' /\ WaiterToldTruth'
  BY DEF ACTypeOK, TSTypeOK, WaiterToldTruth
<1>2. QED
  BY <1>1, QuietStep

LEMMA DeleteServerKeeps == ASSUME ACInv, NEW s \in ServerID, DeleteServer(s) PROVE ACInv'
<1> USE DEF DeleteServer, ACInv, tsVars, netVars, agentVars
<1>1. ACTypeOK' /\ WaiterToldTruth'
  BY DEF ACTypeOK, TSTypeOK, WaiterToldTruth
<1>2. QED
  BY <1>1, QuietStep

LEMMA WaitForResultKeeps == ASSUME ACInv, NEW t \in Task, WaitForResult(t) PROVE ACInv'
<1> USE DEF WaitForResult, ACInv, tsVars, netVars, agentVars
<1>1. ACTypeOK'
  BY DEF ACTypeOK, TSTypeOK
<1>2. WaiterToldTruth'
  BY DEF WaiterToldTruth, StoredTrue, ACTypeOK, Done, Unfinished
<1>3. QED
  BY <1>1, <1>2, QuietStep

LEMMA EnqueueServerTaskKeeps ==
  ASSUME ACInv, NEW s \in ServerID, EnqueueServerTask(s) PROVE ACInv'
<1> USE DEF EnqueueServerTask, ACInv, netVars, agentVars
<1>1. ACTypeOK'
  BY EnqueueEffect DEF ACTypeOK
<1>2. WaiterToldTruth'
  BY DEF WaiterToldTruth
<1>3. QED
  BY <1>1, <1>2, EnqueueKeeps

LEMMA RunAndWaitKeeps == ASSUME ACInv, NEW s \in ServerID, RunAndWait(s) PROVE ACInv'
<1> USE DEF RunAndWait, ACInv, netVars, agentVars
<1>1. ACTypeOK'
  BY EnqueueEffect DEF ACTypeOK, WaitState
<1>2. WaiterToldTruth'
  BY DEF WaiterToldTruth, ACTypeOK, Done
<1>3. QED
  BY <1>1, <1>2, EnqueueKeeps

LEMMA PanelRestartKeeps == ASSUME ACInv, PanelRestart PROVE ACInv'
<1> USE DEF PanelRestart, ACInv, agentVars
<1>1. /\ UNCHANGED <<owner, created>> /\ TSTypeOK'
      /\ \A t \in Task : taskStatus'[t] = "absent"
  BY RestartEffect DEF ACTypeOK
<1>2. ACTypeOK'
  BY <1>1 DEF ACTypeOK, Stage, Request, NoRequest, WaitState
<1>3. AtMostOnce' /\ StoredTrue' /\ WaiterToldTruth' /\ RunsSound' /\ CurrentSound'
  BY <1>1 DEF AtMostOnce, StoredTrue, WaiterToldTruth, RunsSound, CurrentSound, ACTypeOK, Done
<1>4. ConnectionsSound'
  BY DEF ConnectionsSound, ACTypeOK
<1>5. \A s \in ServerID, t \in Task : Upcoming(s, t)' => Upcoming(s, t)
  BY DEF Upcoming, ACTypeOK
<1>6. UpcomingSound' /\ PendingSound'
  BY <1>1, <1>5 DEF UpcomingSound, PendingSound
<1>7. QED
  BY <1>2, <1>3, <1>4, <1>6

LEMMA AuthenticateKeeps == ASSUME ACInv, NEW c \in Conn, Authenticate(c) PROVE ACInv'
<1> USE DEF Authenticate, ACInv, tsVars, agentVars
<1>1. CASE req[c].srv \in rows
  <2>1. ACTypeOK'
    BY <1>1 DEF ACTypeOK, TSTypeOK, Stage
  <2>2. ConnectionsSound'
    BY <1>1 DEF ConnectionsSound, Awaited, ACTypeOK
  <2>3. QED
    BY <1>1, <2>1, <2>2, NetworkStep
<1>2. CASE req[c].srv \notin rows
  <2>1. ConnectionsSound' /\ ACTypeOK' /\ UNCHANGED reply
    BY <1>2, EmptyAnswer DEF ACTypeOK, TSTypeOK
  <2>2. QED
    BY <2>1, NetworkStep
<1>3. QED
  BY <1>1, <1>2

LEMMA AgentRegisterKeeps == ASSUME ACInv, NEW c \in Conn, AgentRegister(c) PROVE ACInv'
<1> USE DEF AgentRegister, ACInv, tsVars, agentVars
<1>1. ConnectionsSound' /\ ACTypeOK' /\ UNCHANGED reply
  BY EmptyAnswer DEF ACTypeOK, TSTypeOK
<1>2. QED
  BY <1>1, NetworkStep

LEMMA LoseRequestKeeps == ASSUME ACInv, NEW c \in Conn, LoseRequest(c) PROVE ACInv'
<1> USE DEF LoseRequest, ACInv, tsVars, agentVars
<1>1. ConnectionsSound' /\ ACTypeOK' /\ UNCHANGED reply
  BY EmptyAnswer DEF ACTypeOK, TSTypeOK
<1>2. QED
  BY <1>1, NetworkStep

LEMMA AgentTaskResultKeeps == ASSUME ACInv, NEW c \in Conn, AgentTaskResult(c) PROVE ACInv'
<1> DEFINE t == req[c].task
           r == req[c].result
<1> USE DEF AgentTaskResult, ACInv, agentVars
<1>1. ConnectionsSound' /\ UNCHANGED reply
      /\ stage' \in [Conn -> Stage] /\ req' \in [Conn -> Request]
  BY EmptyAnswer
<1>2. CASE taskStatus[t] = "absent"
  <2>1. ACTypeOK'
    BY <1>1, <1>2 DEF ACTypeOK, TSTypeOK, tsVars
  <2>2. QED
    BY <1>1, <1>2, <2>1, NetworkStep
<1>3. CASE taskStatus[t] # "absent"
  <2>1. t \in Task /\ r = outcome[t] /\ r \in Done
    BY DEF ConnectionsSound, ACTypeOK
  <2>2. /\ UNCHANGED <<owner, created, boot>> /\ TSTypeOK'
        /\ taskStatus'[t] = r
        /\ \A u \in Task \ {t} : taskStatus'[u] = taskStatus[u]
    BY <1>3, <2>1, ResultEffect DEF ACTypeOK, Done
  <2>3. ACTypeOK'
    BY <1>1, <2>2 DEF ACTypeOK
  <2>4. \A s, u : Upcoming(s, u)' = Upcoming(s, u)
    BY <1>1 DEF Upcoming
  <2>5. \A u \in Task : taskStatus'[u] = "pending" => taskStatus[u] = "pending"
    BY <2>1, <2>2 DEF Done
  <2>6. AtMostOnce' /\ WaiterToldTruth' /\ RunsSound' /\ CurrentSound'
    BY <2>2 DEF AtMostOnce, WaiterToldTruth, RunsSound, CurrentSound
  <2>7. StoredTrue'
    BY <2>1, <2>2 DEF StoredTrue
  <2>8. UpcomingSound' /\ PendingSound'
    BY <2>2, <2>4, <2>5 DEF UpcomingSound, PendingSound
  <2>9. QED
    BY <1>1, <2>3, <2>6, <2>7, <2>8
<1>4. QED
  BY <1>2, <1>3

LEMMA AgentHeartbeatKeeps == ASSUME ACInv, NEW c \in Conn, AgentHeartbeat(c) PROVE ACInv'
<1> DEFINE s == req[c].srv
<1> USE DEF AgentHeartbeat, agentVars
<1>1. /\ s \in ServerID /\ reply[c] = {}
      /\ stage \in [Conn -> Stage] /\ req \in [Conn -> Request]
      /\ reply \in [Conn -> SUBSET Task]
      /\ waits \in [ServerID -> Conn \cup {NoConn}]
      /\ TSTypeOK /\ ConnectionsSound /\ NoConn \notin Conn
  BY DEF ACInv, ACTypeOK, ConnectionsSound
<1>2. /\ UNCHANGED <<owner, created, boot>> /\ TSTypeOK'
      /\ PendingFor(s) = {t \in Task : taskStatus[t] = "pending" /\ owner[t] = s}
      /\ \A t \in Task : taskStatus'[t] = IF t \in PendingFor(s) THEN "dispatched"
                                           ELSE taskStatus[t]
  BY <1>1, ClaimEffect
<1>3. \A t \in Task : /\ taskStatus'[t] = "pending" => taskStatus[t] = "pending" /\ owner[t] # s
                      /\ taskStatus'[t] \in Done => taskStatus[t] = taskStatus'[t]
  BY <1>2 DEF Done
<1>4. stage' \in [Conn -> Stage] /\ req' \in [Conn -> Request] /\ reply' \in [Conn -> SUBSET Task]
  BY <1>1, <1>2 DEF Answer, Release, Stage, Request, NoRequest
<1>5. ACTypeOK'
  BY <1>2, <1>4 DEF ACInv, ACTypeOK
<1>6. AtMostOnce' /\ StoredTrue' /\ WaiterToldTruth' /\ RunsSound' /\ CurrentSound'
  BY <1>2, <1>3
     DEF ACInv, AtMostOnce, StoredTrue, WaiterToldTruth, RunsSound, CurrentSound
<1>7. ConnectionsSound'
  <2>1. CASE Awaited(c)
    BY <1>1, <2>1 DEF Answer, ConnectionsSound, Awaited
  <2>2. CASE ~ Awaited(c)
    BY <1>1, <2>2 DEF Answer, Release, ConnectionsSound, Awaited
  <2>3. QED
    BY <2>1, <2>2
<1>8. \A z \in ServerID, t \in Task :
        Upcoming(z, t)' => Upcoming(z, t) \/ (z = s /\ waits[z] = c /\ t \in PendingFor(s))
  <2>1. \A z \in ServerID : waits[z] = c => z = s
    BY <1>1 DEF ConnectionsSound
  <2>2. CASE Awaited(c)
    BY <1>1, <2>1, <2>2 DEF Answer, Upcoming
  <2>3. CASE ~ Awaited(c)
    BY <1>1, <2>3 DEF Answer, Release, Upcoming, Awaited
  <2>4. QED
    BY <2>2, <2>3
<1>10. UpcomingSound'
  <2>1. ASSUME NEW z \in ServerID, NEW t \in Task, Upcoming(z, t)'
        PROVE  /\ t <= created' /\ owner'[t] = z /\ runs[t] = 0 /\ taskStatus'[t] # "pending"
               /\ \A u \in Task : owner'[u] = z /\ runs[u] > 0 => u < t
    <3>1. CASE Upcoming(z, t)
      BY <3>1, <1>2, <1>3 DEF ACInv, UpcomingSound
    <3>2. CASE z = s /\ t \in PendingFor(s)
      <4>1. taskStatus[t] = "pending" /\ owner[t] = s /\ taskStatus'[t] = "dispatched"
        BY <3>2, <1>2
      <4>2. t <= created
        BY <1>1, <4>1 DEF TSTypeOK
      <4>3. runs[t] = 0 /\ \A u \in Task : owner[u] = s /\ runs[u] > 0 => u < t
        BY <4>1 DEF ACInv, PendingSound
      <4>4. QED
        BY <3>2, <4>1, <4>2, <4>3, <1>2
    <3>3. QED
      BY <2>1, <3>1, <3>2, <1>8
  <2>2. QED
    BY <2>1 DEF ACInv, UpcomingSound
<1>11. PendingSound'
  <2> SUFFICES ASSUME NEW t \in Task, taskStatus'[t] = "pending"
               PROVE  /\ runs[t] = 0
                      /\ \A u \in Task : owner[u] = owner[t]
                           /\ (runs[u] > 0 \/ Upcoming(owner[t], u)') => u < t
    BY <1>2 DEF PendingSound, Upcoming
  <2>1. taskStatus[t] = "pending" /\ owner[t] # s /\ owner[t] \in ServerID
    BY <1>1, <1>3 DEF TSTypeOK
  <2>2. \A u \in Task : Upcoming(owner[t], u)' => Upcoming(owner[t], u)
    BY <1>2, <1>8, <2>1 DEF Upcoming
  <2>3. QED
    BY <2>1, <2>2 DEF ACInv, PendingSound
<1>12. QED
  BY <1>5, <1>6, <1>7, <1>10, <1>11 DEF ACInv

-----------------------------------------------------------------------------
(* The agent's side.  Opening a connection and leaving one.                 *)

LEMMA PostOpens ==
  ASSUME ACInv, NEW s \in ServerID, waits[s] = NoConn,
         NEW kind \in {"register", "heartbeat", "result"},
         NEW task \in Task \cup {0}, NEW result \in Done \cup {"none"},
         Post(s, kind, task, result), UNCHANGED outcome,
         \A z \in ServerID \ {s} : pc'[z] = pc[z],
         pc'[s] \in {"register", "heartbeat", "report"},
         kind = "heartbeat" <=> pc'[s] = "heartbeat",
         kind = "result" => task \in Task /\ outcome[task] # "none" /\ result = outcome[task]
  PROVE  /\ stage' \in [Conn -> Stage] /\ req' \in [Conn -> Request] /\ UNCHANGED reply
         /\ waits' \in [ServerID -> Conn \cup {NoConn}]
         /\ ConnectionsSound'
         /\ \A z \in ServerID, t \in Task :
              (waits'[z] # NoConn /\ t \in reply'[waits'[z]])
                <=> (waits[z] # NoConn /\ t \in reply[waits[z]])
<1>1. PICK c \in Conn :
        /\ stage[c] = "free" /\ ~ Awaited(c)
        /\ stage' = [stage EXCEPT ![c] = "sent"]
        /\ req' = [req EXCEPT ![c] = [kind |-> kind, srv |-> s, task |-> task, result |-> result]]
        /\ waits' = [waits EXCEPT ![s] = c]
        /\ UNCHANGED reply
  BY DEF Post
<1>2. /\ stage \in [Conn -> Stage] /\ req \in [Conn -> Request]
      /\ reply \in [Conn -> SUBSET Task]
      /\ waits \in [ServerID -> Conn \cup {NoConn}]
      /\ ConnectionsSound /\ NoConn \notin Conn
  BY DEF ACInv, ACTypeOK
<1>3. /\ stage' \in [Conn -> Stage] /\ req' \in [Conn -> Request]
      /\ waits' \in [ServerID -> Conn \cup {NoConn}]
  BY <1>1, <1>2 DEF Stage, Request
<1>4. reply[c] = {} /\ \A z \in ServerID : waits[z] # c
  BY <1>1, <1>2 DEF ConnectionsSound, Awaited
<1>5. ConnectionsSound'
  BY <1>1, <1>2, <1>4 DEF ConnectionsSound, Awaited
<1>6. QED
  BY <1>1, <1>2, <1>3, <1>4, <1>5

LEMMA HangUp ==
  ASSUME ACInv, NEW s \in ServerID, waits[s] # NoConn,
         waits' = [waits EXCEPT ![s] = NoConn],
         \/ Release(waits[s])
         \/ stage[waits[s]] # "answered" /\ UNCHANGED netVars,
         UNCHANGED outcome, \A z \in ServerID \ {s} : pc'[z] = pc[z]
  PROVE  /\ stage' \in [Conn -> Stage] /\ req' \in [Conn -> Request]
         /\ reply' \in [Conn -> SUBSET Task]
         /\ waits' \in [ServerID -> Conn \cup {NoConn}] /\ waits'[s] = NoConn
         /\ ConnectionsSound'
         /\ \A z \in ServerID \ {s}, t \in Task :
              (waits'[z] # NoConn /\ t \in reply'[waits'[z]])
                => (waits[z] # NoConn /\ t \in reply[waits[z]])
<1>1. /\ stage \in [Conn -> Stage] /\ req \in [Conn -> Request]
      /\ reply \in [Conn -> SUBSET Task]
      /\ waits \in [ServerID -> Conn \cup {NoConn}]
      /\ ConnectionsSound /\ NoConn \notin Conn
  BY DEF ACInv, ACTypeOK
<1>2. waits[s] \in Conn /\ \A z \in ServerID \ {s} : waits[z] # waits[s]
  BY <1>1 DEF ConnectionsSound
<1>3. CASE Release(waits[s])
  <2>1. stage' \in [Conn -> Stage] /\ req' \in [Conn -> Request] /\ reply' \in [Conn -> SUBSET Task]
    BY <1>1, <1>2, <1>3 DEF Release, Stage, Request, NoRequest
  <2>2. ConnectionsSound'
    BY <1>1, <1>2, <1>3 DEF Release, ConnectionsSound, Awaited
  <2>3. QED
    BY <1>1, <1>2, <1>3, <2>1, <2>2 DEF Release
<1>4. CASE stage[waits[s]] # "answered" /\ UNCHANGED netVars
  <2>1. ConnectionsSound'
    BY <1>1, <1>2, <1>4 DEF netVars, ConnectionsSound, Awaited
  <2>2. QED
    BY <1>1, <1>4, <2>1 DEF netVars
<1>5. QED
  BY <1>3, <1>4

(* A step of the agent of s that keeps or shortens what it is yet to start, *)
(* runs nothing and finishes nothing.                                       *)
LEMMA AgentStepKeeps ==
  ASSUME ACInv, NEW s \in ServerID, UNCHANGED <<tsVars, runs, outcome, waiter>>,
         ACTypeOK', ConnectionsSound',
         \A z \in ServerID, t \in Task : Upcoming(z, t)' => Upcoming(z, t),
         \A z \in ServerID \ {s} : /\ pc'[z] = pc[z] /\ todo'[z] = todo[z]
                                 /\ current'[z] = current[z],
         todo'[s] # {} => pc'[s] \in {"start", "run", "report"},
         pc'[s] = "start" => todo'[s] # {},
         \/ current'[s] = 0 /\ pc'[s] \notin {"run", "report"}
         \/ current'[s] = current[s] /\ pc'[s] = pc[s]
  PROVE  ACInv'
<1> USE DEF ACInv, tsVars
<1>1. AtMostOnce' /\ WaiterToldTruth' /\ RunsSound'
  BY DEF AtMostOnce, WaiterToldTruth, RunsSound
<1>2. StoredTrue'
  BY DEF StoredTrue
<1>3. CurrentSound'
  BY DEF CurrentSound
<1>4. UpcomingSound'
  BY DEF UpcomingSound
<1>5. PendingSound'
  <2> SUFFICES ASSUME NEW t \in Task, taskStatus[t] = "pending", NEW u \in Task,
                      owner[u] = owner[t], runs[u] > 0 \/ Upcoming(owner[t], u)'
               PROVE  u < t
    BY DEF PendingSound, Upcoming
  <2>1. owner[t] \in ServerID
    BY DEF ACTypeOK, TSTypeOK
  <2>2. Upcoming(owner[t], u)' => Upcoming(owner[t], u)
    BY <2>1 DEF Upcoming
  <2>3. QED
    BY <2>2 DEF PendingSound
<1>6. QED
  BY <1>1, <1>2, <1>3, <1>4, <1>5

LEMMA RegisterKeeps == ASSUME ACInv, NEW s \in ServerID, Register(s) PROVE ACInv'
<1> USE DEF Register
<1>1. /\ stage' \in [Conn -> Stage] /\ req' \in [Conn -> Request] /\ UNCHANGED reply
      /\ waits' \in [ServerID -> Conn \cup {NoConn}] /\ ConnectionsSound'
      /\ \A z \in ServerID, t \in Task :
           (waits'[z] # NoConn /\ t \in reply'[waits'[z]])
             <=> (waits[z] # NoConn /\ t \in reply[waits[z]])
  BY PostOpens
<1>2. ACTypeOK'
  BY <1>1 DEF ACInv, ACTypeOK, TSTypeOK, tsVars
<1>3. \A z \in ServerID, t \in Task : Upcoming(z, t)' => Upcoming(z, t)
  BY <1>1 DEF Upcoming
<1>4. QED
  BY <1>1, <1>2, <1>3, AgentStepKeeps DEF ACInv, UpcomingSound

LEMMA HeartbeatKeeps == ASSUME ACInv, NEW s \in ServerID, Heartbeat(s) PROVE ACInv'
<1> USE DEF Heartbeat
<1>1. waits[s] = NoConn /\ pc' = [pc EXCEPT ![s] = "heartbeat"] /\ pc'[s] = "heartbeat"
      /\ pc \in [ServerID -> Phase] /\ pc' \in [ServerID -> Phase]
  BY DEF ACInv, ACTypeOK, ConnectionsSound, Phase
<1>2. /\ stage' \in [Conn -> Stage] /\ req' \in [Conn -> Request] /\ UNCHANGED reply
      /\ waits' \in [ServerID -> Conn \cup {NoConn}] /\ ConnectionsSound'
      /\ \A z \in ServerID, t \in Task :
           (waits'[z] # NoConn /\ t \in reply'[waits'[z]])
             <=> (waits[z] # NoConn /\ t \in reply[waits[z]])
  BY <1>1, PostOpens
<1>3. ACTypeOK'
  BY <1>1, <1>2 DEF ACInv, ACTypeOK, TSTypeOK, tsVars
<1>4. \A z \in ServerID, t \in Task : Upcoming(z, t)' => Upcoming(z, t)
  BY <1>2 DEF Upcoming
<1>5. todo[s] = {} /\ current[s] = 0
  BY DEF ACInv, UpcomingSound, CurrentSound
<1>6. QED
  BY <1>1, <1>2, <1>3, <1>4, <1>5, AgentStepKeeps

LEMMA ReportTaskKeeps == ASSUME ACInv, NEW s \in ServerID, ReportTask(s) PROVE ACInv'
<1> USE DEF ReportTask
<1>1. current[s] \in Task /\ outcome[current[s]] \in Done /\ outcome[current[s]] # "none"
  BY DEF ACInv, ACTypeOK, CurrentSound
<1>2. /\ stage' \in [Conn -> Stage] /\ req' \in [Conn -> Request] /\ UNCHANGED reply
      /\ waits' \in [ServerID -> Conn \cup {NoConn}] /\ ConnectionsSound'
      /\ \A z \in ServerID, t \in Task :
           (waits'[z] # NoConn /\ t \in reply'[waits'[z]])
             <=> (waits[z] # NoConn /\ t \in reply[waits[z]])
  BY <1>1, PostOpens
<1>3. ACTypeOK'
  BY <1>2 DEF ACInv, ACTypeOK, TSTypeOK, tsVars
<1>4. \A z \in ServerID, t \in Task : Upcoming(z, t)' => Upcoming(z, t)
  BY <1>2 DEF Upcoming
<1>5. QED
  BY <1>2, <1>3, <1>4, AgentStepKeeps DEF ACInv, UpcomingSound

LEMMA GiveUpKeeps == ASSUME ACInv, NEW s \in ServerID, GiveUp(s) PROVE ACInv'
<1> USE DEF GiveUp
<1>1. /\ \A z \in ServerID \ {s} : pc'[z] = pc[z] /\ current'[z] = current[z]
      /\ pc'[s] = IF todo[s] = {} THEN "idle" ELSE "start"
      /\ pc' \in [ServerID -> Phase] /\ current' \in [ServerID -> Task \cup {0}]
      /\ current'[s] = 0
  BY DEF ACInv, ACTypeOK, AfterTask, Phase
<1>2. /\ stage' \in [Conn -> Stage] /\ req' \in [Conn -> Request]
      /\ reply' \in [Conn -> SUBSET Task]
      /\ waits' \in [ServerID -> Conn \cup {NoConn}] /\ waits'[s] = NoConn
      /\ ConnectionsSound'
      /\ \A z \in ServerID \ {s}, t \in Task :
           (waits'[z] # NoConn /\ t \in reply'[waits'[z]])
             => (waits[z] # NoConn /\ t \in reply[waits[z]])
  BY <1>1, HangUp
<1>3. ACTypeOK'
  BY <1>1, <1>2 DEF ACInv, ACTypeOK, TSTypeOK, tsVars
<1>4. \A z \in ServerID, t \in Task : Upcoming(z, t)' => Upcoming(z, t)
  BY <1>2 DEF Upcoming
<1>5. QED
  BY <1>1, <1>2, <1>3, <1>4, AgentStepKeeps

LEMMA ReceiveKeeps == ASSUME ACInv, NEW s \in ServerID, Receive(s) PROVE ACInv'
<1> DEFINE received == IF pc[s] = "heartbeat" THEN reply[waits[s]] ELSE todo[s]
<1> USE DEF Receive
<1>1. received \in SUBSET Task
  BY DEF ACInv, ACTypeOK
<1>2. /\ \A z \in ServerID \ {s} : /\ pc'[z] = pc[z] /\ current'[z] = current[z]
                                /\ todo'[z] = todo[z]
      /\ pc'[s] = IF received = {} THEN "idle" ELSE "start"
      /\ todo'[s] = received /\ current'[s] = 0
      /\ pc' \in [ServerID -> Phase] /\ current' \in [ServerID -> Task \cup {0}]
      /\ todo' \in [ServerID -> SUBSET Task]
  BY <1>1 DEF ACInv, ACTypeOK, AfterTask, Phase
<1>3. /\ stage' \in [Conn -> Stage] /\ req' \in [Conn -> Request]
      /\ reply' \in [Conn -> SUBSET Task]
      /\ waits' \in [ServerID -> Conn \cup {NoConn}] /\ waits'[s] = NoConn
      /\ ConnectionsSound'
      /\ \A z \in ServerID \ {s}, t \in Task :
           (waits'[z] # NoConn /\ t \in reply'[waits'[z]])
             => (waits[z] # NoConn /\ t \in reply[waits[z]])
  BY <1>2, HangUp
<1>4. ACTypeOK'
  BY <1>2, <1>3 DEF ACInv, ACTypeOK, TSTypeOK, tsVars
<1>5. \A z \in ServerID, t \in Task : Upcoming(z, t)' => Upcoming(z, t)
  BY <1>2, <1>3 DEF Upcoming
<1>6. QED
  BY <1>2, <1>3, <1>4, <1>5, AgentStepKeeps

LEMMA CrashKeeps == ASSUME ACInv, NEW s \in ServerID, Crash(s) PROVE ACInv'
<1> USE DEF Crash
<1>1. /\ \A z \in ServerID \ {s} : /\ pc'[z] = pc[z] /\ current'[z] = current[z]
                                /\ todo'[z] = todo[z]
      /\ pc'[s] = "down" /\ todo'[s] = {} /\ current'[s] = 0
      /\ pc' \in [ServerID -> Phase] /\ current' \in [ServerID -> Task \cup {0}]
      /\ todo' \in [ServerID -> SUBSET Task]
  BY DEF ACInv, ACTypeOK, Phase
<1>2. /\ stage' \in [Conn -> Stage] /\ req' \in [Conn -> Request]
      /\ reply' \in [Conn -> SUBSET Task]
      /\ waits' \in [ServerID -> Conn \cup {NoConn}] /\ waits'[s] = NoConn
      /\ ConnectionsSound'
      /\ \A z \in ServerID \ {s}, t \in Task :
           (waits'[z] # NoConn /\ t \in reply'[waits'[z]])
             => (waits[z] # NoConn /\ t \in reply[waits[z]])
  <2>1. CASE waits[s] # NoConn
    BY <1>1, <2>1, HangUp
  <2>2. CASE waits[s] = NoConn
    <3>1. UNCHANGED <<stage, req, reply, waits>>
      BY <2>2 DEF netVars, ACInv, ACTypeOK
    <3>2. ConnectionsSound'
      BY <1>1, <2>2, <3>1 DEF ACInv, ConnectionsSound, Awaited
    <3>3. QED
      BY <2>2, <3>1, <3>2 DEF ACInv, ACTypeOK
  <2>3. QED
    BY <2>1, <2>2
<1>3. ACTypeOK'
  BY <1>1, <1>2 DEF ACInv, ACTypeOK, TSTypeOK, tsVars
<1>4. \A z \in ServerID, t \in Task : Upcoming(z, t)' => Upcoming(z, t)
  BY <1>1, <1>2 DEF Upcoming
<1>5. QED
  BY <1>1, <1>2, <1>3, <1>4, AgentStepKeeps

LEMMA StartKeeps == ASSUME ACInv, NEW s \in ServerID, Start(s) PROVE ACInv'
<1> USE DEF Start, netVars
<1>1. ACTypeOK'
  BY DEF ACInv, ACTypeOK, TSTypeOK, tsVars, Phase
<1>2. waits[s] = NoConn /\ todo[s] = {} /\ current[s] = 0
  BY DEF ACInv, ConnectionsSound, UpcomingSound, CurrentSound
<1>3. /\ \A z \in ServerID \ {s} : pc'[z] = pc[z]
      /\ pc'[s] = "register"
  BY DEF ACInv, ACTypeOK
<1>4. ConnectionsSound'
  BY <1>2, <1>3 DEF ACInv, ConnectionsSound, Awaited
<1>5. \A z \in ServerID, t \in Task : Upcoming(z, t)' => Upcoming(z, t)
  BY DEF Upcoming
<1>6. QED
  BY <1>1, <1>2, <1>3, <1>4, <1>5, AgentStepKeeps

(* What StartTask takes is on the list, and is its oldest entry.            *)
LEMMA OldestIsOldest ==
  ASSUME NEW S, S \subseteq Task, S # {}
  PROVE  Oldest(S) \in S /\ \A u \in S : Oldest(S) <= u
  BY OldestTask DEF Oldest

LEMMA StartTaskKeeps == ASSUME ACInv, NEW s \in ServerID, StartTask(s) PROVE ACInv'
<1> DEFINE t == Oldest(todo[s])
<1> USE DEF StartTask, netVars
<1>1. todo[s] \subseteq Task /\ todo[s] # {} /\ waits[s] = NoConn
  BY DEF ACInv, ACTypeOK, UpcomingSound, ConnectionsSound
<1>2. t \in todo[s] /\ t \in Task /\ \A u \in todo[s] : t <= u
  BY <1>1, OldestIsOldest
<1> HIDE DEF t
<1>3. /\ todo' = [todo EXCEPT ![s] = todo[s] \ {t}]
      /\ current' = [current EXCEPT ![s] = t]
      /\ runs' = [runs EXCEPT ![t] = runs[t] + 1]
      /\ pc' = [pc EXCEPT ![s] = "run"]
      /\ UNCHANGED <<taskStatus, owner, created, boot, rows, checked, stage, req, reply,
                     waits, outcome, waiter>>
  BY DEF t, tsVars
<1>4. /\ t <= created /\ owner[t] = s /\ runs[t] = 0 /\ taskStatus[t] # "pending"
      /\ outcome[t] = "none"
      /\ \A u \in Task : owner[u] = s /\ runs[u] > 0 => u < t
  BY <1>2 DEF ACInv, UpcomingSound, Upcoming, RunsSound
<1>5. /\ runs'[t] = 1 /\ \A u \in Task \ {t} : runs'[u] = runs[u]
      /\ runs' \in [Task -> Nat]
      /\ todo' \in [ServerID -> SUBSET Task] /\ current' \in [ServerID -> Task \cup {0}]
      /\ pc' \in [ServerID -> Phase]
      /\ current'[s] = t /\ pc'[s] = "run" /\ todo'[s] = todo[s] \ {t}
      /\ \A z \in ServerID \ {s} : /\ pc'[z] = pc[z] /\ current'[z] = current[z]
                                /\ todo'[z] = todo[z]
  BY <1>2, <1>3, <1>4 DEF ACInv, ACTypeOK, Phase
<1>6. ACTypeOK'
  BY <1>3, <1>5 DEF ACInv, ACTypeOK, TSTypeOK
<1>7. AtMostOnce' /\ StoredTrue' /\ WaiterToldTruth' /\ RunsSound'
  BY <1>3, <1>4, <1>5 DEF ACInv, AtMostOnce, StoredTrue, WaiterToldTruth, RunsSound
<1>8. ConnectionsSound'
  BY <1>1, <1>3, <1>5 DEF ACInv, ConnectionsSound, Awaited
<1>9. CurrentSound'
  <2>1. \A z \in ServerID \ {s} : current[z] # 0 => current[z] # t
    BY <1>4 DEF ACInv, CurrentSound
  <2>2. t # 0
    BY <1>2 DEF Task
  <2>3. \A z \in ServerID \ {s} :
          /\ current'[z] # 0 <=> pc'[z] \in {"run", "report"}
          /\ current'[z] # 0 => owner'[current'[z]] = z /\ runs'[current'[z]] = 1
          /\ pc'[z] = "run" => outcome'[current'[z]] = "none"
          /\ pc'[z] = "report" => outcome'[current'[z]] # "none"
    BY <2>1, <1>3, <1>5 DEF ACInv, CurrentSound, ACTypeOK
  <2>4. QED
    BY <2>2, <2>3, <1>3, <1>4, <1>5 DEF CurrentSound
<1>10. \A z \in ServerID, u \in Task :
         Upcoming(z, u)' => Upcoming(z, u) /\ u # t /\ (z = s => t < u)
  <2>1. ASSUME NEW z \in ServerID, NEW u \in Task, Upcoming(z, u)'
        PROVE  Upcoming(z, u)
    BY <2>1, <1>3, <1>5 DEF Upcoming
  <2>2. ASSUME NEW u \in Task, Upcoming(s, u)' PROVE u # t /\ t < u
    BY <2>2, <1>1, <1>2, <1>3, <1>5 DEF Upcoming, Task
  <2>3. ASSUME NEW z \in ServerID, z # s, NEW u \in Task, Upcoming(z, u) PROVE u # t
    BY <2>3, <1>4 DEF ACInv, UpcomingSound
  <2>4. QED
    BY <2>1, <2>2, <2>3
<1>11. UpcomingSound'
  <2>1. ASSUME NEW z \in ServerID, NEW u \in Task, Upcoming(z, u)'
        PROVE  /\ u <= created' /\ owner'[u] = z /\ runs'[u] = 0 /\ taskStatus'[u] # "pending"
               /\ \A v \in Task : owner'[v] = z /\ runs'[v] > 0 => v < u
    <3>1. Upcoming(z, u) /\ u # t /\ (z = s => t < u)
      BY <2>1, <1>10
    <3>2. /\ u <= created /\ owner[u] = z /\ runs[u] = 0 /\ taskStatus[u] # "pending"
          /\ \A v \in Task : owner[v] = z /\ runs[v] > 0 => v < u
      BY <3>1 DEF ACInv, UpcomingSound
    <3>3. QED
      BY <3>1, <3>2, <1>3, <1>4, <1>5
  <2>2. QED
    BY <2>1, <1>5 DEF ACInv, UpcomingSound
<1>12. PendingSound'
  <2> SUFFICES ASSUME NEW u \in Task, taskStatus[u] = "pending"
               PROVE  /\ runs'[u] = 0
                      /\ \A v \in Task : owner[v] = owner[u]
                           /\ (runs'[v] > 0 \/ Upcoming(owner[u], v)') => v < u
    BY <1>3 DEF PendingSound, Upcoming
  <2>1. owner[u] \in ServerID /\ u # t
    BY <1>4 DEF ACInv, ACTypeOK, TSTypeOK
  <2>2. \A v \in Task : Upcoming(owner[u], v)' => Upcoming(owner[u], v)
    BY <2>1, <1>3, <1>5, <1>10 DEF Upcoming
  <2>3. owner[u] = s => Upcoming(owner[u], t)
    BY <1>2 DEF Upcoming
  <2>4. QED
    BY <2>1, <2>2, <2>3, <1>2, <1>4, <1>5 DEF ACInv, PendingSound
<1>13. QED
  BY <1>6, <1>7, <1>8, <1>9, <1>11, <1>12 DEF ACInv

LEMMA FinishTaskKeeps ==
  ASSUME ACInv, NEW s \in ServerID, NEW result \in Done, FinishTask(s, result) PROVE ACInv'
<1> DEFINE t == current[s]
<1> USE DEF FinishTask, netVars, tsVars
<1>1. /\ t \in Task /\ owner[t] = s /\ runs[t] = 1 /\ outcome[t] = "none"
      /\ waits[s] = NoConn /\ result # "none"
  BY DEF ACInv, ACTypeOK, CurrentSound, ConnectionsSound, Done
<1>2. /\ outcome'[t] = result /\ \A u \in Task \ {t} : outcome'[u] = outcome[u]
      /\ outcome' \in [Task -> Done \cup {"none"}]
      /\ pc'[s] = "report" /\ \A z \in ServerID \ {s} : pc'[z] = pc[z]
      /\ pc' \in [ServerID -> Phase]
  BY <1>1 DEF ACInv, ACTypeOK, Phase
<1>3. ACTypeOK'
  BY <1>2 DEF ACInv, ACTypeOK, TSTypeOK
<1>4. AtMostOnce' /\ RunsSound'
  BY <1>1, <1>2 DEF ACInv, AtMostOnce, RunsSound
<1>5. StoredTrue' /\ WaiterToldTruth'
  BY <1>1, <1>2 DEF ACInv, StoredTrue, WaiterToldTruth, Done
<1>6. ConnectionsSound'
  BY <1>1, <1>2 DEF ACInv, ConnectionsSound, Awaited
<1>7. CurrentSound'
  <2>1. \A z \in ServerID \ {s} : current[z] # 0 => current[z] # t /\ current[z] \in Task
    BY <1>1 DEF ACInv, CurrentSound, ACTypeOK
  <2>2. QED
    BY <2>1, <1>1, <1>2 DEF ACInv, CurrentSound, Task
<1>8. \A z, u : Upcoming(z, u)' = Upcoming(z, u)
  BY DEF Upcoming
<1>9. UpcomingSound' /\ PendingSound'
  BY <1>2, <1>8 DEF ACInv, UpcomingSound, PendingSound
<1>10. QED
  BY <1>3, <1>4, <1>5, <1>6, <1>7, <1>9 DEF ACInv

-----------------------------------------------------------------------------
LEMMA ACInvInductive == ACInv /\ [ACNext]_acVars => ACInv'
<1> SUFFICES ASSUME ACInv, [ACNext]_acVars PROVE ACInv'
  OBVIOUS
<1>1. CASE AdminStep
  BY <1>1, CheckServerKeeps, EnqueueServerTaskKeeps, RunAndWaitKeeps, DeleteServerKeeps,
     WaitForResultKeeps, PanelRestartKeeps DEF AdminStep
<1>2. CASE PanelStep
  BY <1>2, AuthenticateKeeps, AgentRegisterKeeps, AgentHeartbeatKeeps, AgentTaskResultKeeps,
     LoseRequestKeeps DEF PanelStep, Handler
<1>3. CASE AgentStep
  BY <1>3, RegisterKeeps, HeartbeatKeeps, ReceiveKeeps, GiveUpKeeps, StartTaskKeeps,
     FinishTaskKeeps, ReportTaskKeeps, CrashKeeps, StartKeeps DEF AgentStep, PostReturns
<1>4. CASE UNCHANGED acVars
  <2>1. ACTypeOK' /\ WaiterToldTruth'
    BY <1>4 DEF acVars, tsVars, netVars, agentVars, ACInv, ACTypeOK, TSTypeOK, WaiterToldTruth
  <2>2. QED
    BY <1>4, <2>1, QuietStep DEF acVars
<1>5. QED
  BY <1>1, <1>2, <1>3, <1>4 DEF ACNext

(* The channel's inductive invariant holds in every reachable state.        *)
THEOREM ChannelInvariant == ACSpec => []ACInv
  BY ACInitInv, ACInvInductive, PTL DEF ACSpec

THEOREM ChannelTypeCorrect == ACSpec => []ACTypeOK
<1>1. ACInv => ACTypeOK
  BY DEF ACInv
<1>2. QED
  BY <1>1, ChannelInvariant, PTL

(* No command is run twice, for any number of servers, connections and      *)
(* tasks and whatever requests are lost, abandoned or answered late.        *)
THEOREM CommandsRunAtMostOnce == ACSpec => []AtMostOnce
<1>1. ACInv => AtMostOnce
  BY DEF ACInv
<1>2. QED
  BY <1>1, ChannelInvariant, PTL

(* A recorded result is what the task's only run, on its own server, came   *)
(* to, and a waiting caller is told nothing else.                           *)
THEOREM RecordedResultsTrue == ACSpec => []ResultsTrue
<1>1. ACInv => ResultsTrue
  BY DEF ACInv, ResultsTrue
<1>2. QED
  BY <1>1, ChannelInvariant, PTL

-----------------------------------------------------------------------------
(* Which actions touch what the panel knows of the runs, and the runs.      *)
LEMMA RunsUntouched ==
  ASSUME ACInv, ACNext, \A s \in ServerID : ~ StartTask(s)
  PROVE  runs' = runs
<1>1. CASE AdminStep
  BY <1>1 DEF AdminStep, CheckServer, EnqueueServerTask, RunAndWait, DeleteServer,
              WaitForResult, PanelRestart, agentVars
<1>2. CASE PanelStep
  BY <1>2 DEF PanelStep, Handler, Authenticate, AgentRegister, AgentHeartbeat,
              AgentTaskResult, LoseRequest, agentVars
<1>3. CASE AgentStep
  BY <1>3 DEF AgentStep, PostReturns, Register, Heartbeat, Receive, GiveUp, FinishTask,
              ReportTask, Crash, Start
<1>4. QED
  BY <1>1, <1>2, <1>3 DEF ACNext

LEMMA StartIsInOrder ==
  ASSUME ACInv, NEW s \in ServerID, StartTask(s)
  PROVE  LET t == Oldest(todo[s]) IN
           /\ t \in Task /\ t <= created /\ owner[t] = s /\ runs[t] = 0 /\ outcome[t] = "none"
           /\ runs' = [runs EXCEPT ![t] = 1]
           /\ \A u \in Task : owner[u] = s /\ runs[u] > 0 => u < t
<1> DEFINE t == Oldest(todo[s])
<1>1. todo[s] \subseteq Task /\ todo[s] # {}
  BY DEF StartTask, ACInv, ACTypeOK, UpcomingSound
<1>2. t \in todo[s] /\ t \in Task
  BY <1>1, OldestIsOldest
<1>3. runs' = [runs EXCEPT ![t] = runs[t] + 1]
  BY DEF StartTask
<1> HIDE DEF t
<1>4. /\ t <= created /\ owner[t] = s /\ runs[t] = 0 /\ outcome[t] = "none"
      /\ \A u \in Task : owner[u] = s /\ runs[u] > 0 => u < t
  BY <1>2 DEF ACInv, UpcomingSound, Upcoming, RunsSound
<1>5. QED
  BY <1>2, <1>3, <1>4 DEF t

(* On every server, tasks are started in the order in which they were       *)
(* enqueued.                                                                *)
THEOREM StartedInOrder == ACSpec => ExecutionInOrder
<1>1. ACInv /\ [ACNext]_acVars => [InOrderStep]_acVars
  <2> SUFFICES ASSUME ACInv, ACNext PROVE InOrderStep
    OBVIOUS
  <2>1. CASE \A s \in ServerID : ~ StartTask(s)
    BY <2>1, RunsUntouched DEF InOrderStep
  <2>2. ASSUME NEW s \in ServerID, StartTask(s) PROVE InOrderStep
    BY <2>2, StartIsInOrder DEF InOrderStep, ACInv, ACTypeOK
  <2>3. QED
    BY <2>1, <2>2
<1>2. QED
  BY <1>1, ChannelInvariant, PTL DEF ACSpec, ExecutionInOrder

-----------------------------------------------------------------------------
(* The refinement: what each action means for RemoteExecution.              *)
runMap == [t \in Task |-> IF outcome[t] # "none" THEN outcome[t]
                         ELSE IF runs[t] > 0 THEN "started" ELSE "no"]
knownMap == [t \in Task |-> IF taskStatus[t] \in Done THEN taskStatus[t] ELSE "nothing"]

LEMMA MapUnfold ==
  /\ RX!RXTask = Task /\ RX!Ended = Done
  /\ RX!rxVars = <<owner, created, runMap, knownMap>>
  BY DEF RX!RXTask, RX!Ended, RX!rxVars, Task, Done, runMap, knownMap

LEMMA EnqueueIsSubmit ==
  ASSUME ACInv, NEW s \in ServerID, Enqueue(s), UNCHANGED agentVars
  PROVE  RX!Submit(s)
<1>1. /\ created < MaxTasks /\ created' = created + 1 /\ created' \in Task
      /\ owner' = [owner EXCEPT ![created + 1] = s]
      /\ \A t \in Task :
           \/ taskStatus'[t] = taskStatus[t]
           \/ taskStatus'[t] \notin Done
  BY EnqueueEffect DEF Enqueue, ACInv, ACTypeOK, Done
<1>2. runMap' = runMap
  BY DEF runMap, agentVars
<1> DEFINE S == {t \in Task : taskStatus'[t] \notin Done}
<1>3. knownMap' = [t \in Task |-> IF t \in S THEN "nothing" ELSE knownMap[t]]
  BY <1>1 DEF knownMap
<1>4. RX!Forget(S) /\ S \in SUBSET RX!RXTask
  BY <1>3, MapUnfold DEF RX!Forget, knownMap
<1> HIDE DEF S
<1>5. \E old \in SUBSET RX!RXTask : RX!Forget(old)
  BY <1>4 DEF RX!Forget
<1>6. QED
  BY <1>1, <1>2, <1>5 DEF RX!Submit, runMap

LEMMA ResultIsLearn ==
  ASSUME ACInv, NEW c \in Conn, AgentTaskResult(c)
  PROVE  (\E t \in Task : RX!Learn(t)) \/ UNCHANGED RX!rxVars
<1> DEFINE t == req[c].task
<1>1. t \in Task /\ req[c].result = outcome[t] /\ outcome[t] \in Done
  BY DEF AgentTaskResult, ACInv, ConnectionsSound, ACTypeOK
<1>2. UNCHANGED runMap
  BY DEF AgentTaskResult, runMap, agentVars
<1>3. CASE taskStatus[t] = "absent"
  <2>1. UNCHANGED tsVars
    BY <1>3 DEF AgentTaskResult
  <2>2. knownMap' = knownMap
    BY <2>1 DEF tsVars, knownMap
  <2>3. QED
    BY <1>2, <2>1, <2>2 DEF tsVars, RX!rxVars, runMap, knownMap
<1>4. CASE taskStatus[t] # "absent"
  <2>1. SetResult(t, outcome[t])
    BY <1>1, <1>4 DEF AgentTaskResult
  <2>2. /\ UNCHANGED <<owner, created>> /\ taskStatus'[t] = outcome[t]
        /\ \A u \in Task \ {t} : taskStatus'[u] = taskStatus[u]
    BY <1>1, <2>1, ResultEffect DEF ACInv, ACTypeOK, Done
  <2>3. knownMap' = [knownMap EXCEPT ![t] = runMap[t]] /\ runMap[t] \in Done
    BY <1>1, <2>2 DEF knownMap, runMap, Done
  <2>4. RX!Learn(t)
    BY <1>2, <2>2, <2>3, MapUnfold DEF RX!Learn, knownMap, runMap
  <2>5. QED
    BY <1>1, <2>4 DEF RX!Learn
<1>5. QED
  BY <1>3, <1>4

LEMMA StartIsBegin ==
  ASSUME ACInv, NEW s \in ServerID, StartTask(s)
  PROVE  \E t \in Task : RX!Begin(t)
<1> DEFINE t == Oldest(todo[s])
<1>1. /\ t \in Task /\ t <= created /\ owner[t] = s /\ runs[t] = 0 /\ outcome[t] = "none"
      /\ runs' = [runs EXCEPT ![t] = 1]
      /\ \A u \in Task : owner[u] = s /\ runs[u] > 0 => u < t
  BY StartIsInOrder
<1>2. UNCHANGED <<taskStatus, owner, created, outcome>>
  BY DEF StartTask, tsVars
<1> HIDE DEF t
<1>3. runMap[t] = "no" /\ runMap' = [runMap EXCEPT ![t] = "started"]
  <2>1. /\ runs'[t] = 1 /\ outcome' = outcome
        /\ \A u \in Task \ {t} : runs'[u] = runs[u]
    BY <1>1, <1>2 DEF ACInv, ACTypeOK
  <2>2. runMap[t] = "no" /\ runMap'[t] = "started"
    BY <1>1, <2>1 DEF runMap
  <2>3. \A u \in Task \ {t} : runMap'[u] = runMap[u]
    BY <2>1 DEF runMap
  <2>4. QED
    BY <2>2, <2>3 DEF runMap
<1>4. \A u \in Task : runMap[u] # "no" => runs[u] > 0
  BY DEF runMap, ACInv, RunsSound
<1>5. UNCHANGED knownMap
  BY <1>2 DEF knownMap
<1>6. RX!Begin(t)
  BY <1>1, <1>2, <1>3, <1>4, <1>5, MapUnfold DEF RX!Begin, runMap, knownMap
<1>7. QED
  BY <1>1, <1>6 DEF RX!Begin

LEMMA FinishIsEnd ==
  ASSUME ACInv, NEW s \in ServerID, NEW result \in Done, FinishTask(s, result)
  PROVE  \E t \in Task : RX!End(t, result)
<1> DEFINE t == current[s]
<1>1. t \in Task /\ runs[t] = 1 /\ outcome[t] = "none" /\ result # "none"
  BY DEF FinishTask, ACInv, ACTypeOK, CurrentSound, Done
<1>2. UNCHANGED <<taskStatus, owner, created, runs>> /\ outcome' = [outcome EXCEPT ![t] = result]
  BY DEF FinishTask, tsVars
<1>3. runMap[t] = "started" /\ runMap' = [runMap EXCEPT ![t] = result]
  <2>1. /\ outcome'[t] = result /\ runs' = runs
        /\ \A u \in Task \ {t} : outcome'[u] = outcome[u]
    BY <1>1, <1>2 DEF ACInv, ACTypeOK
  <2>2. QED
    BY <1>1, <2>1 DEF runMap
<1>4. UNCHANGED knownMap
  BY <1>2 DEF knownMap
<1>5. RX!End(t, result)
  BY <1>1, <1>2, <1>3, <1>4, MapUnfold DEF RX!End, runMap, knownMap
<1>6. QED
  BY <1>1, <1>5 DEF RX!End

LEMMA RestartIsForgetAll == ASSUME ACInv, PanelRestart PROVE RX!ForgetAll
<1>1. UNCHANGED <<owner, created>> /\ \A t \in Task : taskStatus'[t] \notin Done
  BY RestartEffect DEF PanelRestart, ACInv, ACTypeOK, Done
<1>2. runMap' = runMap /\ knownMap' = [t \in Task |-> "nothing"]
  BY <1>1 DEF PanelRestart, agentVars, runMap, knownMap
<1>3. RX!Forget(RX!RXTask)
  BY <1>2, MapUnfold DEF RX!Forget, knownMap
<1>4. QED
  BY <1>1, <1>2, <1>3 DEF RX!ForgetAll, runMap

LEMMA OtherStepsStutter ==
  ASSUME ACInv, UNCHANGED <<owner, created, runs, outcome>>,
         \A t \in Task : taskStatus'[t] # taskStatus[t] =>
                         taskStatus[t] \notin Done /\ taskStatus'[t] \notin Done
  PROVE  UNCHANGED RX!rxVars
<1>1. runMap' = runMap
  BY DEF runMap
<1>2. knownMap' = knownMap
  BY DEF knownMap
<1>3. QED
  BY <1>1, <1>2 DEF RX!rxVars, runMap, knownMap

(* The task channel implements RemoteExecution: every task is run at most   *)
(* once, in order, and what the panel knows is what happened.               *)
THEOREM ChannelImplementsRemoteExecution == ACSpec => ImplementsRemoteExecution
<1>1. ACInit => RX!RXInit
  <2> SUFFICES ASSUME ACInit PROVE RX!RXInit
    OBVIOUS
  <2>1. runMap = [t \in Task |-> "no"] /\ knownMap = [t \in Task |-> "nothing"]
    BY DEF ACInit, TSInit, runMap, knownMap, Done
  <2>2. QED
    BY <2>1, MapUnfold DEF ACInit, TSInit, RX!RXInit, runMap, knownMap
<1>2. ACInv /\ [ACNext]_acVars => [RX!RXNext]_(RX!rxVars)
  <2> SUFFICES ASSUME ACInv, [ACNext]_acVars PROVE [RX!RXNext]_(RX!rxVars)
    OBVIOUS
  <2>1. ASSUME NEW s \in ServerID, EnqueueServerTask(s) \/ RunAndWait(s) PROVE RX!RXNext
    BY <2>1, EnqueueIsSubmit DEF EnqueueServerTask, RunAndWait, RX!RXNext
  <2>2. CASE PanelRestart
    BY <2>2, RestartIsForgetAll DEF RX!RXNext
  <2>3. ASSUME NEW c \in Conn, AgentTaskResult(c) PROVE [RX!RXNext]_(RX!rxVars)
    BY <2>3, ResultIsLearn, MapUnfold DEF RX!RXNext
  <2>4. ASSUME NEW s \in ServerID, StartTask(s) PROVE RX!RXNext
    BY <2>4, StartIsBegin, MapUnfold DEF RX!RXNext
  <2>5. ASSUME NEW s \in ServerID, NEW result \in Done, FinishTask(s, result) PROVE RX!RXNext
    BY <2>5, FinishIsEnd, MapUnfold DEF RX!RXNext
  <2>6. ASSUME NEW c \in Conn, AgentHeartbeat(c) PROVE UNCHANGED RX!rxVars
    <3>1. req[c].srv \in ServerID
      BY <2>6 DEF AgentHeartbeat, ACInv, ConnectionsSound
    <3>2. /\ UNCHANGED <<owner, created>>
          /\ \A t \in Task : taskStatus'[t] # taskStatus[t] =>
               taskStatus[t] \notin Done /\ taskStatus'[t] \notin Done
      BY <2>6, <3>1, ClaimEffect DEF AgentHeartbeat, ACInv, ACTypeOK, Done
    <3>3. QED
      BY <2>6, <3>2, OtherStepsStutter DEF AgentHeartbeat, agentVars
  <2>7. CASE \E s \in ServerID : CheckServer(s) \/ DeleteServer(s)
    BY <2>7, OtherStepsStutter DEF CheckServer, DeleteServer, tsVars, agentVars
  <2>8. CASE \E t \in Task : WaitForResult(t)
    BY <2>8, OtherStepsStutter DEF WaitForResult, tsVars, agentVars
  <2>9. CASE \E c \in Conn : Authenticate(c) \/ AgentRegister(c) \/ LoseRequest(c)
    BY <2>9, OtherStepsStutter DEF Authenticate, AgentRegister, LoseRequest, tsVars, agentVars
  <2>10. CASE \E s \in ServerID : Register(s) \/ Heartbeat(s) \/ ReportTask(s) \/ Start(s)
    BY <2>10, OtherStepsStutter DEF Register, Heartbeat, ReportTask, Start, tsVars
  <2>11. CASE \E s \in ServerID : Receive(s) \/ GiveUp(s) \/ Crash(s)
    BY <2>11, OtherStepsStutter DEF Receive, GiveUp, Crash, tsVars
  <2>12. CASE UNCHANGED acVars
    BY <2>12, OtherStepsStutter DEF acVars, tsVars, agentVars
  <2>13. QED
    BY <2>1, <2>2, <2>3, <2>4, <2>5, <2>6, <2>7, <2>8, <2>9, <2>10, <2>11, <2>12
       DEF ACNext, AdminStep, PanelStep, Handler, AgentStep, PostReturns
<1>3. QED
  BY <1>1, <1>2, ChannelInvariant, PTL DEF ACSpec, ImplementsRemoteExecution, RX!RXSpec
=============================================================================
