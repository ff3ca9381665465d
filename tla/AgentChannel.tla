---------------------------- MODULE AgentChannel ---------------------------
(* The agent task channel from end to end: an admin enqueues tasks for a    *)
(* server (handlers/agent.go, agent/channel.go), the server's agent claims  *)
(* them with a heartbeat, runs them one after the other and reports each    *)
(* (agent/main.go).  Agent and panel talk over HTTP: a request or its       *)
(* answer may be lost, the agent stops waiting after its timeout while the  *)
(* panel's handler goes on, the agent process may die and be started again, *)
(* a server may be deleted under its agent, and the panel may restart,      *)
(* which empties both stores.                                               *)
(*                                                                          *)
(* The task store is TaskStore; of the server store only what               *)
(* authenticates an agent matters here (`rows').  Each server has one       *)
(* agent.  A request lives on a connection from the moment it is sent until *)
(* its handler is through and its answer received or discarded; the pool of *)
(* connections bounds the requests in flight at once.                       *)
EXTENDS TaskStore

CONSTANTS Conn,      \* connections
          NoConn

ASSUME NoConnAssumption == NoConn \notin Conn

VARIABLES rows,      \* servers whose row, with the agent's secret, is there
          checked,   \* EnqueueServerTask calls past the existence check
          stage,     \* how far the request on each connection is
          req,       \* that request
          reply,     \* the tasks its answer carries
          pc,        \* what each agent is doing
          waits,     \* the connection an agent is waiting on
          todo,      \* tasks the agent received and has not started
          current,   \* the task the agent is at, 0 if none
          runs,      \* how often each task's command was started
          outcome,   \* what each finished run came to
          waiter     \* RunAndWait callers, by task

agentVars == <<pc, waits, todo, current, runs, outcome>>
netVars == <<stage, req, reply>>
acVars == <<tsVars, rows, checked, netVars, agentVars, waiter>>

NoRequest == [kind |-> "none", srv |-> NoServer, task |-> 0, result |-> "none"]

Stage == {"free", "sent", "authed", "answered"}
Request == [kind : {"none", "register", "heartbeat", "result"},
            srv : ServerID \cup {NoServer},
            task : Task \cup {0},
            result : Done \cup {"none"}]

Phase == {"down", "register", "idle", "heartbeat", "start", "run", "report"}
WaitState == {"none", "waiting", "success", "failed", "timeout", "notfound"}

(* Mutant of Oldest: tasks are taken from the wrong end.                    *)
Youngest(S) == CHOOSE t \in S : \A u \in S : u <= t

(* The head of a list of tasks sorted by age, as ClaimPending returns it.   *)
Oldest(S) == CHOOSE t \in S : \A u \in S : t <= u

ACInit ==
  /\ TSInit
  /\ rows = ServerID
  /\ checked = {}
  /\ stage = [c \in Conn |-> "free"]
  /\ req = [c \in Conn |-> NoRequest]
  /\ reply = [c \in Conn |-> {}]
  /\ pc = [s \in ServerID |-> "down"]
  /\ waits = [s \in ServerID |-> NoConn]
  /\ todo = [s \in ServerID |-> {}]
  /\ current = [s \in ServerID |-> 0]
  /\ runs = [t \in Task |-> 0]
  /\ outcome = [t \in Task |-> "none"]
  /\ waiter = [t \in Task |-> "none"]

-----------------------------------------------------------------------------
(* The admin's side.                                                        *)

(* EnqueueServerTask looks the server up, releases the store's lock, parses *)
(* the request and then enqueues.                                           *)
CheckServer(s) ==
  /\ s \in rows
  /\ checked' = checked \cup {s}
  /\ UNCHANGED <<tsVars, rows, netVars, agentVars, waiter>>

EnqueueServerTask(s) ==
  /\ s \in checked
  /\ checked' = checked \ {s}
  /\ Enqueue(s)
  /\ UNCHANGED <<rows, netVars, agentVars, waiter>>

(* RunAndWait and WriteFileAndWait enqueue for a server id they were given  *)
(* and then poll.                                                           *)
RunAndWait(s) ==
  /\ Enqueue(s)
  /\ waiter' = [waiter EXCEPT ![created + 1] = "waiting"]
  /\ UNCHANGED <<rows, checked, netVars, agentVars>>

(* One turn of WaitForResult's loop that ends it; the others change         *)
(* nothing.  The status is looked at before the deadline.                   *)
WaitForResult(t) ==
  /\ waiter[t] = "waiting"
  /\ \E now \in WaitState :
       /\ \/ taskStatus[t] = "absent" /\ now = "notfound"
          \/ taskStatus[t] \in Done /\ now = taskStatus[t]
          \/ taskStatus[t] \in Unfinished /\ now = "timeout"
       /\ waiter' = [waiter EXCEPT ![t] = now]
  /\ UNCHANGED <<tsVars, rows, checked, netVars, agentVars>>

DeleteServer(s) ==
  /\ s \in rows
  /\ rows' = rows \ {s}
  /\ UNCHANGED <<tsVars, checked, netVars, agentVars, waiter>>

(* The panel's process dies and comes back: stores, handlers and waiting    *)
(* callers are gone; an agent notices only that its request fails.          *)
PanelRestart ==
  /\ InitTaskStore
  /\ rows' = {}
  /\ checked' = {}
  /\ stage' = [c \in Conn |-> "free"]
  /\ req' = [c \in Conn |-> NoRequest]
  /\ reply' = [c \in Conn |-> {}]
  /\ waiter' = [t \in Task |-> IF waiter[t] = "waiting" THEN "none" ELSE waiter[t]]
  /\ UNCHANGED agentVars

-----------------------------------------------------------------------------
(* The panel's handlers for the agent.                                      *)

Awaited(c) == \E s \in ServerID : waits[s] = c

Release(c) ==
  /\ stage' = [stage EXCEPT ![c] = "free"]
  /\ req' = [req EXCEPT ![c] = NoRequest]
  /\ reply' = [reply EXCEPT ![c] = {}]

(* The answer is on its way; a request nobody waits for any more ends.      *)
Answer(c, tasks) ==
  IF Awaited(c)
  THEN /\ stage' = [stage EXCEPT ![c] = "answered"]
       /\ reply' = [reply EXCEPT ![c] = tasks]
       /\ UNCHANGED req
  ELSE Release(c)

(* AgentAuth, in front of every agent endpoint: 401 without the row.        *)
Authenticate(c) ==
  /\ stage[c] = "sent"
  /\ IF req[c].srv \in rows
     THEN stage' = [stage EXCEPT ![c] = "authed"] /\ UNCHANGED <<req, reply>>
     ELSE Answer(c, {})
  /\ UNCHANGED <<tsVars, rows, checked, agentVars, waiter>>

(* AgentRegister touches the server's row only.                             *)
AgentRegister(c) ==
  /\ stage[c] = "authed" /\ req[c].kind = "register"
  /\ Answer(c, {})
  /\ UNCHANGED <<tsVars, rows, checked, agentVars, waiter>>

(* AgentHeartbeat hands out what is pending; if the agent hung up, the      *)
(* claimed tasks go nowhere.                                                *)
AgentHeartbeat(c) ==
  /\ stage[c] = "authed" /\ req[c].kind = "heartbeat"
  /\ ClaimPending(req[c].srv)
  /\ Answer(c, PendingFor(req[c].srv))
  /\ UNCHANGED <<rows, checked, agentVars, waiter>>

(* AgentTaskResult stores the result, or answers 404.                       *)
AgentTaskResult(c) ==
  /\ stage[c] = "authed" /\ req[c].kind = "result"
  /\ IF taskStatus[req[c].task] # "absent"
     THEN SetResult(req[c].task, req[c].result)
     ELSE UNCHANGED tsVars
  /\ Answer(c, {})
  /\ UNCHANGED <<rows, checked, agentVars, waiter>>

(* A request that nobody waits for never arrives.                           *)
LoseRequest(c) ==
  /\ stage[c] = "sent" /\ ~ Awaited(c)
  /\ Release(c)
  /\ UNCHANGED <<tsVars, rows, checked, agentVars, waiter>>

-----------------------------------------------------------------------------
(* The agent of server s.                                                   *)

Post(s, kind, task, result) ==
  \E c \in Conn :
    /\ stage[c] = "free" /\ ~ Awaited(c)
    /\ stage' = [stage EXCEPT ![c] = "sent"]
    /\ req' = [req EXCEPT ![c] = [kind |-> kind, srv |-> s, task |-> task, result |-> result]]
    /\ waits' = [waits EXCEPT ![s] = c]
    /\ UNCHANGED reply

Register(s) ==
  /\ pc[s] = "register" /\ waits[s] = NoConn
  /\ Post(s, "register", 0, "none")
  /\ UNCHANGED <<tsVars, rows, checked, pc, todo, current, runs, outcome, waiter>>

Heartbeat(s) ==
  /\ pc[s] = "idle"
  /\ Post(s, "heartbeat", 0, "none")
  /\ pc' = [pc EXCEPT ![s] = "heartbeat"]
  /\ UNCHANGED <<tsVars, rows, checked, todo, current, runs, outcome, waiter>>

(* main's loop over the tasks of one heartbeat, in the order received       *)
(* (ClaimPending sorts them by age); then back to the ticker.               *)
AfterTask(s, left) ==
  pc' = [pc EXCEPT ![s] = IF left = {} THEN "idle" ELSE "start"]

(* post returns, with the answer.                                           *)
Receive(s) ==
  /\ waits[s] # NoConn /\ stage[waits[s]] = "answered"
  /\ waits' = [waits EXCEPT ![s] = NoConn]
  /\ Release(waits[s])
  /\ current' = [current EXCEPT ![s] = 0]
  /\ LET received == IF pc[s] = "heartbeat" THEN reply[waits[s]] ELSE todo[s] IN
       /\ todo' = [todo EXCEPT ![s] = received]
       /\ AfterTask(s, received)
  /\ UNCHANGED <<tsVars, rows, checked, runs, outcome, waiter>>

(* Mutant of GiveUp: a task whose report failed is put back on the list.    *)
GiveUpAndRetry(s) ==
  /\ waits[s] # NoConn
  /\ waits' = [waits EXCEPT ![s] = NoConn]
  /\ IF stage[waits[s]] = "answered" THEN Release(waits[s]) ELSE UNCHANGED netVars
  /\ current' = [current EXCEPT ![s] = 0]
  /\ todo' = [todo EXCEPT ![s] = @ \cup ({current[s]} \ {0})]
  /\ AfterTask(s, todo'[s])
  /\ UNCHANGED <<tsVars, rows, checked, runs, outcome, waiter>>

(* post returns an error: the timeout, or a broken connection; the request  *)
(* may still be handled.  No agent call is repeated.                        *)
GiveUp(s) ==
  /\ waits[s] # NoConn
  /\ waits' = [waits EXCEPT ![s] = NoConn]
  /\ IF stage[waits[s]] = "answered" THEN Release(waits[s]) ELSE UNCHANGED netVars
  /\ current' = [current EXCEPT ![s] = 0]
  /\ AfterTask(s, todo[s])
  /\ UNCHANGED <<tsVars, rows, checked, todo, runs, outcome, waiter>>

(* runTask starts the command ...                                           *)
StartTask(s) ==
  /\ pc[s] = "start"
  /\ LET t == Oldest(todo[s]) IN
       /\ todo' = [todo EXCEPT ![s] = @ \ {t}]
       /\ current' = [current EXCEPT ![s] = t]
       /\ runs' = [runs EXCEPT ![t] = @ + 1]
  /\ pc' = [pc EXCEPT ![s] = "run"]
  /\ UNCHANGED <<tsVars, rows, checked, netVars, waits, outcome, waiter>>

(* ... which ends well or not (an unknown type fails at once) ...           *)
FinishTask(s, result) ==
  /\ pc[s] = "run"
  /\ outcome' = [outcome EXCEPT ![current[s]] = result]
  /\ pc' = [pc EXCEPT ![s] = "report"]
  /\ UNCHANGED <<tsVars, rows, checked, netVars, waits, todo, current, runs, waiter>>

(* Mutant of ReportTask: "success", which the result starts out as, stays.  *)
ReportSuccess(s) ==
  /\ pc[s] = "report" /\ waits[s] = NoConn
  /\ Post(s, "result", current[s], "success")
  /\ UNCHANGED <<tsVars, rows, checked, pc, todo, current, runs, outcome, waiter>>

(* ... and posts what came out.                                             *)
ReportTask(s) ==
  /\ pc[s] = "report" /\ waits[s] = NoConn
  /\ Post(s, "result", current[s], outcome[current[s]])
  /\ UNCHANGED <<tsVars, rows, checked, pc, todo, current, runs, outcome, waiter>>

(* The agent's process dies, at any point, and systemd starts it again.     *)
Crash(s) ==
  /\ pc[s] # "down"
  /\ pc' = [pc EXCEPT ![s] = "down"]
  /\ waits' = [waits EXCEPT ![s] = NoConn]
  /\ IF waits[s] # NoConn /\ stage[waits[s]] = "answered"
     THEN Release(waits[s]) ELSE UNCHANGED netVars
  /\ todo' = [todo EXCEPT ![s] = {}]
  /\ current' = [current EXCEPT ![s] = 0]
  /\ UNCHANGED <<tsVars, rows, checked, runs, outcome, waiter>>

Start(s) ==
  /\ pc[s] = "down"
  /\ pc' = [pc EXCEPT ![s] = "register"]
  /\ UNCHANGED <<tsVars, rows, checked, netVars, waits, todo, current, runs, outcome, waiter>>

-----------------------------------------------------------------------------
AdminStep ==
  \/ \E s \in ServerID : \/ CheckServer(s)
                       \/ EnqueueServerTask(s)
                       \/ RunAndWait(s)
                       \/ DeleteServer(s)
  \/ \E t \in Task : WaitForResult(t)
  \/ PanelRestart

Handler(c) == AgentRegister(c) \/ AgentHeartbeat(c) \/ AgentTaskResult(c)

PanelStep == \E c \in Conn : Authenticate(c) \/ Handler(c) \/ LoseRequest(c)

PostReturns(s) == Receive(s) \/ GiveUp(s)

AgentStep ==
  \E s \in ServerID :
    \/ Register(s) \/ Heartbeat(s) \/ PostReturns(s)
    \/ StartTask(s) \/ ReportTask(s)
    \/ \E result \in Done : FinishTask(s, result)
    \/ Crash(s) \/ Start(s)

ACNext == AdminStep \/ PanelStep \/ AgentStep

ACSpec == ACInit /\ [][ACNext]_acVars

(* Goroutines and the agent's loop get to run; http.Client's timeout makes  *)
(* every post return; systemd restarts a dead agent (Restart=always).  The  *)
(* network may lose requests, but not every heartbeat for ever.  Nothing is *)
(* assumed of the commands: runCommand has no timeout.                      *)
ACFairness ==
  /\ \A c \in Conn : WF_acVars(Handler(c))
  /\ \A c \in Conn : WF_acVars(Authenticate(c) \/ LoseRequest(c))
  /\ \A s \in ServerID :
       /\ WF_acVars(Start(s))
       /\ WF_acVars(Register(s) \/ Heartbeat(s) \/ StartTask(s) \/ ReportTask(s))
       /\ WF_acVars(PostReturns(s))
       /\ SF_acVars(\E c \in Conn : /\ req[c].srv = s /\ req[c].kind = "heartbeat"
                                   /\ Authenticate(c))

ACFairSpec == ACSpec /\ ACFairness

-----------------------------------------------------------------------------
ACTypeOK ==
  /\ TSTypeOK
  /\ rows \subseteq ServerID /\ checked \subseteq ServerID
  /\ stage \in [Conn -> Stage]
  /\ req \in [Conn -> Request]
  /\ reply \in [Conn -> SUBSET Task]
  /\ pc \in [ServerID -> Phase]
  /\ waits \in [ServerID -> Conn \cup {NoConn}]
  /\ todo \in [ServerID -> SUBSET Task]
  /\ current \in [ServerID -> Task \cup {0}]
  /\ runs \in [Task -> Nat]
  /\ outcome \in [Task -> Done \cup {"none"}]
  /\ waiter \in [Task -> WaitState]

(* A command is run once at most, whatever is lost, abandoned, answered     *)
(* late or restarted: what was handed out is never handed out again.        *)
AtMostOnce == \A t \in Task : runs[t] <= 1

(* A result in the store is true: the task was run, on no other server than *)
(* the one it was meant for, and came to that.                              *)
StoredTrue ==
  /\ \A t \in Task : taskStatus[t] \in Done => outcome[t] = taskStatus[t]
  /\ \A s \in ServerID : current[s] # 0 => owner[current[s]] = s

(* So is what a caller of RunAndWait is told.                               *)
WaiterToldTruth == \A t \in Task : waiter[t] \in Done => outcome[t] = waiter[t]

(* Whoever reads or waits for a result learns what happened, although       *)
(* AgentTaskResult checks neither the sender nor the task's status and      *)
(* tasks are pruned between two polls (SetResult, WaitForResult).           *)
ResultsTrue == StoredTrue /\ WaiterToldTruth

(* Why these hold.  A connection in use carries a request of one server;    *)
(* only an answered heartbeat that is waited for carries tasks; a result    *)
(* post carries what the run of its task came to.  An agent waits on a      *)
(* connection of its own.                                                   *)
ConnectionsSound ==
  /\ \A c \in Conn :
       /\ stage[c] # "free" => req[c].srv \in ServerID
       /\ stage[c] = "answered" => Awaited(c)
       /\ reply[c] # {} => stage[c] = "answered" /\ req[c].kind = "heartbeat"
       /\ stage[c] # "free" /\ req[c].kind = "result" =>
            /\ req[c].task \in Task
            /\ outcome[req[c].task] # "none" /\ req[c].result = outcome[req[c].task]
  /\ \A s \in ServerID : waits[s] # NoConn =>
       /\ pc[s] \in {"register", "heartbeat", "report"}
       /\ stage[waits[s]] # "free" =>
            req[waits[s]].srv = s /\ (req[waits[s]].kind = "heartbeat" <=> pc[s] = "heartbeat")
       /\ \A z \in ServerID : waits[z] = waits[s] => z = s

(* Task t is for the agent of s yet to start: on its list, or in the answer *)
(* on its way.                                                              *)
Upcoming(s, t) == t \in todo[s] \/ (waits[s] # NoConn /\ t \in reply[waits[s]])

(* The upcoming tasks of an agent are its server's, were claimed, were      *)
(* never started, and are younger than all that were started.               *)
UpcomingSound ==
  \A s \in ServerID :
    /\ \A t \in Task : Upcoming(s, t) =>
         /\ t <= created /\ owner[t] = s /\ runs[t] = 0 /\ taskStatus[t] # "pending"
         /\ \A u \in Task : owner[u] = s /\ runs[u] > 0 => u < t
    /\ todo[s] # {} => pc[s] \in {"start", "run", "report"}
    /\ pc[s] = "start" => todo[s] # {}

(* A pending task was never started and is younger than all its server's    *)
(* tasks that were, or are about to be.                                     *)
PendingSound ==
  \A t \in Task : taskStatus[t] = "pending" =>
    /\ runs[t] = 0
    /\ \A u \in Task :
         owner[u] = owner[t] /\ (runs[u] > 0 \/ Upcoming(owner[t], u)) => u < t

(* The agent is at a task exactly while it runs or reports it.              *)
CurrentSound ==
  \A s \in ServerID :
    /\ current[s] # 0 <=> pc[s] \in {"run", "report"}
    /\ current[s] # 0 => owner[current[s]] = s /\ runs[current[s]] = 1
    /\ pc[s] = "run" => outcome[current[s]] = "none"
    /\ pc[s] = "report" => outcome[current[s]] # "none"

RunsSound ==
  \A t \in Task :
    /\ runs[t] > 0 => t <= created
    /\ outcome[t] # "none" => runs[t] = 1

ACInv == /\ ACTypeOK /\ AtMostOnce /\ StoredTrue /\ WaiterToldTruth
         /\ ConnectionsSound /\ UpcomingSound /\ PendingSound /\ CurrentSound /\ RunsSound

(* Tasks are started on a server in the order they were enqueued, also over *)
(* several heartbeats: a deployer's "write config" is never overtaken by    *)
(* its "restart service".                                                   *)
InOrderStep ==
  \A t \in Task : runs'[t] # runs[t] =>
    \A u \in Task : owner[u] = owner[t] /\ runs[u] > 0 => u < t
ExecutionInOrder == [][InOrderStep]_acVars

(* The channel implements RemoteExecution.                                  *)
RX == INSTANCE RemoteExecution WITH
        target <- owner,
        submitted <- created,
        run <- [t \in Task |-> IF outcome[t] # "none" THEN outcome[t]
                              ELSE IF runs[t] > 0 THEN "started" ELSE "no"],
        known <- [t \in Task |-> IF taskStatus[t] \in Done THEN taskStatus[t]
                                ELSE "nothing"]
ImplementsRemoteExecution == RX!RXSpec

(* A pending task of a server that keeps its row is claimed by the agent    *)
(* unless the agent keeps dying or never gets out of a running command.     *)
PendingClaimed ==
  \A t \in Task : \A s \in ServerID :
    (taskStatus[t] = "pending" /\ owner[t] = s)
      ~> (taskStatus[t] # "pending" \/ s \notin rows \/ pc[s] \in {"down", "run"})
=============================================================================
