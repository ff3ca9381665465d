---------------------------- MODULE ServerStore ----------------------------
(* The table of monitored servers: backend/internal/database/memory.go,     *)
(* with the agent authentication in front of it (middleware/agent_auth.go)  *)
(* and the reaper that watches it (monitor/agent_reaper.go).                *)
(*                                                                          *)
(* A row is the presence of its id in `stored' and the fields that decide   *)
(* whether an agent may speak for the server and whether it is shown as     *)
(* reachable.  Names, addresses, roles and SSH settings (UpdateServer) do   *)
(* not take part in this and are left out; metrics are in Telemetry.        *)
(* Every store operation runs under the store's mutex.                      *)
EXTENDS Integers, FiniteSets

CONSTANTS Server,         \* ids; a created server takes one not used before
          Seeds,          \* the sample servers InitMemoryStore puts in
          AgentTimeout,   \* time units of silence the reaper tolerates
          ReapPeriod      \* time units between two runs of the reaper

ASSUME SeedsAssumption == Seeds \subseteq Server
ASSUME ClockAssumption == AgentTimeout \in Nat /\ ReapPeriod \in Nat \ {0}

VARIABLES stored,      \* rows in the table
          bound,       \* rows with an agent secret
          connected,   \* rows with AgentConnected set
          online,      \* rows with Status "online"
          silent,      \* time since LastAgentSeen, up to Forever
          born,        \* ids that were ever in the table
          authed,      \* agent requests past the authentication, not applied yet
          reapIn       \* time until the reaper's ticker fires

ssVars == <<stored, bound, connected, online, silent, born, authed, reapIn>>

Call == {"register", "heartbeat"}

(* Any longer silence, a row that no agent ever reported for included.      *)
Forever == AgentTimeout + ReapPeriod + 1

SSInit ==
  /\ stored = Seeds /\ born = Seeds
  /\ online = Seeds
  /\ bound = {} /\ connected = {}
  /\ silent = [s \in Server |-> Forever]
  /\ authed = {}
  /\ reapIn = ReapPeriod

CreateServer(s) ==
  /\ s \notin born
  /\ stored' = stored \cup {s}
  /\ born' = born \cup {s}
  /\ bound' = bound \cup {s}
  /\ UNCHANGED <<connected, online, silent, authed, reapIn>>

DeleteServer(s) ==
  /\ s \in stored
  /\ stored' = stored \ {s}
  /\ bound' = bound \ {s}
  /\ connected' = connected \ {s}
  /\ online' = online \ {s}
  /\ silent' = [silent EXCEPT ![s] = Forever]
  /\ UNCHANGED <<born, authed, reapIn>>

(* GetServerBySecret finds the row; the lock is released before the handler *)
(* goes on with the row's id.                                               *)
AgentAuth(s, call) ==
  /\ s \in bound
  /\ authed' = authed \cup {<<s, call>>}
  /\ UNCHANGED <<stored, bound, connected, online, silent, born, reapIn>>

(* Mutant of MarkSeen: the row is written without a look whether it is      *)
(* still there.                                                             *)
MarkSeenUnchecked(s) ==
  /\ stored' = stored \cup {s}
  /\ connected' = connected \cup {s}
  /\ online' = online \cup {s}
  /\ silent' = [silent EXCEPT ![s] = 0]

(* Mutant of MarkSeen: the status is left as it was.                        *)
MarkSeenKeepsStatus(s) ==
  /\ connected' = IF s \in stored THEN connected \cup {s} ELSE connected
  /\ silent' = IF s \in stored THEN [silent EXCEPT ![s] = 0] ELSE silent
  /\ UNCHANGED <<stored, online>>

(* What a call of the agent of server s leaves in its row, if there is one. *)
MarkSeen(s) ==
  /\ IF s \in stored
     THEN /\ connected' = connected \cup {s}
          /\ online' = online \cup {s}
          /\ silent' = [silent EXCEPT ![s] = 0]
     ELSE UNCHANGED <<connected, online, silent>>
  /\ UNCHANGED stored

RegisterAgent(s) ==
  /\ <<s, "register">> \in authed
  /\ authed' = authed \ {<<s, "register">>}
  /\ MarkSeen(s)
  /\ UNCHANGED <<bound, born, reapIn>>

ApplyHeartbeat(s) ==
  /\ <<s, "heartbeat">> \in authed
  /\ authed' = authed \ {<<s, "heartbeat">>}
  /\ MarkSeen(s)
  /\ UNCHANGED <<bound, born, reapIn>>

(* Mutants of Stale: the silence is compared with twice the timeout; a      *)
(* silence of exactly the timeout counts.                                   *)
StaleTwice(s) == s \in connected /\ silent[s] > 2 * AgentTimeout

StaleAtTimeout(s) == s \in connected /\ silent[s] >= AgentTimeout

Stale(s) == s \in connected /\ silent[s] > AgentTimeout

(* One tick of StartAgentReaper's ticker.                                   *)
ReapStaleAgents ==
  /\ reapIn = 0
  /\ reapIn' = ReapPeriod
  /\ connected' = {s \in connected : ~ Stale(s)}
  /\ online' = {s \in online : ~ Stale(s)}
  /\ UNCHANGED <<stored, bound, silent, born, authed>>

(* A restored table: an uploaded list of rows, whatever is in them, except  *)
(* that the agent secret is never part of the JSON.                         *)
ReplaceAll(rows, isConnected, isOnline, age) ==
  /\ stored' = rows
  /\ born' = born \cup rows
  /\ bound' = {}
  /\ connected' = isConnected
  /\ online' = isOnline
  /\ silent' = [s \in Server |-> IF s \in rows THEN age ELSE Forever]
  /\ UNCHANGED <<authed, reapIn>>

(* Time passes; a ticker that is due fires before the next unit begins.     *)
Tick ==
  /\ reapIn > 0
  /\ reapIn' = reapIn - 1
  /\ silent' = [s \in Server |-> IF silent[s] < Forever THEN silent[s] + 1 ELSE Forever]
  /\ UNCHANGED <<stored, bound, connected, online, born, authed>>

SSNext ==
  \/ \E s \in Server : CreateServer(s) \/ DeleteServer(s)
  \/ \E s \in Server, call \in Call : AgentAuth(s, call)
  \/ \E s \in Server : RegisterAgent(s) \/ ApplyHeartbeat(s)
  \/ ReapStaleAgents
  \/ \E rows \in SUBSET Server : \E isConnected, isOnline \in SUBSET rows, age \in {0, Forever} :
       ReplaceAll(rows, isConnected, isOnline, age)
  \/ Tick

SSSpec == SSInit /\ [][SSNext]_ssVars

-----------------------------------------------------------------------------
SSTypeOK ==
  /\ stored \subseteq born /\ born \subseteq Server
  /\ bound \subseteq stored
  /\ connected \subseteq stored
  /\ online \subseteq stored
  /\ silent \in [Server -> 0..Forever]
  /\ authed \subseteq Server \X Call
  /\ reapIn \in 0..ReapPeriod

(* The two flags of a row an agent can speak for never contradict each      *)
(* other: it is shown online exactly while its agent counts as connected.   *)
AgentRowConsistent == \A s \in bound : s \in online <=> s \in connected

(* A dead agent does not stay on the dashboard: a row whose agent was last  *)
(* heard of longer ago than the timeout and one period of the reaper is no  *)
(* longer connected, whatever else happened to the table in between.        *)
StaleBounded == \A s \in bound \cap connected : silent[s] <= AgentTimeout + ReapPeriod

(* A request of an agent that was authenticated before its server was       *)
(* deleted does not bring the row back when it is applied.                  *)
NoResurrectionStep == authed' # authed => stored' \subseteq stored
NoResurrection == [][NoResurrectionStep]_ssVars
=============================================================================
