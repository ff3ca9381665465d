------------------------------ MODULE Telemetry -----------------------------
(* Metrics of the servers: the rows that AgentHeartbeat and the simulator   *)
(* (monitor/simulator.go) write, and the histories of                       *)
(* backend/internal/database/metrics_store.go.                              *)
(*                                                                          *)
(* The simulator works on pointers to the rows, without the store's lock:   *)
(* it reads a row's status, then whether an agent is connected, then writes *)
(* the row and appends to its history, while heartbeats are applied, the    *)
(* reaper takes servers offline and admins delete them.  A metric is who    *)
(* it is from, the agent or the simulator.  Sample servers have no agent;   *)
(* the registration of an agent and the passing of secrets are in           *)
(* ServerStore.                                                             *)
EXTENDS Integers, Sequences, FiniteSets

CONSTANTS Server,        \* rows; CreateServer takes one not usedRows before
          Samples,       \* the sample servers
          Beat,          \* heartbeats that may be handled at once
          AgentTimeout,  \* the reaper's
          MaxPoints,     \* points kept per server (60 in the code)
          MaxTime        \* bound of the model

ASSUME SampleAssumption == Samples \subseteq Server
ASSUME TelemetryLimits == AgentTimeout \in Nat /\ MaxPoints \in Nat \ {0} /\ MaxTime \in Nat

VARIABLES rows,      \* stored servers
          usedRows,  \* ids that were ever stored
          online,    \* Status = "online"
          connected, \* AgentConnected
          agentSeen, \* LastAgentSeen; -1 is the zero time
          source,    \* whom the metrics in a row are from, or "none"
          points,    \* the histories: time and source, as appended
          clock,
          beats,     \* heartbeats: idle, authenticated, applied, or to be appended
          sim,       \* the simulator: where it is, at which row, since when
          rowsLeft,  \* rows of its pass
          faked      \* history: simulated writes of a row since its agent or the reaper's last

rowVars == <<rows, usedRows, online, connected, agentSeen, source>>
tmVars == <<rowVars, points, clock, beats, sim, rowsLeft, faked>>

Idle == [at |-> "idle"]

TMInit ==
  /\ rows = Samples /\ usedRows = Samples /\ online = Samples /\ connected = {}
  /\ agentSeen = [s \in Server |-> -1]
  /\ source = [s \in Server |-> "none"]
  /\ points = [s \in Server |-> <<>>]
  /\ clock = 0
  /\ beats = [b \in Beat |-> Idle]
  /\ sim = Idle /\ rowsLeft = {}
  /\ faked = [s \in Server |-> 0]

TelemetryTick ==
  /\ clock < MaxTime /\ clock' = clock + 1
  /\ UNCHANGED <<rowVars, points, beats, sim, rowsLeft, faked>>

CreateServer(s) ==
  /\ s \notin usedRows
  /\ rows' = rows \cup {s} /\ usedRows' = usedRows \cup {s}
  /\ UNCHANGED <<online, connected, agentSeen, source, points, clock, beats, sim, rowsLeft, faked>>

(* Drop of the metrics store is not called.                                 *)
DeleteServer(s) ==
  /\ s \in rows
  /\ rows' = rows \ {s}
  /\ UNCHANGED <<usedRows, online, connected, agentSeen, source, points, clock, beats, sim, rowsLeft, faked>>

ReapStaleAgents ==
  LET stale == {s \in rows \cap connected : clock - agentSeen[s] > AgentTimeout}
  IN /\ stale # {}
     /\ online' = online \ stale /\ connected' = connected \ stale
     /\ faked' = [s \in Server |-> IF s \in stale THEN 0 ELSE faked[s]]
     /\ UNCHANGED <<rows, usedRows, agentSeen, source, points, clock, beats, sim, rowsLeft>>

(* Mutant of AppendPoint: the history is not cut.                           *)
AppendUncut(s, p) == points' = [points EXCEPT ![s] = Append(@, p)]

AppendPoint(s, p) ==
  LET all == Append(points[s], p)
  IN points' = [points EXCEPT ![s] = IF Len(all) > MaxPoints THEN Tail(all) ELSE all]

-----------------------------------------------------------------------------
(* A heartbeat that was authenticated, ...                                  *)
HeartbeatArrives(b, s) ==
  /\ beats[b] = Idle /\ s \in rows \ Samples
  /\ beats' = [beats EXCEPT ![b] = [at |-> "apply", srv |-> s]]
  /\ UNCHANGED <<rowVars, points, clock, sim, rowsLeft, faked>>

(* ... is applied to the row, ...                                           *)
ApplyHeartbeat(b) ==
  /\ beats[b].at = "apply"
  /\ LET s == beats[b].srv
     IN IF s \in rows
        THEN /\ source' = [source EXCEPT ![s] = "agent"]
             /\ connected' = connected \cup {s} /\ online' = online \cup {s}
             /\ agentSeen' = [agentSeen EXCEPT ![s] = clock]
             /\ faked' = [faked EXCEPT ![s] = 0]
             /\ beats' = [beats EXCEPT ![b].at = "read"]
        ELSE /\ beats' = [beats EXCEPT ![b] = Idle]
             /\ UNCHANGED <<source, connected, online, agentSeen, faked>>
  /\ UNCHANGED <<rows, usedRows, points, clock, sim, rowsLeft>>

(* ... whose metrics are read back, without the lock, if it is still there, *)
ReadBack(b) ==
  /\ beats[b].at = "read"
  /\ LET s == beats[b].srv
     IN beats' = [beats EXCEPT ![b] =
                    IF s \in rows THEN [at |-> "append", srv |-> s,
                                        point |-> <<agentSeen[s], source[s]>>]
                                  ELSE Idle]
  /\ UNCHANGED <<rowVars, points, clock, sim, rowsLeft, faked>>

(* ... and appended to the history.                                         *)
HeartbeatAppends(b) ==
  /\ beats[b].at = "append"
  /\ AppendPoint(beats[b].srv, beats[b].point)
  /\ beats' = [beats EXCEPT ![b] = Idle]
  /\ UNCHANGED <<rowVars, clock, sim, rowsLeft, faked>>

-----------------------------------------------------------------------------
(* tickMetrics: one time stamp for the whole pass, ...                      *)
BeginPass ==
  /\ sim.at = "idle" /\ rowsLeft' = rows
  /\ sim' = [at |-> "scan", now |-> clock]
  /\ UNCHANGED <<rowVars, points, clock, beats, faked>>

EndPass ==
  /\ sim.at = "scan" /\ rowsLeft = {}
  /\ sim' = Idle
  /\ UNCHANGED <<rowVars, points, clock, beats, rowsLeft, faked>>

(* ... servers that are offline are passed over, ...                        *)
CheckStatus(s) ==
  /\ sim.at = "scan" /\ s \in rowsLeft
  /\ rowsLeft' = rowsLeft \ {s}
  /\ sim' = IF s \in online THEN [at |-> "flag", now |-> sim.now, srv |-> s] ELSE sim
  /\ UNCHANGED <<rowVars, points, clock, beats, faked>>

(* Mutant of CheckAgent: no regard to agents.                               *)
CheckNoAgent ==
  /\ sim.at = "flag"
  /\ sim' = [sim EXCEPT !.at = "write"]
  /\ UNCHANGED <<rowVars, points, clock, beats, rowsLeft, faked>>

(* ... and so are those whose agent is connected, ...                       *)
CheckAgent ==
  /\ sim.at = "flag"
  /\ sim' = IF sim.srv \in connected THEN [at |-> "scan", now |-> sim.now]
                                     ELSE [sim EXCEPT !.at = "write"]
  /\ UNCHANGED <<rowVars, points, clock, beats, rowsLeft, faked>>

(* ... the others are written (also LastSeen, to the pass's time stamp) ... *)
Simulate ==
  /\ sim.at = "write"
  /\ source' = [source EXCEPT ![sim.srv] = "sim"]
  /\ faked' = [faked EXCEPT ![sim.srv] = @ + (IF agentSeen[sim.srv] = -1 THEN 0 ELSE 1)]
  /\ sim' = [sim EXCEPT !.at = "append"]
  /\ UNCHANGED <<rows, usedRows, online, connected, agentSeen, points, clock, beats, rowsLeft>>

(* ... and appended.                                                        *)
SimulatorAppends ==
  /\ sim.at = "append"
  /\ AppendPoint(sim.srv, <<sim.now, source[sim.srv]>>)
  /\ sim' = [at |-> "scan", now |-> sim.now]
  /\ UNCHANGED <<rowVars, clock, beats, rowsLeft, faked>>

TMNext ==
  \/ TelemetryTick \/ ReapStaleAgents
  \/ \E s \in Server : CreateServer(s) \/ DeleteServer(s) \/ CheckStatus(s)
  \/ \E b \in Beat : \/ \E s \in Server : HeartbeatArrives(b, s)
                     \/ ApplyHeartbeat(b) \/ ReadBack(b) \/ HeartbeatAppends(b)
  \/ BeginPass \/ EndPass \/ CheckAgent \/ Simulate \/ SimulatorAppends

TMSpec == TMInit /\ [][TMNext]_tmVars

-----------------------------------------------------------------------------
Source == {"agent", "sim", "none"}

TMTypeOK ==
  /\ rows \subseteq usedRows /\ usedRows \subseteq Server
  /\ online \subseteq usedRows /\ connected \subseteq usedRows
  /\ agentSeen \in [Server -> -1..MaxTime]
  /\ source \in [Server -> Source]
  /\ \A s \in Server : /\ points[s] \in Seq((-1..MaxTime) \X Source)
                       /\ Len(points[s]) <= MaxPoints
  /\ clock \in 0..MaxTime
  /\ rowsLeft \subseteq usedRows
  /\ \A s \in Server : faked[s] \in Nat

(* "Real agents report their own metrics; don't overwrite them."            *)
(* (simulator.go:57) holds up to one write between any two changes of a row *)
(* by its agent and the reaper: the simulator only slips in when the reaper *)
(* acts between its two looks.                                              *)
SimulatedOnce == \A s \in Server : faked[s] <= 1

(* The comment as it stands.                                                *)
AgentsNotOverwritten == \A s \in Server : faked[s] = 0
=============================================================================
