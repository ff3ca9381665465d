----------------------------- MODULE AgentLoop -----------------------------
(* The agents of the monitored servers in time: main's loop in              *)
(* agent/main.go posts a heartbeat at every tick of its ticker and runs the *)
(* tasks it is given before it looks at the ticker again, so the work       *)
(* delays the next heartbeat.  On the panel's side the table of servers and *)
(* the reaper are ServerStore's.                                            *)
(*                                                                          *)
(* A unit of time is long compared with a round trip; time does not pass    *)
(* while an agent has something to do at once.                              *)
EXTENDS ServerStore

CONSTANTS Interval,   \* the agent's heartbeat interval (3s unless overridden)
          MaxRun,     \* bound: the longest time the tasks of a heartbeat take
          MaxDelay    \* bound: how long heartbeats in a row may fail

ASSUME LoopAssumption ==
  Interval \in Nat \ {0} /\ MaxRun \in Nat /\ MaxDelay \in Nat

VARIABLES phase,    \* what the agent of each server is doing
          next,     \* time to the ticker's next tick; 0 also if one is buffered
          left,     \* time the tasks at hand still take
          delay,    \* time lost to heartbeats that failed since the last one
          joined    \* agents that got through since they were started

loopVars == <<phase, next, left, delay, joined>>
alVars == <<ssVars, loopVars>>

LoopPhase == {"down", "register", "posting", "wait", "run"}

ALInit ==
  /\ SSInit
  /\ phase = [s \in Server |-> "down"]
  /\ next = [s \in Server |-> 0]
  /\ left = [s \in Server |-> 0]
  /\ delay = [s \in Server |-> 0]
  /\ joined = {}

(* The panel's own steps; a handler goes on although its agent died.        *)
PanelStep ==
  /\ \/ \E s \in Server : CreateServer(s)
     \/ \E s \in Server : DeleteServer(s)
     \/ \E s \in Server : phase[s] = "down" /\ (RegisterAgent(s) \/ ApplyHeartbeat(s))
     \/ ReapStaleAgents
  /\ UNCHANGED loopVars

(* The install script is run on a machine, or systemd restarts the agent.   *)
StartAgent(s) ==
  /\ phase[s] = "down" /\ s \in born \ Seeds
  /\ \A call \in Call : <<s, call>> \notin authed
  /\ phase' = [phase EXCEPT ![s] = "register"]
  /\ UNCHANGED <<ssVars, next, left, delay, joined>>

Crash(s) ==
  /\ phase[s] # "down"
  /\ phase' = [phase EXCEPT ![s] = "down"]
  /\ delay' = [delay EXCEPT ![s] = 0]
  /\ joined' = joined \ {s}
  /\ UNCHANGED <<ssVars, next, left>>

(* register() is tried once; its failure is logged only.  Then the ticker   *)
(* is created.                                                              *)
RegisterSent(s) ==
  /\ phase[s] = "register" /\ <<s, "register">> \notin authed
  /\ AgentAuth(s, "register")
  /\ UNCHANGED loopVars

RegisterFails(s) ==
  /\ phase[s] = "register" /\ <<s, "register">> \notin authed
  /\ phase' = [phase EXCEPT ![s] = "wait"]
  /\ next' = [next EXCEPT ![s] = Interval]
  /\ UNCHANGED <<ssVars, left, delay, joined>>

RegisterDone(s) ==
  /\ phase[s] = "register"
  /\ RegisterAgent(s)
  /\ phase' = [phase EXCEPT ![s] = "wait"]
  /\ next' = [next EXCEPT ![s] = Interval]
  /\ joined' = joined \cup {s}
  /\ UNCHANGED <<left, delay>>

(* A tick: the heartbeat is posted ...                                      *)
HeartbeatSent(s) ==
  /\ phase[s] = "wait" /\ next[s] = 0
  /\ AgentAuth(s, "heartbeat")
  /\ phase' = [phase EXCEPT ![s] = "posting"]
  /\ next' = [next EXCEPT ![s] = Interval]
  /\ UNCHANGED <<left, delay, joined>>

(* ... and fails (401, or the network), which the loop answers with         *)
(* `continue' ...                                                           *)
HeartbeatFails(s) ==
  /\ phase[s] = "wait" /\ next[s] = 0
  /\ next' = [next EXCEPT ![s] = Interval]
  /\ IF s \in bound
     THEN /\ delay[s] + Interval <= MaxDelay
          /\ delay' = [delay EXCEPT ![s] = @ + Interval]
          /\ UNCHANGED joined
     ELSE /\ joined' = joined \ {s}
          /\ UNCHANGED delay
  /\ UNCHANGED <<ssVars, phase, left>>

(* ... or is answered with tasks that will take some time ...               *)
HeartbeatDone(s) ==
  /\ phase[s] = "posting"
  /\ ApplyHeartbeat(s)
  /\ phase' = [phase EXCEPT ![s] = "run"]
  /\ \E d \in 0..MaxRun : left' = [left EXCEPT ![s] = d]
  /\ delay' = [delay EXCEPT ![s] = 0]
  /\ joined' = joined \cup {s}
  /\ UNCHANGED next

(* ... after which the loop turns to the ticker again.                      *)
TasksDone(s) ==
  /\ phase[s] = "run" /\ left[s] = 0
  /\ phase' = [phase EXCEPT ![s] = "wait"]
  /\ UNCHANGED <<ssVars, next, left, delay, joined>>

Busy(s) ==
  \/ phase[s] \in {"register", "posting"}
  \/ phase[s] = "wait" /\ next[s] = 0
  \/ phase[s] = "run" /\ left[s] = 0

Lower(n) == IF n > 0 THEN n - 1 ELSE 0

Pass ==
  /\ \A s \in Server : ~ Busy(s)
  /\ Tick
  /\ next' = [s \in Server |-> Lower(next[s])]
  /\ left' = [s \in Server |-> Lower(left[s])]
  /\ UNCHANGED <<phase, delay, joined>>

LoopStep(s) ==
  \/ RegisterSent(s) \/ RegisterFails(s) \/ RegisterDone(s)
  \/ HeartbeatSent(s) \/ HeartbeatFails(s) \/ HeartbeatDone(s) \/ TasksDone(s)

ALNext ==
  \/ PanelStep
  \/ \E s \in Server : StartAgent(s) \/ Crash(s) \/ LoopStep(s)
  \/ Pass

ALSpec == ALInit /\ [][ALNext]_alVars

(* Time goes on whenever it can, however often agents crash and start; the  *)
(* reaper and the agents' loops run.  That heartbeats do not fail for ever  *)
(* is in MaxDelay.                                                          *)
ALFairSpec == /\ ALSpec
              /\ SF_alVars(Pass)
              /\ WF_alVars(ReapStaleAgents /\ UNCHANGED loopVars)
              /\ \A s \in Server : WF_alVars(LoopStep(s))

-----------------------------------------------------------------------------
ALTypeOK ==
  /\ SSTypeOK
  /\ phase \in [Server -> LoopPhase]
  /\ next \in [Server -> 0..Interval]
  /\ left \in [Server -> 0..MaxRun]
  /\ delay \in [Server -> 0..MaxDelay]
  /\ joined \subseteq Server

(* "Agents heartbeat every ~3s, so 20s tolerates transient hiccups"         *)
(* (monitor/agent_reaper.go:10): the reaper never marks the server of an    *)
(* agent offline that is up, got through and keeps heartbeating.            *)
HealthyStaysOnline == \A s \in joined \cap bound : s \in connected /\ s \in online

(* An agent that is up and whose server keeps its row is shown online again *)
(* sooner or later, also after it was reaped while it was busy.             *)
UpComesOnline ==
  \A s \in Server : (phase[s] = "wait" /\ s \in bound)
                      ~> (s \in online \/ s \notin bound \/ phase[s] = "down")

(* A server whose agent stays dead is shown offline in the end.             *)
DownGoesOffline ==
  \A s \in Server : (phase[s] = "down" /\ s \in connected)
                      ~> (s \notin connected \/ phase[s] # "down")
=============================================================================
