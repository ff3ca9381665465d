-------------------------- MODULE AgentLoopProofs --------------------------
(* The agents that keep their rows fresh (AgentLoop), for every set of      *)
(* servers and all periods.                                                 *)
EXTENDS AgentLoop, ServerStoreProofs

USE SeedsAssumption, ClockAssumption, LoopAssumption

(* The comment in monitor/agent_reaper.go made precise: what the timeout    *)
(* must cover is the agent's slowest round, whichever of the tasks and the  *)
(* ticker takes longer, plus the time lost to failing heartbeats.           *)
Tolerant == /\ MaxRun + MaxDelay <= AgentTimeout
            /\ Interval + MaxDelay <= AgentTimeout

(* How long the agent of s has been silent, by what it is doing.  While it  *)
(* runs tasks either the ticker has fired since its heartbeat, and the next *)
(* one is sent when they are done, or it will within the interval.          *)
InRound(s) ==
  /\ phase[s] \in {"wait", "posting", "run"}
  /\ phase[s] = "wait" =>
       \/ silent[s] + next[s] <= MaxRun + delay[s]
       \/ silent[s] + next[s] <= Interval + delay[s]
  /\ phase[s] = "posting" =>
       silent[s] <= MaxRun + delay[s] \/ silent[s] <= Interval + delay[s]
  /\ phase[s] = "run" =>
       /\ silent[s] + left[s] <= MaxRun
       /\ next[s] = 0 \/ silent[s] + next[s] <= Interval

(* HealthyStaysOnline is not inductive: an agent stays connected because    *)
(* it is heard of in time.                                                  *)
HeardInTime == \A s \in joined \cap bound : s \in connected /\ s \in online /\ InRound(s)

Known == joined \subseteq born /\ authed \subseteq born \X Call

ALInv == ALTypeOK /\ Known /\ HeardInTime

LEMMA ALInitInv == ALInit => ALInv
  BY SSInitInv DEF ALInit, SSInit, ALInv, ALTypeOK, Known, HeardInTime, LoopPhase, SSInv

(* The panel's steps that are not the loop's: they leave the loop alone and *)
(* the rows of healthy agents online.                                       *)
LEMMA PanelKeeps == ASSUME Tolerant, ALInv, PanelStep PROVE ALInv'
<1> USE DEF ALInv
<1>1. CASE \E s \in Server : CreateServer(s)
  <2> PICK s \in Server : CreateServer(s)
    BY <1>1
  <2>1. SSTypeOK'
    BY DEF ALTypeOK, SSTypeOK, CreateServer
  <2>2. ALTypeOK' /\ Known'
    BY <2>1 DEF ALTypeOK, Known, CreateServer, PanelStep, loopVars
  <2>3. HeardInTime'
    BY DEF HeardInTime, InRound, Known, CreateServer, PanelStep, loopVars
  <2>4. QED
    BY <2>2, <2>3
<1>2. CASE \E s \in Server : DeleteServer(s)
  <2> PICK s \in Server : DeleteServer(s)
    BY <1>2
  <2>1. SSTypeOK'
    BY DEF ALTypeOK, SSTypeOK, DeleteServer, Forever
  <2>2. ALTypeOK' /\ Known'
    BY <2>1 DEF ALTypeOK, Known, DeleteServer, PanelStep, loopVars
  <2>3. HeardInTime'
    BY DEF HeardInTime, InRound, ALTypeOK, SSTypeOK, DeleteServer, PanelStep, loopVars
  <2>4. QED
    BY <2>2, <2>3
<1>3. CASE \E s \in Server : phase[s] = "down" /\ (RegisterAgent(s) \/ ApplyHeartbeat(s))
  <2> PICK s \in Server : phase[s] = "down" /\ (RegisterAgent(s) \/ ApplyHeartbeat(s))
    BY <1>3
  <2>1. MarkSeen(s) /\ authed' \subseteq authed /\ UNCHANGED <<bound, born, reapIn, loopVars>>
    BY DEF RegisterAgent, ApplyHeartbeat, PanelStep
  <2>2. ALTypeOK' /\ Known'
    BY <2>1 DEF ALTypeOK, SSTypeOK, MarkSeen, Forever, Known, loopVars
  <2>3. s \notin joined \cap bound
    BY DEF HeardInTime, InRound
  <2>4. HeardInTime'
    BY <2>1, <2>3 DEF HeardInTime, InRound, MarkSeen, ALTypeOK, SSTypeOK, loopVars
  <2>5. QED
    BY <2>2, <2>4
<1>4. CASE ReapStaleAgents
  <2>1. ALTypeOK' /\ Known'
    BY <1>4 DEF ALTypeOK, SSTypeOK, ReapStaleAgents, Known, PanelStep, loopVars
  <2>2. \A s \in joined \cap bound : ~ Stale(s)
    BY DEF HeardInTime, InRound, Tolerant, Stale, ALTypeOK, SSTypeOK, Forever, LoopPhase
  <2>3. HeardInTime'
    BY <1>4, <2>2 DEF HeardInTime, InRound, ReapStaleAgents, PanelStep, loopVars
  <2>4. QED
    BY <2>1, <2>3
<1>5. QED
  BY <1>1, <1>2, <1>3, <1>4 DEF PanelStep

LEMMA StartStops == ASSUME ALInv, NEW s \in Server, StartAgent(s) \/ Crash(s) PROVE ALInv'
<1> USE DEF ALInv, StartAgent, Crash
<1>1. ALTypeOK' /\ Known'
  BY DEF ALTypeOK, SSTypeOK, ssVars, LoopPhase, Known
<1>2. CASE StartAgent(s)
  <2>1. s \notin joined \cap bound
    BY <1>2 DEF HeardInTime, InRound
  <2>2. HeardInTime'
    BY <1>2, <2>1 DEF HeardInTime, InRound, ALTypeOK, ssVars
  <2>3. QED
    BY <1>1, <2>2
<1>3. CASE Crash(s)
  <2>1. HeardInTime'
    BY <1>3 DEF HeardInTime, InRound, ALTypeOK, ssVars
  <2>2. QED
    BY <1>1, <2>1
<1>4. QED
  BY <1>2, <1>3

LEMMA RegisterKeeps ==
  ASSUME ALInv, NEW s \in Server, RegisterSent(s) \/ RegisterFails(s) \/ RegisterDone(s)
  PROVE  ALInv'
<1> USE DEF ALInv
<1>1. s \notin joined \cap bound
  BY DEF RegisterSent, RegisterFails, RegisterDone, HeardInTime, InRound
<1>2. CASE RegisterSent(s)
  BY <1>2 DEF RegisterSent, AgentAuth, ALTypeOK, SSTypeOK, Known, HeardInTime, InRound, loopVars, Call
<1>3. CASE RegisterFails(s)
  <2>1. ALTypeOK' /\ Known'
    BY <1>3 DEF RegisterFails, ALTypeOK, SSTypeOK, Known, ssVars, LoopPhase
  <2>2. HeardInTime'
    BY <1>1, <1>3 DEF RegisterFails, HeardInTime, InRound, ALTypeOK, ssVars
  <2>3. QED
    BY <2>1, <2>2
<1>4. CASE RegisterDone(s)
  <2>1. MarkSeen(s) /\ authed' \subseteq authed /\ UNCHANGED <<bound, born, reapIn>>
    BY <1>4 DEF RegisterDone, RegisterAgent
  <2>2. <<s, "register">> \in authed
    BY <1>4 DEF RegisterDone, RegisterAgent
  <2>3. SSTypeOK'
    BY <2>1 DEF ALTypeOK, SSTypeOK, MarkSeen, Forever
  <2>4. ALTypeOK' /\ Known'
    BY <1>4, <2>1, <2>2, <2>3 DEF RegisterDone, ALTypeOK, Known, LoopPhase
  <2>5. HeardInTime'
    <3> SUFFICES ASSUME NEW z \in joined' \cap bound
                 PROVE  z \in connected' /\ z \in online' /\ InRound(z)'
      BY <2>1 DEF HeardInTime
    <3>1. CASE z = s
      BY <1>4, <2>1, <3>1 DEF RegisterDone, MarkSeen, InRound, ALTypeOK, SSTypeOK
    <3>2. CASE z # s
      BY <1>4, <2>1, <3>2 DEF RegisterDone, MarkSeen, HeardInTime, InRound, ALTypeOK, SSTypeOK
    <3>3. QED
      BY <3>1, <3>2
  <2>6. QED
    BY <2>4, <2>5
<1>5. QED
  BY <1>2, <1>3, <1>4

LEMMA HeartbeatKeeps ==
  ASSUME ALInv, NEW s \in Server, HeartbeatSent(s) \/ HeartbeatFails(s) \/ HeartbeatDone(s)
  PROVE  ALInv'
<1> USE DEF ALInv
<1>1. CASE HeartbeatSent(s)
  <2>1. ALTypeOK' /\ Known'
    BY <1>1 DEF HeartbeatSent, AgentAuth, ALTypeOK, SSTypeOK, Known, LoopPhase, Call
  <2>2. HeardInTime'
    BY <1>1 DEF HeartbeatSent, AgentAuth, HeardInTime, InRound, ALTypeOK, SSTypeOK
  <2>3. QED
    BY <2>1, <2>2
<1>2. CASE HeartbeatFails(s)
  <2>1. ALTypeOK' /\ Known'
    BY <1>2 DEF HeartbeatFails, ALTypeOK, SSTypeOK, Known, ssVars
  <2>2. HeardInTime'
    <3> SUFFICES ASSUME NEW z \in joined' \cap bound
                 PROVE  z \in connected /\ z \in online /\ InRound(z)'
      BY <1>2 DEF HeardInTime, HeartbeatFails, ssVars
    <3>1. z \in joined \cap bound /\ z \in connected /\ z \in online /\ InRound(z)
      BY <1>2 DEF HeartbeatFails, HeardInTime
    <3>2. CASE z = s
      BY <1>2, <3>1, <3>2 DEF HeartbeatFails, InRound, ALTypeOK, SSTypeOK, Forever, ssVars
    <3>3. CASE z # s
      BY <1>2, <3>1, <3>3 DEF HeartbeatFails, InRound, ALTypeOK, SSTypeOK, ssVars
    <3>4. QED
      BY <3>2, <3>3
  <2>3. QED
    BY <2>1, <2>2
<1>3. CASE HeartbeatDone(s)
  <2>1. MarkSeen(s) /\ authed' \subseteq authed /\ UNCHANGED <<bound, born, reapIn>>
    BY <1>3 DEF HeartbeatDone, ApplyHeartbeat
  <2>2. <<s, "heartbeat">> \in authed
    BY <1>3 DEF HeartbeatDone, ApplyHeartbeat
  <2>3. SSTypeOK'
    BY <2>1 DEF ALTypeOK, SSTypeOK, MarkSeen, Forever
  <2>4. PICK d \in 0..MaxRun : left' = [left EXCEPT ![s] = d]
    BY <1>3 DEF HeartbeatDone
  <2>5. ALTypeOK' /\ Known'
    BY <1>3, <2>1, <2>2, <2>3, <2>4 DEF HeartbeatDone, ALTypeOK, Known, LoopPhase
  <2>6. HeardInTime'
    <3> SUFFICES ASSUME NEW z \in joined' \cap bound
                 PROVE  z \in connected' /\ z \in online' /\ InRound(z)'
      BY <2>1 DEF HeardInTime
    <3>1. CASE z = s
      <4>1. phase'[s] = "run" /\ silent'[s] = 0 /\ left'[s] = d /\ next'[s] = next[s]
        BY <1>3, <2>1, <2>4, <3>1 DEF HeartbeatDone, MarkSeen, ALTypeOK, SSTypeOK
      <4>2. s \in connected' /\ s \in online'
        BY <2>1, <3>1 DEF MarkSeen, ALTypeOK, SSTypeOK
      <4>3. QED
        BY <3>1, <4>1, <4>2 DEF InRound, ALTypeOK
    <3>2. CASE z # s
      BY <1>3, <2>1, <2>4, <3>2 DEF HeartbeatDone, MarkSeen, HeardInTime, InRound, ALTypeOK, SSTypeOK
    <3>3. QED
      BY <3>1, <3>2
  <2>7. QED
    BY <2>5, <2>6
<1>4. QED
  BY <1>1, <1>2, <1>3

LEMMA DoneKeeps == ASSUME ALInv, NEW s \in Server, TasksDone(s) PROVE ALInv'
<1> USE DEF ALInv, TasksDone
<1>1. ALTypeOK' /\ Known'
  BY DEF ALTypeOK, SSTypeOK, Known, ssVars, LoopPhase
<1>2. HeardInTime'
  <2> SUFFICES ASSUME NEW z \in joined \cap bound
               PROVE  z \in connected /\ z \in online /\ InRound(z)'
    BY DEF HeardInTime, ssVars
  <2>1. z \in connected /\ z \in online /\ InRound(z)
    BY DEF HeardInTime
  <2>2. CASE z = s
    BY <2>1, <2>2 DEF InRound, ALTypeOK, SSTypeOK, Forever, ssVars
  <2>3. CASE z # s
    BY <2>1, <2>3 DEF InRound, ALTypeOK, SSTypeOK, ssVars
  <2>4. QED
    BY <2>2, <2>3
<1>3. QED
  BY <1>1, <1>2

(* A unit of time passes only while the ticker or the tasks of every agent  *)
(* still have one to go.                                                    *)
LEMMA PassKeeps == ASSUME ALInv, Pass PROVE ALInv'
<1> USE DEF ALInv, Pass
<1>1. SSTypeOK'
  BY DEF ALTypeOK, SSTypeOK, Tick, Forever
<1>2. ALTypeOK' /\ Known'
  BY <1>1 DEF ALTypeOK, Known, Tick, Lower
<1>3. HeardInTime'
  <2> SUFFICES ASSUME NEW z \in joined \cap bound
               PROVE  z \in connected /\ z \in online /\ InRound(z)'
    BY DEF HeardInTime, Tick
  <2>1. z \in connected /\ z \in online /\ InRound(z) /\ z \in Server
    BY DEF HeardInTime, ALTypeOK, SSTypeOK
  <2>2. /\ silent[z] \in Nat /\ silent'[z] \in Nat /\ silent'[z] <= silent[z] + 1
        /\ next[z] \in Nat /\ left[z] \in Nat /\ delay[z] \in Nat
        /\ next'[z] = Lower(next[z]) /\ left'[z] = Lower(left[z])
        /\ phase' = phase /\ delay' = delay
    BY <2>1 DEF ALTypeOK, SSTypeOK, Forever, Tick
  <2>3. ~ Busy(z)
    BY <2>1
  <2>4. QED
    BY <2>1, <2>2, <2>3 DEF InRound, Busy, Lower
<1>4. QED
  BY <1>2, <1>3

LEMMA ALNextInv == Tolerant /\ ALInv /\ [ALNext]_alVars => ALInv'
<1> SUFFICES ASSUME Tolerant, ALInv, [ALNext]_alVars PROVE ALInv'
  OBVIOUS
<1>1. CASE PanelStep
  BY <1>1, PanelKeeps
<1>2. ASSUME NEW s \in Server, StartAgent(s) \/ Crash(s) PROVE ALInv'
  BY <1>2, StartStops
<1>3. ASSUME NEW s \in Server, LoopStep(s) PROVE ALInv'
  BY <1>3, RegisterKeeps, HeartbeatKeeps, DoneKeeps DEF LoopStep
<1>4. CASE Pass
  BY <1>4, PassKeeps
<1>5. CASE UNCHANGED alVars
  BY <1>5 DEF ALInv, ALTypeOK, SSTypeOK, Known, HeardInTime, InRound, alVars, ssVars, loopVars
<1>6. QED
  BY <1>1, <1>2, <1>3, <1>4, <1>5 DEF ALNext

(* If the timeout covers the agent's slowest round and the failures the     *)
(* network is allowed, the reaper never takes a live agent's server         *)
(* offline, whatever the other servers, agents and admins do.               *)
THEOREM LiveAgentStaysOnline == ASSUME Tolerant PROVE ALSpec => []HealthyStaysOnline
<1>1. ALInv /\ [ALNext]_alVars => ALInv'
  BY ALNextInv
<1>2. ALInv => HealthyStaysOnline
  BY DEF ALInv, HeardInTime, HealthyStaysOnline
<1>3. QED
  BY ALInitInv, <1>1, <1>2, PTL DEF ALSpec
=============================================================================
