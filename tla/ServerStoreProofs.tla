------------------------- MODULE ServerStoreProofs -------------------------
(* Theorems about the server table (ServerStore), for every set of servers, *)
(* every timeout and every period of the reaper.                            *)
EXTENDS ServerStore, TLAPS

USE SeedsAssumption, ClockAssumption

(* StaleBounded is not inductive: it does not say that the reaper is due in *)
(* time.  The silence of a connected row and the time until the reaper runs *)
(* add up to no more than the two constants.                                *)
ReaperInTime ==
  \A s \in bound \cap connected : silent[s] + reapIn <= AgentTimeout + ReapPeriod

SSInv == SSTypeOK /\ AgentRowConsistent /\ ReaperInTime

LEMMA SSInitInv == SSInit => SSInv
  BY DEF SSInit, SSInv, SSTypeOK, AgentRowConsistent, ReaperInTime, Forever

(* What a request of an agent does to the rows keeps them sound, for any    *)
(* row and whether it is still there or not.                                *)
LEMMA MarkSeenKeeps ==
  ASSUME SSInv, NEW s \in Server, MarkSeen(s), authed' \subseteq authed,
         UNCHANGED <<bound, born, reapIn>>
  PROVE  SSInv'
<1> USE DEF SSInv
<1>1. SSTypeOK'
  BY DEF SSTypeOK, MarkSeen, Forever
<1>2. AgentRowConsistent'
  BY DEF AgentRowConsistent, SSTypeOK, MarkSeen
<1>3. ReaperInTime'
  <2> SUFFICES ASSUME NEW z \in bound \cap connected'
               PROVE  silent'[z] + reapIn <= AgentTimeout + ReapPeriod
    BY DEF ReaperInTime
  <2>1. CASE z = s
    BY <2>1 DEF MarkSeen, SSTypeOK
  <2>2. CASE z # s
    BY <2>2 DEF MarkSeen, SSTypeOK, ReaperInTime
  <2>3. QED
    BY <2>1, <2>2
<1>4. QED
  BY <1>1, <1>2, <1>3

LEMMA ReapKeeps == ASSUME SSInv, ReapStaleAgents PROVE SSInv'
<1> USE DEF SSInv, ReapStaleAgents
<1>1. SSTypeOK'
  BY DEF SSTypeOK
<1>2. AgentRowConsistent'
  BY DEF AgentRowConsistent
<1>3. ReaperInTime'
  <2> SUFFICES ASSUME NEW z \in bound \cap connected'
               PROVE  silent[z] + ReapPeriod <= AgentTimeout + ReapPeriod
    BY DEF ReaperInTime
  <2>1. ~ Stale(z) /\ z \in connected
    OBVIOUS
  <2>2. silent[z] \in Nat /\ silent[z] <= AgentTimeout
    BY <2>1 DEF Stale, SSTypeOK, Forever
  <2>3. QED
    BY <2>2
<1>4. QED
  BY <1>1, <1>2, <1>3

LEMMA TickKeeps == ASSUME SSInv, Tick PROVE SSInv'
<1> USE DEF SSInv, Tick
<1>1. SSTypeOK'
  BY DEF SSTypeOK, Forever
<1>2. AgentRowConsistent'
  BY DEF AgentRowConsistent
<1>3. ReaperInTime'
  <2> SUFFICES ASSUME NEW z \in bound \cap connected
               PROVE  silent'[z] + (reapIn - 1) <= AgentTimeout + ReapPeriod
    BY DEF ReaperInTime
  <2>1. z \in Server /\ silent[z] \in Nat /\ silent'[z] <= silent[z] + 1 /\ silent'[z] \in Nat
    BY DEF SSTypeOK, Forever
  <2>2. silent[z] + reapIn <= AgentTimeout + ReapPeriod /\ reapIn \in Nat
    BY DEF ReaperInTime, SSTypeOK
  <2>3. QED
    BY <2>1, <2>2
<1>4. QED
  BY <1>1, <1>2, <1>3

LEMMA CreateKeeps == ASSUME SSInv, NEW s \in Server, CreateServer(s) PROVE SSInv'
  BY DEF SSInv, CreateServer, SSTypeOK, AgentRowConsistent, ReaperInTime, Forever

LEMMA DeleteKeeps == ASSUME SSInv, NEW s \in Server, DeleteServer(s) PROVE SSInv'
<1> USE DEF SSInv, DeleteServer
<1>1. SSTypeOK'
  BY DEF SSTypeOK, Forever
<1>2. AgentRowConsistent' /\ ReaperInTime'
  BY DEF AgentRowConsistent, ReaperInTime, SSTypeOK
<1>3. QED
  BY <1>1, <1>2

LEMMA AuthKeeps ==
  ASSUME SSInv, NEW s \in Server, NEW call \in Call, AgentAuth(s, call) PROVE SSInv'
  BY DEF SSInv, AgentAuth, SSTypeOK, AgentRowConsistent, ReaperInTime

LEMMA ReplaceKeeps ==
  ASSUME SSInv, NEW rows \in SUBSET Server, NEW isConnected \in SUBSET rows,
         NEW isOnline \in SUBSET rows, NEW age \in {0, Forever},
         ReplaceAll(rows, isConnected, isOnline, age)
  PROVE  SSInv'
  BY DEF SSInv, ReplaceAll, SSTypeOK, AgentRowConsistent, ReaperInTime, Forever

LEMMA SSNextInv == SSInv /\ [SSNext]_ssVars => SSInv'
<1> SUFFICES ASSUME SSInv, [SSNext]_ssVars PROVE SSInv'
  OBVIOUS
<1>1. CASE \E s \in Server : CreateServer(s) \/ DeleteServer(s)
  BY <1>1, CreateKeeps, DeleteKeeps
<1>2. CASE \E s \in Server, call \in Call : AgentAuth(s, call)
  BY <1>2, AuthKeeps
<1>3. CASE \E s \in Server : RegisterAgent(s) \/ ApplyHeartbeat(s)
  BY <1>3, MarkSeenKeeps DEF RegisterAgent, ApplyHeartbeat
<1>4. CASE ReapStaleAgents
  BY <1>4, ReapKeeps
<1>5. CASE \E rows \in SUBSET Server : \E isConnected, isOnline \in SUBSET rows, age \in {0, Forever} :
             ReplaceAll(rows, isConnected, isOnline, age)
  BY <1>5, ReplaceKeeps
<1>6. CASE Tick
  BY <1>6, TickKeeps
<1>7. CASE UNCHANGED ssVars
  BY <1>7 DEF SSInv, SSTypeOK, AgentRowConsistent, ReaperInTime, ssVars
<1>8. QED
  BY <1>1, <1>2, <1>3, <1>4, <1>5, <1>6, <1>7 DEF SSNext

LEMMA SSInvariant == SSSpec => []SSInv
  BY SSInitInv, SSNextInv, PTL DEF SSSpec

(* Every reachable table is well typed: the flags and secrets are those of  *)
(* stored rows.                                                             *)
THEOREM SSTypeCorrect == SSSpec => []SSTypeOK
  BY SSInvariant, PTL DEF SSInv

(* The flags of a row an agent can speak for agree: Status is "online"      *)
(* exactly while AgentConnected is set.                                     *)
THEOREM RowsConsistent == SSSpec => []AgentRowConsistent
  BY SSInvariant, PTL DEF SSInv

(* The reaper takes a silent agent's row offline within the timeout and one *)
(* period, for all values of both.                                          *)
THEOREM ReaperBound == SSSpec => []StaleBounded
<1>1. SSInv => StaleBounded
  BY DEF SSInv, SSTypeOK, ReaperInTime, StaleBounded
<1>2. QED
  BY <1>1, SSInvariant, PTL

(* An authenticated request applied after DeleteServer brings no row back.  *)
THEOREM DeletedStayDeleted == SSSpec => NoResurrection
<1>1. ASSUME [SSNext]_ssVars PROVE [NoResurrectionStep]_ssVars
  BY <1>1 DEF SSNext, NoResurrectionStep, CreateServer, DeleteServer, AgentAuth, RegisterAgent,
       ApplyHeartbeat, MarkSeen, ReapStaleAgents, ReplaceAll, Tick, ssVars
<1>2. QED
  BY <1>1, PTL DEF SSSpec, NoResurrection
=============================================================================
