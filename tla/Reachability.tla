---------------------------- MODULE Reachability ----------------------------
(* Probes and the matrix of what they reach: backend/internal/database/     *)
(* probe_store.go, the simulator's tickReachability (monitor/simulator.go)  *)
(* and handlers/probe.go.                                                   *)
(*                                                                          *)
(* The simulator goes over the servers, and for each of them over the       *)
(* probes it finds then, and records one result after the other, each under *)
(* the store's lock, while admins create and delete probes and servers.     *)
(* The handlers' reads and a restored backup are left out.                  *)
EXTENDS Integers, FiniteSets

CONSTANTS Server, Probe, \* ids; each is used once
          Seeds          \* the probes InitProbeStore puts in

ASSUME SeedsAssumption == Seeds \subseteq Probe

VARIABLES servers, probes,         \* the stored ones
          usedServers, usedProbes, \* those that were ever stored
          reach,    \* the matrix: "none", "yes" or "no" by server and probe
          stage,    \* the simulator: "idle", "servers" or "probes"
          todo,     \* servers of its pass
          cur,      \* the server it is at
          left      \* probes it has to record for it

storeVars == <<servers, probes, usedServers, usedProbes, reach>>
simVars == <<stage, todo, cur, left>>
reVars == <<storeVars, simVars>>

Nobody == <<>>
Known(s) == {p \in Probe : reach[s][p] # "none"}

REInit ==
  /\ servers = {} /\ probes = Seeds
  /\ usedServers = {} /\ usedProbes = Seeds
  /\ reach = [s \in Server |-> [p \in Probe |-> "none"]]
  /\ stage = "idle" /\ todo = {} /\ cur = Nobody /\ left = {}

CreateServer(s) ==
  /\ s \notin usedServers
  /\ servers' = servers \cup {s} /\ usedServers' = usedServers \cup {s}
  /\ UNCHANGED <<probes, usedProbes, reach, simVars>>

(* The matrix keeps the row of a deleted server.                            *)
DeleteServer(s) ==
  /\ s \in servers /\ servers' = servers \ {s}
  /\ UNCHANGED <<probes, usedServers, usedProbes, reach, simVars>>

CreateProbe(p) ==
  /\ p \notin usedProbes
  /\ probes' = probes \cup {p} /\ usedProbes' = usedProbes \cup {p}
  /\ UNCHANGED <<servers, usedServers, reach, simVars>>

DeleteProbe(p) ==
  /\ p \in probes /\ probes' = probes \ {p}
  /\ reach' = [s \in Server |-> [reach[s] EXCEPT ![p] = "none"]]
  /\ UNCHANGED <<servers, usedServers, usedProbes, simVars>>

-----------------------------------------------------------------------------
BeginPass ==
  /\ stage = "idle" /\ stage' = "servers" /\ todo' = servers
  /\ UNCHANGED <<storeVars, cur, left>>

EndPass ==
  /\ stage = "servers" /\ todo = {} /\ stage' = "idle"
  /\ UNCHANGED <<storeVars, todo, cur, left>>

NextServer(s) ==
  /\ stage = "servers" /\ s \in todo
  /\ stage' = "probes" /\ todo' = todo \ {s} /\ cur' = s /\ left' = probes
  /\ UNCHANGED <<storeVars>>

(* RecordReach looks for neither the server nor the probe.                  *)
RecordReach(s, p, r) == reach' = [reach EXCEPT ![s][p] = r]

RecordProbe(p) ==
  /\ stage = "probes" /\ p \in left /\ left' = left \ {p}
  /\ \E r \in {"yes", "no"} : RecordReach(cur, p, r)
  /\ UNCHANGED <<servers, probes, usedServers, usedProbes, stage, todo, cur>>

(* Mutant of ServerDone: the loop may be left early.                        *)
ServerDoneEarly ==
  /\ stage = "probes"
  /\ stage' = "servers" /\ cur' = Nobody
  /\ UNCHANGED <<storeVars, todo, left>>

ServerDone ==
  /\ stage = "probes" /\ left = {}
  /\ stage' = "servers" /\ cur' = Nobody
  /\ UNCHANGED <<storeVars, todo, left>>

RENext ==
  \/ \E s \in Server : CreateServer(s) \/ DeleteServer(s) \/ NextServer(s)
  \/ \E p \in Probe : CreateProbe(p) \/ DeleteProbe(p) \/ RecordProbe(p)
  \/ BeginPass \/ EndPass \/ ServerDone

RESpec == REInit /\ [][RENext]_reVars

Simulator == \/ BeginPass \/ EndPass \/ ServerDone
             \/ \E s \in Server : NextServer(s)
             \/ \E p \in Probe : RecordProbe(p)

-----------------------------------------------------------------------------
Orphans(p) == {s \in Server : p \notin probes /\ reach[s][p] # "none"}

(* Types, and a pass only has ids that were stored.                         *)
RETypeOK ==
  /\ servers \subseteq usedServers /\ usedServers \subseteq Server
  /\ probes \subseteq usedProbes /\ usedProbes \subseteq Probe
  /\ reach \in [Server -> [Probe -> {"none", "yes", "no"}]]
  /\ stage \in {"idle", "servers", "probes"}
  /\ todo \subseteq usedServers /\ left \subseteq usedProbes
  /\ IF stage = "probes" THEN cur \in usedServers ELSE cur = Nobody /\ left = {}
  /\ \A s \in Server \ usedServers : Known(s) = {}

(* A probe and a server that stay get a record.                             *)
MatrixFilled ==
  \A s \in Server, p \in Probe :
    (s \in servers /\ p \in probes)
      ~> (s \notin servers \/ p \notin probes \/ reach[s][p] # "none")

(* "DeleteProbe removes a probe and its reachability records"               *)
(* (probe_store.go:83).                                                     *)
RecordsRemoved == \A p \in Probe : Orphans(p) = {}

(* What is left instead: the record of the one server at which the          *)
(* simulator was when the probe was deleted.                                *)
OneOrphanAtMost == \A p \in Probe : \A s, t \in Orphans(p) : s = t
=============================================================================
