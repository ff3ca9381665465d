---------------------------- MODULE ServiceChecks ---------------------------
(* Monitored services and their checks: backend/internal/database/          *)
(* service_store.go and the checker loop of monitor/checker.go.             *)
(*                                                                          *)
(* Every scan starts a goroutine for each service that is due; it probes    *)
(* the target and records what it found.  Admins add, edit and delete       *)
(* services meanwhile.  The unit of time is the checker's ticker (10s).     *)
(* What a probe does (HTTP, TCP or ping) is its outcome and that it ends    *)
(* within its timeout; a restored backup is left out.                       *)
EXTENDS Integers, Sequences, FiniteSets

CONSTANTS Service,       \* ids; Create takes one not used before
          Samples,       \* the services InitServiceStore puts in
          Intervals,     \* check intervals admins may set, in units
          CheckTimeout,  \* units a probe may take
          MaxHistory,    \* results kept per service (120 in the code)
          MaxEdits       \* bound of the model: edits of a target

ASSUME SamplesAssumption == Samples \subseteq Service
ASSUME IntervalsAssumption ==
  /\ Intervals \subseteq Nat \ {0}
  /\ \E i \in Intervals : \A j \in Intervals : j <= i  \* there is a longest
  /\ \A i \in Intervals : i > CheckTimeout
ASSUME LimitsAssumption ==
  CheckTimeout \in Nat \ {0} /\ MaxHistory \in Nat \ {0} /\ MaxEdits \in Nat

VARIABLES services,   \* the stored ones
          used,       \* ids that were ever stored
          interval,   \* of each service
          status,     \* "pending", "up" or "down"
          history,    \* results, oldest first: was it up, was it of an old target
          uptime,     \* UptimePct as the fraction it was computed from
          checked,    \* services whose LastCheck is not zero
          age,        \* time since LastCheck, or since Create while that is zero
          probing,    \* goroutines: service, time since start, is the target old
          scanned,    \* has this tick of the checker been served
          edits

scVars == <<services, used, interval, status, history, uptime, checked, age,
            probing, scanned, edits>>

Longest == CHOOSE i \in Intervals : \A j \in Intervals : j <= i
Oldest == Longest + CheckTimeout + 1

Result == [up : BOOLEAN, old : BOOLEAN]
ProbeRecord == [svc : Service, age : 0..CheckTimeout, old : BOOLEAN]

UpIn(h) == Cardinality({k \in DOMAIN h : h[k].up})
StatusOf(r) == IF r.up THEN "up" ELSE "down"

SCInit ==
  /\ services = Samples /\ used = Samples
  /\ interval = [s \in Service |-> Longest]
  /\ status = [s \in Service |-> "pending"]
  /\ history = [s \in Service |-> <<>>]
  /\ uptime = [s \in Service |-> <<0, 0>>]
  /\ checked = {}
  /\ age = [s \in Service |-> 0]
  /\ probing = {}
  /\ scanned = FALSE
  /\ edits = 0

Create(s, i) ==
  /\ s \notin used
  /\ services' = services \cup {s} /\ used' = used \cup {s}
  /\ interval' = [interval EXCEPT ![s] = i]
  /\ age' = [age EXCEPT ![s] = 0]
  /\ UNCHANGED <<status, history, uptime, checked, probing, scanned, edits>>

(* An edit of the target starts the history anew; LastCheck and UptimePct   *)
(* stay.                                                                    *)
Retarget(s) ==
  /\ status' = [status EXCEPT ![s] = "pending"]
  /\ history' = [history EXCEPT ![s] = <<>>]
  /\ probing' = {IF p.svc = s THEN [p EXCEPT !.old = TRUE] ELSE p : p \in probing}

(* Update; the interval may be given together with a target.                *)
Update(s, i, newTarget) ==
  /\ s \in services
  /\ interval' = [interval EXCEPT ![s] = i]
  /\ IF newTarget THEN /\ edits < MaxEdits /\ edits' = edits + 1
                       /\ Retarget(s)
                  ELSE UNCHANGED <<status, history, probing, edits>>
  /\ UNCHANGED <<services, used, uptime, checked, age, scanned>>

Delete(s) ==
  /\ s \in services
  /\ services' = services \ {s}
  /\ checked' = checked \ {s}
  /\ status' = [status EXCEPT ![s] = "pending"]
  /\ history' = [history EXCEPT ![s] = <<>>]
  /\ uptime' = [uptime EXCEPT ![s] = <<0, 0>>]
  /\ age' = [age EXCEPT ![s] = 0]
  /\ UNCHANGED <<used, interval, probing, scanned, edits>>

(* Mutants of Due: a service that was never checked is not; the interval is *)
(* counted from one unit later.                                             *)
DueIfChecked(s) == s \in services /\ s \in checked /\ age[s] > interval[s]

DueLate(s) == s \in services /\ (s \notin checked \/ age[s] > interval[s] + 1)

Due(s) == s \in services /\ (s \notin checked \/ age[s] > interval[s])

(* Probe and scan started a little later than their ticks, so that after as *)
(* many ticks as the interval has units either may be the case.             *)
JustDue(s) == s \in services /\ s \in checked /\ age[s] = interval[s]

(* runChecks.                                                               *)
RunChecks ==
  /\ ~ scanned /\ scanned' = TRUE
  /\ \E some \in SUBSET {s \in Service : JustDue(s)} :
       probing' = probing \cup {[svc |-> s, age |-> 0, old |-> FALSE] :
                                   s \in some \cup {z \in Service : Due(z)}}
  /\ UNCHANGED <<services, used, interval, status, history, uptime, checked, age, edits>>

(* Mutant of Trim: one result too many is kept.                             *)
TrimLate(h) == IF Len(h) > MaxHistory + 1 THEN Tail(h) ELSE h

Trim(h) == IF Len(h) > MaxHistory THEN Tail(h) ELSE h

(* Mutant of Record: UptimePct is computed before the result is added.      *)
RecordUptimeFirst(s, r, since) ==
  /\ history' = [history EXCEPT ![s] = Trim(Append(@, r))]
  /\ uptime' = [uptime EXCEPT ![s] = <<UpIn(history[s]), Len(history[s])>>]
  /\ status' = [status EXCEPT ![s] = StatusOf(r)]
  /\ checked' = checked \cup {s}
  /\ age' = [age EXCEPT ![s] = since]

(* RecordResult, of a service that is still there.  LastCheck becomes the   *)
(* time the probe was started.                                              *)
Record(s, r, since) ==
  /\ history' = [history EXCEPT ![s] = Trim(Append(@, r))]
  /\ uptime' = [uptime EXCEPT ![s] = <<UpIn(history'[s]), Len(history'[s])>>]
  /\ status' = [status EXCEPT ![s] = StatusOf(r)]
  /\ checked' = checked \cup {s}
  /\ age' = [age EXCEPT ![s] = since]

ProbeEnds(p, up) ==
  /\ p \in probing
  /\ probing' = probing \ {p}
  /\ IF p.svc \in services
     THEN Record(p.svc, [up |-> up, old |-> p.old], p.age)
     ELSE UNCHANGED <<history, uptime, status, checked, age>>
  /\ UNCHANGED <<services, used, interval, scanned, edits>>

(* A unit passes: the scan has been made and no probe outlives its timeout. *)
Tick ==
  /\ scanned /\ scanned' = FALSE
  /\ \A p \in probing : p.age < CheckTimeout
  /\ probing' = {[p EXCEPT !.age = @ + 1] : p \in probing}
  /\ age' = [s \in Service |-> IF s \in services /\ age[s] <= Oldest THEN age[s] + 1 ELSE age[s]]
  /\ UNCHANGED <<services, used, interval, status, history, uptime, checked, edits>>

ProbesEnd == \E p \in probing, up \in BOOLEAN : ProbeEnds(p, up)

SCNext ==
  \/ \E s \in Service, i \in Intervals : Create(s, i) \/ \E b \in BOOLEAN : Update(s, i, b)
  \/ \E s \in Service : Delete(s)
  \/ RunChecks
  \/ ProbesEnd
  \/ Tick

SCSpec == SCInit /\ [][SCNext]_scVars

-----------------------------------------------------------------------------
SCTypeOK ==
  /\ services \subseteq used /\ used \subseteq Service
  /\ interval \in [Service -> Intervals]
  /\ status \in [Service -> {"pending", "up", "down"}]
  /\ \A s \in Service : history[s] \in Seq(Result) /\ Len(history[s]) <= MaxHistory
  /\ uptime \in [Service -> (0..MaxHistory) \X (0..MaxHistory)]
  /\ checked \subseteq services
  /\ age \in [Service -> Nat]
  /\ probing \subseteq ProbeRecord
  /\ scanned \in BOOLEAN
  /\ edits \in 0..MaxEdits

(* A service that is not pending shows its latest result, and its uptime    *)
(* is that of the results it shows, after any number of results were        *)
(* dropped from the history.                                                *)
ShownIsRecorded ==
  \A s \in services :
    /\ status[s] = "pending" <=> history[s] = <<>>
    /\ history[s] # <<>> => /\ status[s] = StatusOf(history[s][Len(history[s])])
                            /\ uptime[s] = <<UpIn(history[s]), Len(history[s])>>

(* No stored service is left unchecked for longer than its interval, a scan *)
(* and a probe, whatever the admins edit and in whichever order overlapping *)
(* probes end.                                                              *)
CheckedInTime == \A s \in services : age[s] <= Oldest

(* Every stored service gets a result of the target it has now.             *)
TargetGetsChecked ==
  \A s \in Service :
    (s \in services) ~> (s \notin services \/ \E k \in DOMAIN history[s] : ~ history[s][k].old)

(* "UptimePct ... over stored history" (models/service.go:16).              *)
UptimeOverHistory == \A s \in services : uptime[s] = <<UpIn(history[s]), Len(history[s])>>
=============================================================================
