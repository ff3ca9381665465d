----------------------------- MODULE AlertEngine ----------------------------
(* Alert rules and their evaluation: backend/internal/database/             *)
(* alert_store.go and monitor/evaluator.go.                                 *)
(*                                                                          *)
(* Every 30s, the unit of time here, the evaluator goes over the rules      *)
(* twice, once for conditions of servers and once for services that are     *)
(* down.  It works on pointers to the rules, without the store's lock, and  *)
(* takes the lock again for each of AddEvent and MarkFired; admins create,  *)
(* edit, mute and delete rules at any time in between.                      *)
(*                                                                          *)
(* Every rule is for all targets, whose reports are a level per condition;  *)
(* of the flags Enabled and Muted only matters whether a rule is on.  The   *)
(* sends to notification channels are independent of each other and of all  *)
(* this, and a failure is only logged; they are left out, as is ReplaceAll. *)
EXTENDS Integers, Sequences, FiniteSets

CONSTANTS Rule,         \* ids; CreateRule takes one not usedRules before
          Metric,       \* cpu, memory, disk, offline_minutes
          ServiceDown,  \* the condition of rules about services
          Target,       \* the servers and services
          MaxLevel,     \* bound: levels that are told apart
          Cooldowns,    \* cooldowns admins may set
          MaxEvents     \* events kept (500 in the code)

ASSUME ServiceDownAssumption == ServiceDown \notin Metric
ASSUME AlertLimits == /\ MaxLevel \in Nat \ {0} /\ MaxEvents \in Nat \ {0}
                      /\ Cooldowns \subseteq Nat \ {0}
                      /\ \E c \in Cooldowns : \A d \in Cooldowns : d <= c  \* there is a longest

VARIABLES rules,      \* the stored ones
          usedRules,  \* ids that were ever stored
          on,         \* rules that are enabled and not muted
          cond, thr,  \* condition and threshold of each rule
          cooldown,
          since,      \* time since LastFired
          events,     \* the rules of the kept events, oldest first
          level,      \* what the targets report, by condition
          stage,      \* where the evaluator is
          pass,       \* which of its two loops it is in
          rulesLeft,  \* rules of the loop not looked at yet
          cur,        \* the rule it is at, with what it read of it
          targets,    \* those of this rule not looked at yet
          passed,     \* has this unit's pass been made
          quiet,      \* history: time since the last event of each rule
          firedOff,   \* history: events of a rule since it was off or gone
          ready       \* history: rules to fire for a target since the unit began

alertVars == <<rules, usedRules, on, cond, thr, cooldown, since, events>>
evalVars == <<stage, pass, rulesLeft, cur, targets, passed>>
aeVars == <<alertVars, evalVars, level, quiet, firedOff, ready>>

Condition == Metric \cup {ServiceDown}
Threshold == 0..(MaxLevel - 1)
Longest == CHOOSE c \in Cooldowns : \A d \in Cooldowns : d <= c
LongAgo == 1 + Longest

Crosses(x, c, t) == IF c = ServiceDown THEN level[x][c] > 0 ELSE level[x][c] > t
InCooldown(r) == since[r] < cooldown[r]
Ready(r, x) == r \in rules \cap on /\ ~ InCooldown(r) /\ Crosses(x, cond[r], thr[r])

AEInit ==
  /\ rules = {} /\ usedRules = {} /\ on = {}
  /\ cond = [r \in Rule |-> ServiceDown] /\ thr = [r \in Rule |-> 0]
  /\ cooldown = [r \in Rule |-> Longest]
  /\ since = [r \in Rule |-> LongAgo]
  /\ events = <<>>
  /\ level = [x \in Target |-> [c \in Condition |-> 0]]
  /\ stage = "idle" /\ pass = "server" /\ rulesLeft = {} /\ cur = <<>>
  /\ targets = {} /\ passed = FALSE
  /\ quiet = [r \in Rule |-> LongAgo]
  /\ firedOff = [r \in Rule |-> 0]
  /\ ready = {}

-----------------------------------------------------------------------------
CreateRule(r, c, t, d) ==
  /\ r \notin usedRules
  /\ rules' = rules \cup {r} /\ usedRules' = usedRules \cup {r} /\ on' = on \cup {r}
  /\ cond' = [cond EXCEPT ![r] = c] /\ thr' = [thr EXCEPT ![r] = t]
  /\ cooldown' = [cooldown EXCEPT ![r] = d]
  /\ UNCHANGED <<since, events, evalVars, level, quiet, firedOff>>

UpdateRule(r, c, t, d, isOn) ==
  /\ r \in rules
  /\ cond' = [cond EXCEPT ![r] = c] /\ thr' = [thr EXCEPT ![r] = t]
  /\ cooldown' = [cooldown EXCEPT ![r] = d]
  /\ on' = IF isOn THEN on \cup {r} ELSE on \ {r}
  /\ firedOff' = [firedOff EXCEPT ![r] = 0]
  /\ UNCHANGED <<rules, usedRules, since, events, evalVars, level, quiet>>

(* The rule is gone from the store; the evaluator may still have it.        *)
DeleteRule(r) ==
  /\ r \in rules
  /\ rules' = rules \ {r}
  /\ firedOff' = [firedOff EXCEPT ![r] = 0]
  /\ UNCHANGED <<usedRules, on, cond, thr, cooldown, since, events, evalVars, level, quiet>>

(* What a server or service reports changes.                                *)
Report(x, c, v) ==
  /\ level' = [level EXCEPT ![x][c] = v]
  /\ UNCHANGED <<alertVars, evalVars, quiet, firedOff>>

-----------------------------------------------------------------------------
(* GetRules, for the first loop and for the second.                         *)
BeginEvaluation ==
  /\ stage = "idle" /\ ~ passed
  /\ stage' = "scan" /\ pass' = "server" /\ rulesLeft' = rules
  /\ UNCHANGED <<alertVars, cur, targets, passed, level, quiet, firedOff>>

SecondLoop ==
  /\ stage = "scan" /\ rulesLeft = {} /\ pass = "server"
  /\ pass' = "service" /\ rulesLeft' = rules
  /\ UNCHANGED <<alertVars, stage, cur, targets, passed, level, quiet, firedOff>>

EndEvaluation ==
  /\ stage = "scan" /\ rulesLeft = {} /\ pass = "service"
  /\ stage' = "idle" /\ passed' = TRUE
  /\ UNCHANGED <<alertVars, pass, rulesLeft, cur, targets, level, quiet, firedOff>>

(* Mutant of Skipped: rules that are off are looked at.                     *)
SkippedIfCooling(r) == InCooldown(r) \/ (pass = "service" /\ cond[r] # ServiceDown)

Skipped(r) ==
  \/ r \notin on
  \/ pass = "service" /\ cond[r] # ServiceDown
  \/ InCooldown(r)

(* The loops' first conditions.                                             *)
Consider(r) ==
  /\ stage = "scan" /\ r \in rulesLeft
  /\ IF Skipped(r) THEN /\ rulesLeft' = rulesLeft \ {r}
                        /\ UNCHANGED <<stage, cur, targets>>
                   ELSE /\ stage' = "check" /\ targets' = Target
                        /\ cur' = <<r, cond[r], thr[r], cooldown[r]>>
                        /\ UNCHANGED rulesLeft
  /\ UNCHANGED <<alertVars, pass, passed, level, quiet, firedOff>>

(* checkCondition reads condition and threshold one after the other and     *)
(* without the lock: each may be from before or after an edit.  The second  *)
(* loop has read the condition already.                                     *)
CheckCondition(x) ==
  /\ stage = "check" /\ x \in targets
  /\ targets' = targets \ {x}
  /\ \E c \in {cur[2], cond[cur[1]]}, t \in {cur[3], thr[cur[1]]} :
       IF IF pass = "server" THEN c # ServiceDown /\ Crosses(x, c, t) ELSE Crosses(x, ServiceDown, t)
       THEN stage' = "fire" /\ UNCHANGED cur
       ELSE UNCHANGED stage /\ cur' = [cur EXCEPT ![2] = cond[cur[1]], ![3] = thr[cur[1]]]
  /\ UNCHANGED <<alertVars, pass, rulesLeft, passed, level, quiet, firedOff>>

NoneBreached ==
  /\ stage = "check" /\ targets = {}
  /\ stage' = "scan" /\ rulesLeft' = rulesLeft \ {cur[1]} /\ cur' = <<>>
  /\ UNCHANGED <<alertVars, pass, targets, passed, level, quiet, firedOff>>

AddEvent ==
  /\ stage = "fire"
  /\ stage' = "mark"
  /\ LET r == cur[1]
         log == Append(events, r)
     IN /\ events' = IF Len(log) > MaxEvents THEN Tail(log) ELSE log
        /\ quiet' = [quiet EXCEPT ![r] = 0]
        /\ firedOff' = [firedOff EXCEPT ![r] = IF r \in rules \cap on THEN 0 ELSE @ + 1]
  /\ UNCHANGED <<rules, usedRules, on, cond, thr, cooldown, since, pass, rulesLeft, cur, targets, passed, level>>

(* Mutants of MarkFired: only the first loop sets the anchor; `break'       *)
(* leaves the loop over the rules.                                          *)
MarkFiredFirstLoop ==
  /\ stage = "mark"
  /\ stage' = "scan" /\ rulesLeft' = rulesLeft \ {cur[1]} /\ cur' = <<>> /\ targets' = {}
  /\ since' = IF cur[1] \in rules /\ pass = "server" THEN [since EXCEPT ![cur[1]] = 0] ELSE since
  /\ UNCHANGED <<rules, usedRules, on, cond, thr, cooldown, events, pass, passed, level, quiet, firedOff>>

MarkFiredAndStop ==
  /\ stage = "mark"
  /\ stage' = "scan" /\ rulesLeft' = {} /\ cur' = <<>> /\ targets' = {}
  /\ since' = IF cur[1] \in rules THEN [since EXCEPT ![cur[1]] = 0] ELSE since
  /\ UNCHANGED <<rules, usedRules, on, cond, thr, cooldown, events, pass, passed, level, quiet, firedOff>>

(* ... and on to the next rule.                                             *)
MarkFired ==
  /\ stage = "mark"
  /\ stage' = "scan" /\ rulesLeft' = rulesLeft \ {cur[1]} /\ cur' = <<>> /\ targets' = {}
  /\ since' = IF cur[1] \in rules THEN [since EXCEPT ![cur[1]] = 0] ELSE since
  /\ UNCHANGED <<rules, usedRules, on, cond, thr, cooldown, events, pass, passed, level, quiet, firedOff>>

Older(f) == [r \in Rule |-> IF f[r] < LongAgo THEN f[r] + 1 ELSE LongAgo]

(* A pass takes no time to speak of.                                        *)
EvaluatorTick ==
  /\ stage = "idle" /\ passed
  /\ passed' = FALSE
  /\ since' = Older(since) /\ quiet' = Older(quiet)
  /\ UNCHANGED <<rules, usedRules, on, cond, thr, cooldown, events, stage, pass, rulesLeft, cur, targets, level, firedOff>>

Evaluator == \/ BeginEvaluation \/ SecondLoop \/ EndEvaluation
             \/ \E r \in Rule : Consider(r)
             \/ \E x \in Target : CheckCondition(x)
             \/ NoneBreached \/ AddEvent \/ MarkFired

AlertAdmin ==
  \E r \in Rule :
    \/ \E c \in Condition, t \in Threshold, d \in Cooldowns :
         \/ CreateRule(r, c, t, d)
         \/ \E isOn \in BOOLEAN : UpdateRule(r, c, t, d, isOn)
    \/ DeleteRule(r)

(* `ready' follows from the other variables.                                *)
Watch ==
  ready' = {p \in Rule \X Target :
              Ready(p[1], p[2])' /\ \/ passed /\ ~ passed'
                                    \/ p \in ready /\ UNCHANGED <<cond[p[1]], thr[p[1]]>>}

AENext == /\ \/ AlertAdmin \/ Evaluator \/ EvaluatorTick
             \/ \E x \in Target, c \in Condition, v \in 0..MaxLevel : Report(x, c, v)
          /\ Watch

AESpec == AEInit /\ [][AENext]_aeVars

-----------------------------------------------------------------------------
AETypeOK ==
  /\ rules \subseteq usedRules /\ usedRules \subseteq Rule /\ on \subseteq usedRules
  /\ cond \in [Rule -> Condition] /\ thr \in [Rule -> Threshold]
  /\ cooldown \in [Rule -> Cooldowns]
  /\ since \in [Rule -> 0..LongAgo] /\ quiet \in [Rule -> 0..LongAgo]
  /\ events \in Seq(usedRules) /\ Len(events) <= MaxEvents
  /\ level \in [Target -> [Condition -> 0..MaxLevel]]
  /\ stage \in {"idle", "scan", "check", "fire", "mark"}
  /\ pass \in {"server", "service"} /\ passed \in BOOLEAN
  /\ rulesLeft \subseteq usedRules /\ targets \subseteq Target
  /\ ready \subseteq rules \X Target
  /\ stage \in {"check", "fire", "mark"} => cur[1] \in rulesLeft
  /\ \A r \in Rule : firedOff[r] \in Nat

(* "one event per rule per pass; cooldown gates the next" (evaluator.go:84):*)
(* an event follows the last one of its rule by at least the cooldown the   *)
(* evaluator found, in whichever loop and however the rule is edited.       *)
CooldownStep == stage = "fire" /\ stage' = "mark" => quiet[cur[1]] >= cur[4]
CooldownRespected == [][CooldownStep]_aeVars

(* A rule that is muted, disabled or deleted while the evaluator is at it   *)
(* may still fire, but only once.                                           *)
OffMeansOff == \A r \in Rule : firedOff[r] <= 1

(* No pass misses a rule that was stored, on, out of its cooldown and       *)
(* crossed by one target all the time since before the pass began, with the *)
(* same condition and threshold, whichever other rules and targets fire or  *)
(* are edited meanwhile.                                                    *)
NoneMissed == stage = "idle" /\ passed => ready = {}
=============================================================================
