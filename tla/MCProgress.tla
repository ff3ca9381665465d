---------------------------- MODULE MCProgress -----------------------------
(* TLC instance of what comes to a good end by itself: the panel's results  *)
(* of service checks (ServiceChecks), its matrix of probes and servers      *)
(* (Reachability), a web terminal (Terminal), and an admin's tab (Session). *)
(* They share no state, so that each is explored with the others at rest:   *)
(* `part' says which one moves, and fairness is assumed of that one.        *)
EXTENDS ServiceChecks, Reachability, Terminal, Session

VARIABLE part

vars == <<part, scVars, reVars, tmlVars, seVars>>

Init == /\ part \in {"services", "probes", "terminal", "session"}
        /\ SCInit /\ REInit /\ TMLInit /\ SEInit

Services == part = "services" /\ SCNext /\ UNCHANGED <<part, reVars, tmlVars, seVars>>
Probes == part = "probes" /\ RENext /\ UNCHANGED <<part, scVars, tmlVars, seVars>>
WebTerminal == part = "terminal" /\ TMLNext /\ UNCHANGED <<part, scVars, reVars, seVars>>
AdminTab == part = "session" /\ SENext /\ UNCHANGED <<part, scVars, reVars, tmlVars>>

Spec == /\ Init /\ [][Services \/ Probes \/ WebTerminal \/ AdminTab]_vars
        /\ WF_scVars(part = "services" /\ Tick)
        /\ WF_scVars(part = "services" /\ RunChecks)
        /\ WF_scVars(part = "services" /\ ProbesEnd)
        /\ WF_reVars(part = "probes" /\ Simulator)
        /\ TMLFairness /\ SEFairness

(* Types of all parts: results and records are of services, servers and     *)
(* probes that were stored, the history is cut, a shell has its copier, and *)
(* the tokens in use were issued.                                           *)
ProgressTypeOK == SCTypeOK /\ RETypeOK /\ TMLTypeOK /\ SETypeOK
=============================================================================
