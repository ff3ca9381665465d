---------------------------- MODULE MCLiveLists -----------------------------
(* TLC instance of the pages that keep themselves fresh: the dashboard with *)
(* its live updates (LiveDashboard), and the lists that pages load by an    *)
(* interval (AdminLists).  They share no state, so that each is explored    *)
(* with the other at rest: `part' says which one moves.  At rest neither    *)
(* has anything to do that is fair: no tab is open, no page on screen.      *)
EXTENDS LiveDashboard, AdminLists

VARIABLE part

vars == <<part, ldVars, lsVars>>

(* One list with an interval, the pages that show it, and one call.         *)
Polling(ps, k) == [pages |-> ps, lists |-> {k}, calls |-> ApiCall, clicks |-> 1]
MCTours == {Polling({"alerts"}, "events"), Polling({"services", "status"}, "services"),
            Polling({"chains", "routes"}, "chains")}

Init == /\ part \in {"dashboard", "lists"}
        /\ LDInit /\ LSInit
        /\ part # "lists" => tour = CHOOSE t \in Tours : TRUE

Dashboard == part = "dashboard" /\ LDNext /\ UNCHANGED <<part, lsVars>>
PolledPages == part = "lists" /\ LSNext /\ UNCHANGED <<part, ldVars>>

Spec == Init /\ [][Dashboard \/ PolledPages]_vars /\ LDFairness /\ LSFairness
=============================================================================
