--------------------------- MODULE RemoteExecution -------------------------
(* What the task channel promises, without stores, agents, requests or      *)
(* failures: submitted tasks are run at most once each, in the order of     *)
(* submission on every server, and whatever the panel knows about a task is *)
(* what its run came to.  Any task may fail to be run, and any result may   *)
(* fail to become known or be forgotten.                                    *)
EXTENDS Integers

CONSTANTS ServerID, NoServer, MaxTasks

VARIABLES target,      \* the server of each submitted task
          submitted,   \* how many tasks were submitted
          run,         \* what became of each task on its server
          known        \* what the panel knows of each task

rxVars == <<target, submitted, run, known>>

RXTask == 1..MaxTasks
Ended == {"success", "failed"}

RXInit ==
  /\ target = [t \in RXTask |-> NoServer]
  /\ submitted = 0
  /\ run = [t \in RXTask |-> "no"]
  /\ known = [t \in RXTask |-> "nothing"]

Forget(S) == known' = [t \in RXTask |-> IF t \in S THEN "nothing" ELSE known[t]]

(* Submitting a task may push old results out.                              *)
Submit(s) ==
  /\ submitted < MaxTasks
  /\ submitted' = submitted + 1
  /\ target' = [target EXCEPT ![submitted + 1] = s]
  /\ \E S \in SUBSET RXTask : Forget(S)
  /\ UNCHANGED run

Begin(t) ==
  /\ t <= submitted /\ run[t] = "no"
  /\ \A u \in RXTask : target[u] = target[t] /\ run[u] # "no" => u < t
  /\ run' = [run EXCEPT ![t] = "started"]
  /\ UNCHANGED <<target, submitted, known>>

End(t, result) ==
  /\ run[t] = "started"
  /\ run' = [run EXCEPT ![t] = result]
  /\ UNCHANGED <<target, submitted, known>>

Learn(t) ==
  /\ run[t] \in Ended
  /\ known' = [known EXCEPT ![t] = run[t]]
  /\ UNCHANGED <<target, submitted, run>>

ForgetAll ==
  /\ Forget(RXTask)
  /\ UNCHANGED <<target, submitted, run>>

RXNext ==
  \/ \E s \in ServerID : Submit(s)
  \/ \E t \in RXTask : Begin(t) \/ Learn(t)
  \/ \E t \in RXTask, result \in Ended : End(t, result)
  \/ ForgetAll

RXSpec == RXInit /\ [][RXNext]_rxVars
=============================================================================
