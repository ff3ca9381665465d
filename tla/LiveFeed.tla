------------------------------ MODULE LiveFeed ------------------------------
(* What the live updates of the dashboard promise a page, without hub,      *)
(* channels, goroutines or sockets: while it is connected it is brought     *)
(* from one state of the server list to the same or a later one, never to   *)
(* one that has not been; it may miss some, and starts anew when it is      *)
(* loaded again.                                                            *)
EXTENDS Integers

CONSTANT Page

VARIABLES current,   \* the list, by its version
          connected, \* the pages that have a connection
          got        \* the newest list each was brought since it was loaded

feedVars == <<current, connected, got>>

Nothing == -1

LFInit == current = 0 /\ connected = {} /\ got = [p \in Page |-> Nothing]

Publish == current' = current + 1 /\ UNCHANGED <<connected, got>>

Join(p) ==
  /\ p \notin connected /\ connected' = connected \cup {p}
  /\ UNCHANGED <<current, got>>

Drop(p) ==
  /\ p \in connected /\ connected' = connected \ {p}
  /\ UNCHANGED <<current, got>>

(* Some list between what it has and what there is.                         *)
Bring(p) ==
  /\ p \in connected
  /\ \E v \in 0..current : v >= got[p] /\ got' = [got EXCEPT ![p] = v]
  /\ UNCHANGED <<current, connected>>

LoadAnew(p) ==
  /\ p \in connected /\ connected' = connected \ {p}
  /\ got' = [got EXCEPT ![p] = Nothing]
  /\ UNCHANGED current

LFNext == Publish \/ \E p \in Page : Join(p) \/ Drop(p) \/ Bring(p) \/ LoadAnew(p)

LFSpec == LFInit /\ [][LFNext]_feedVars
=============================================================================
