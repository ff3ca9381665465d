-------------------------- MODULE MCLiveDashboard ---------------------------
(* TLC instances of LiveDashboard.  No definition tells connections apart,  *)
(* nor pages; the symmetry is used for safety only.                         *)
EXTENDS LiveDashboard, TLC

Symmetry == Permutations(Conn) \cup Permutations(Page)
=============================================================================
