--------------------------- MODULE MCAgentChannel --------------------------
(* TLC instances of AgentChannel.  Neither servers nor connections are told *)
(* apart by any definition, so the runs of safety properties may identify   *)
(* states that differ by a permutation of them.                             *)
EXTENDS AgentChannel, TLC

Symmetry == Permutations(ServerID) \cup Permutations(Conn)
=============================================================================
