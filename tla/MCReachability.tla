--------------------------- MODULE MCReachability ---------------------------
(* TLC instances of Reachability.  No definition tells servers apart, nor   *)
(* probes that are not seeds.                                               *)
EXTENDS Reachability, TLC

Symmetry == Permutations(Server) \cup Permutations(Probe \ Seeds)
=============================================================================
