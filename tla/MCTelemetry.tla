---------------------------- MODULE MCTelemetry -----------------------------
(* TLC instances of Telemetry.  No definition tells heartbeats apart.       *)
EXTENDS Telemetry, TLC

Symmetry == Permutations(Beat)
=============================================================================
