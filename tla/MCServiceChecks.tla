-------------------------- MODULE MCServiceChecks --------------------------
(* TLC instances of ServiceChecks.                                          *)
EXTENDS ServiceChecks
=============================================================================
