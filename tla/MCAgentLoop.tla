---------------------------- MODULE MCAgentLoop ----------------------------
(* TLC instances of AgentLoop.                                              *)
EXTENDS AgentLoop
=============================================================================
