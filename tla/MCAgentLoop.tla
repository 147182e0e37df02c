----------------------------- MODULE MCAgentLoop -----------------------------
(* Small instances of AgentLoop: the constants are numbers given in the
   configurations.                                                          *)
EXTENDS AgentLoop
=============================================================================
