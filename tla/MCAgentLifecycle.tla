--------------------------- MODULE MCAgentLifecycle ---------------------------
(* Two agents; the scheduler's order and the commands are left to TLC.         *)
EXTENDS AgentLifecycle, TLC

CONSTANTS a1, a2
===============================================================================
