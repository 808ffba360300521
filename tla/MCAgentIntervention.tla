-------------------------- MODULE MCAgentIntervention --------------------------
(* Three configuration bodies, up to three revisions, one waiting directive.  *)
EXTENDS AgentIntervention, TLC

CONSTANTS b0, b1, b2
===============================================================================
