---------------------------- MODULE MCAgentLink ----------------------------
(* Instance of AgentLink for TLC.                                          *)
EXTENDS AgentLink, TLC
=============================================================================
