---------------------------- MODULE MCAgentLink ----------------------------
(* Model checking of AgentLink.                                            *)
EXTENDS AgentLink
=============================================================================
