-------------------------- MODULE MCAgentLifecycle --------------------------
(***************************************************************************)
(* An instance of AgentLifecycle for TLC.                                  *)
(***************************************************************************)
EXTENDS AgentLifecycle
=============================================================================
