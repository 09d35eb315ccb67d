---------------------------- MODULE MCAgentLoop ----------------------------
(***************************************************************************)
(* AgentLoop with a few messages.                                           *)
(***************************************************************************)
EXTENDS AgentLoop
=============================================================================
