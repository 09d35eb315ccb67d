-------------------------- MODULE MCToolScheduler --------------------------
(***************************************************************************)
(* ToolScheduler for TLC: its constants are numbers, given in the configs.  *)
(***************************************************************************)
EXTENDS ToolScheduler
=============================================================================
