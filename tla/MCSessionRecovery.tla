------------------------- MODULE MCSessionRecovery -------------------------
(***************************************************************************)
(* Model checking of SessionRecovery: its bounds are in the cfg files.       *)
(***************************************************************************)
EXTENDS SessionRecovery
=============================================================================
