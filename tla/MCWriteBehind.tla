--------------------------- MODULE MCWriteBehind ---------------------------
(***************************************************************************)
(* WriteBehind for TLC: its callers and the number of events are given in    *)
(* the config, without symmetry, which liveness does not allow.             *)
(***************************************************************************)
EXTENDS WriteBehind
=============================================================================
