---------------------- MODULE MCPersistenceCoordinator ----------------------
(***************************************************************************)
(* PersistenceCoordinator for TLC, with a few callers.                      *)
(***************************************************************************)
EXTENDS PersistenceCoordinator
=============================================================================
