---------------------------- MODULE MCJsonlStore ----------------------------
(***************************************************************************)
(* JsonlStore for TLC: two processes, which the specification does not tell  *)
(* apart.                                                                   *)
(***************************************************************************)
EXTENDS JsonlStore, TLC, FiniteSets

Symmetry == Permutations(Processes)

\* Bound: once a remnant is buried, what happens is only followed while one
\* process at most has the session open; a race is explored in a sound log.
RacesBeforeDamage ==
    damage = "buried" => Cardinality({p \in Processes : stage[p] # "down"}) <= 1
=============================================================================
