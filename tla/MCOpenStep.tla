----------------------------- MODULE MCOpenStep -----------------------------
(***************************************************************************)
(* OpenStep for TLC: a bounded policy and an unbounded one, which a reload   *)
(* of the plugin or of its configuration may exchange.                      *)
(***************************************************************************)
EXTENDS OpenStep

SmallPolicies == {NoPolicy, [mode |-> "normal", max |-> 1], [mode |-> "always", max |-> 0]}
=============================================================================
