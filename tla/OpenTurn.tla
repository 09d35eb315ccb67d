------------------------------ MODULE OpenTurn ------------------------------
(***************************************************************************)
(* What the components that work inside an open step share: the stage of    *)
(* each agent's turn and the signal that cancels it.  RequestRetry acts     *)
(* while a failed request is being recovered, Approval while the tool calls *)
(* of a response run; OpenStep composes them with the agent's loop.         *)
(***************************************************************************)
EXTENDS Naturals, Sequences, FiniteSets

CONSTANT Agents

VARIABLES
    phase,    \* of the open step: "closed" (no turn is open), "request" (a model
              \* request is streaming), "recover" (its failure is dispatched),
              \* "calls" (the response's tool calls run)
    aborted   \* the turn's signal is aborted

turn == <<phase, aborted>>

Phases == {"closed", "request", "recover", "calls"}

TurnTypeOK == phase \in [Agents -> Phases] /\ aborted \in [Agents -> BOOLEAN]

TurnInit == phase = [a \in Agents |-> "closed"] /\ aborted = [a \in Agents |-> FALSE]

Enter(a, p) == phase' = [phase EXCEPT ![a] = p]
=============================================================================
