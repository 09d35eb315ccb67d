---------------------------- MODULE OrderedCalls ----------------------------
(***************************************************************************)
(* What executing the tool calls of one step promises of the session's log: *)
(* calls and results appear in the order the model asked for them, a result  *)
(* only behind its call, and execution returns only when every call was      *)
(* logged and answered.                                                     *)
(***************************************************************************)
EXTENDS Naturals, Sequences

CONSTANT N  \* how many calls the model asked for

VARIABLES
    called,     \* the calls logged as tool/call, in order
    answered,   \* the calls logged as tool/result, in order
    outcome     \* how the execution ended

vars == <<called, answered, outcome>>

Init == called = <<>> /\ answered = <<>> /\ outcome = "none"

Call ==
    /\ outcome = "none" /\ Len(called) < N
    /\ called' = Append(called, Len(called) + 1)
    /\ UNCHANGED <<answered, outcome>>

Answer ==
    /\ outcome = "none" /\ Len(answered) < Len(called)
    /\ answered' = Append(answered, Len(answered) + 1)
    /\ UNCHANGED <<called, outcome>>

Return ==
    /\ outcome = "none" /\ Len(called) = N /\ Len(answered) = N
    /\ outcome' = "returned"
    /\ UNCHANGED <<called, answered>>

\* The scheduler rejects: the turn ends with what was logged.
Reject ==
    /\ outcome = "none" /\ outcome' = "failed"
    /\ UNCHANGED <<called, answered>>

Next == Call \/ Answer \/ Return \/ Reject

Spec == Init /\ [][Next]_vars
=============================================================================
