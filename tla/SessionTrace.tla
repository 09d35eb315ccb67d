---------------------------- MODULE SessionTrace ----------------------------
(***************************************************************************)
(* The relational rules of the session log: which event may follow, by the  *)
(* bookkeeping of the session-invariant companion (SessionTrace,            *)
(* validateEvent and applyTransition).  The modules that append to a        *)
(* session's log state with it that what they append is legal.              *)
(*                                                                          *)
(* Sequence numbers are left out: append numbers events by the log's        *)
(* length.  Turns and steps count from 1; 0 stands for null.                *)
(***************************************************************************)
EXTENDS Naturals

Null == 0

\* The events the rules constrain, with the fields they look at.
TurnStart(n) == [type |-> "turn/start", turn |-> n]
TurnEnd(n) == [type |-> "turn/end", turn |-> n]
StepStart(n, k) == [type |-> "step/start", turn |-> n, step |-> k]
StepEnd(n, k) == [type |-> "step/end", turn |-> n, step |-> k]
AssistantMessage(n, k, asked) ==
    [type |-> "assistant/message", turn |-> n, step |-> k, calls |-> asked]
ToolCall(n, k, c) == [type |-> "tool/call", turn |-> n, step |-> k, call |-> c]
ToolResult(n, k, c, code) ==
    [type |-> "tool/result", turn |-> n, step |-> k, call |-> c, code |-> code,
     synthetic |-> code = "notStarted"]

\* What the companion remembers of a session's log.
Traces(Calls) ==
    [openTurn : Nat, openStep : Nat, nextTurn : Nat, nextStep : Nat,
     pendingCalls : SUBSET Calls]

\* The trace of a balanced log whose last turn is n (0: of an empty log).
ClosedAfter(n) ==
    [openTurn |-> Null, openStep |-> Null, nextTurn |-> n + 1, nextStep |-> 1,
     pendingCalls |-> {}]

InOpenStep(t, e) == t.openTurn = e.turn /\ t.openStep = e.step

\* validateEvent: whether event e may be appended to a log whose trace is t.
Valid(t, e) ==
    CASE e.type = "turn/start" -> t.openTurn = Null /\ e.turn = t.nextTurn
      [] e.type = "turn/end" -> t.openTurn = e.turn /\ t.openStep = Null
      [] e.type = "step/start" ->
           t.openTurn = e.turn /\ t.openStep = Null /\ e.step = t.nextStep
      [] e.type \in {"step/end", "assistant/message", "tool/call"} -> InOpenStep(t, e)
      [] e.type = "tool/result" ->
           InOpenStep(t, e) /\ (e.call \in t.pendingCalls \/ e.synthetic)
      [] OTHER -> TRUE

\* applyTransition: the trace after event e.
Advance(t, e) ==
    CASE e.type = "turn/start" -> [t EXCEPT !.openTurn = e.turn, !.nextStep = 1]
      [] e.type = "turn/end" -> [t EXCEPT !.openTurn = Null, !.nextTurn = @ + 1]
      [] e.type = "step/start" -> [t EXCEPT !.openStep = e.step]
      [] e.type = "step/end" ->
           [t EXCEPT !.openStep = Null, !.nextStep = @ + 1, !.pendingCalls = {}]
      [] e.type = "tool/call" -> [t EXCEPT !.pendingCalls = @ \cup {e.call}]
      [] e.type = "tool/result" -> [t EXCEPT !.pendingCalls = @ \ {e.call}]
      [] OTHER -> t
=============================================================================
