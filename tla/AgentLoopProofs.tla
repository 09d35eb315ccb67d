-------------------------- MODULE AgentLoopProofs --------------------------
(***************************************************************************)
(* Proofs about AgentLoop, for every set of messages, every log it resumes  *)
(* from and every bound on the steps of a turn.                             *)
(***************************************************************************)
EXTENDS AgentLoop, SequenceTheorems, TLAPS

\* The turn that offers to stop knows how it ends.
StoppingHasEnding == pc = "stopping" => turnEnds # "null"

\* In an open turn, a ceiling that was hit is the turn's ending.
CeilingKept == trace.openTurn # Null /\ hitCeiling => turnEnds = "max-tokens"

\* A send that found an abort still finds it when it wakes the driver.
WakeAgrees == waking = "afterAbort" => Aborted

(***************************************************************************)
(* What the turn and step events ask of a session's trace and what they     *)
(* make of it, for every set of tool calls.                                 *)
(***************************************************************************)

\* What the event turn/start asks of the trace, and what it makes of it.
LEMMA TurnStartEffect ==
    ASSUME NEW Calls, NEW t \in Traces(Calls), NEW n \in Nat
    PROVE  LET a == Advance(t, TurnStart(n))
           IN  /\ Valid(t, TurnStart(n)) <=> (t.openTurn = Null /\ n = t.nextTurn)
               /\ a \in Traces(Calls)
               /\ a.openTurn = n /\ a.openStep = t.openStep
               /\ a.nextTurn = t.nextTurn /\ a.nextStep = 1
BY DEF Advance, Valid, Traces, TurnStart

\* What turn/end asks and makes.
LEMMA TurnEndEffect ==
    ASSUME NEW Calls, NEW t \in Traces(Calls), NEW n \in Nat
    PROVE  LET a == Advance(t, TurnEnd(n))
           IN  /\ Valid(t, TurnEnd(n)) <=> (t.openTurn = n /\ t.openStep = Null)
               /\ a \in Traces(Calls)
               /\ a.openTurn = Null /\ a.openStep = t.openStep
               /\ a.nextTurn = t.nextTurn + 1 /\ a.nextStep = t.nextStep
<1>1. t.nextTurn \in Nat /\ t.nextTurn + 1 \in Nat BY DEF Traces
<1> DEFINE next == t.nextTurn + 1
<1> HIDE DEF next
<1>2. next \in Nat BY <1>1 DEF next
<1>3. Advance(t, TurnEnd(n)) = [t EXCEPT !.openTurn = Null, !.nextTurn = next]
  BY DEF Advance, TurnEnd, next
<1>4. Valid(t, TurnEnd(n)) <=> (t.openTurn = n /\ t.openStep = Null) BY DEF Valid, TurnEnd
<1>5. next = t.nextTurn + 1 BY DEF next
<1>6. [t EXCEPT !.openTurn = Null, !.nextTurn = next] \in Traces(Calls)
  BY <1>2 DEF Traces, Null
<1> QED BY <1>2, <1>3, <1>4, <1>5, <1>6 DEF Traces

\* What step/start asks and makes.
LEMMA StepStartEffect ==
    ASSUME NEW Calls, NEW t \in Traces(Calls), NEW n \in Nat, NEW k \in Nat
    PROVE  LET a == Advance(t, StepStart(n, k))
           IN  /\ Valid(t, StepStart(n, k)) <=>
                    (t.openTurn = n /\ t.openStep = Null /\ k = t.nextStep)
               /\ a \in Traces(Calls)
               /\ a.openTurn = t.openTurn /\ a.openStep = k
               /\ a.nextTurn = t.nextTurn /\ a.nextStep = t.nextStep
BY DEF Advance, Valid, Traces, StepStart

\* What step/end asks and makes.
LEMMA StepEndEffect ==
    ASSUME NEW Calls, NEW t \in Traces(Calls), NEW n \in Nat, NEW k \in Nat
    PROVE  LET a == Advance(t, StepEnd(n, k))
           IN  /\ Valid(t, StepEnd(n, k)) <=> (t.openTurn = n /\ t.openStep = k)
               /\ a \in Traces(Calls)
               /\ a.openTurn = t.openTurn /\ a.openStep = Null
               /\ a.nextTurn = t.nextTurn /\ a.nextStep = t.nextStep + 1
<1>1. t.nextStep \in Nat /\ t.nextStep + 1 \in Nat BY DEF Traces
<1> DEFINE next == t.nextStep + 1
<1> HIDE DEF next
<1>2. next \in Nat BY <1>1 DEF next
<1>3. Advance(t, StepEnd(n, k)) =
        [t EXCEPT !.openStep = Null, !.nextStep = next, !.pendingCalls = {}]
  BY DEF Advance, StepEnd, next
<1>4. Valid(t, StepEnd(n, k)) <=> (t.openTurn = n /\ t.openStep = k)
  BY DEF Valid, StepEnd, InOpenStep
<1>5. next = t.nextStep + 1 BY DEF next
<1>6. [t EXCEPT !.openStep = Null, !.nextStep = next, !.pendingCalls = {}] \in Traces(Calls)
  BY <1>2 DEF Traces, Null
<1> QED BY <1>2, <1>3, <1>4, <1>5, <1>6 DEF Traces

(***************************************************************************)
(* Types.                                                                   *)
(***************************************************************************)

\* Closing a turn keeps the types.
LEMMA CloseTyped ==
    ASSUME TypeOK, NEW r \in TurnEnds, NEW next \in Stages, CloseTurn(r, next)
    PROVE  /\ trace' \in Traces({}) /\ wellFormed' \in BOOLEAN
           /\ ending' \in TurnEnds \cup {"none"}
           /\ batch' \in Seq(Messages) /\ pc' \in Stages
<1>1. turn \in Nat /\ trace \in Traces({}) BY DEF TypeOK
<1>2. trace' \in Traces({}) BY <1>1, TurnEndEffect DEF CloseTurn, Log
<1>3. wellFormed' \in BOOLEAN BY DEF CloseTurn, Log, TypeOK
<1>4. batch' \in Seq(Messages) BY EmptySeq DEF CloseTurn
<1> QED BY <1>2, <1>3, <1>4 DEF CloseTurn

\* Claiming moves messages from the inbox to the batch.
LEMMA ClaimTyped ==
    ASSUME TypeOK, Claim
    PROVE  /\ batch' \in Seq(Messages) /\ nextTurn' \in Seq(Messages)
           /\ nextStep' \in Seq(Messages) /\ pc' \in Stages
<1>1. nextTurn \in Seq(Messages) /\ nextStep \in Seq(Messages) BY DEF TypeOK
<1>2. Prompts \in Nat /\ Prompts <= Len(nextTurn)
  BY <1>1, EmptySeq, LenProperties DEF Prompts
<1>3. SubSeq(nextTurn, 1, Prompts) \in Seq(Messages)
  BY <1>1, <1>2, LenProperties, SubSeqProperties
<1>4. SubSeq(nextTurn, Prompts + 1, Len(nextTurn)) \in Seq(Messages)
  BY <1>1, <1>2, LenProperties, SubSeqProperties
<1>5. nextStep \o SubSeq(nextTurn, 1, Prompts) \in Seq(Messages)
  BY <1>1, <1>3, ConcatProperties
<1> QED BY <1>4, <1>5, EmptySeq DEF Claim, Stages

\* Removing a message from a queue leaves a queue.
LEMMA RemoveAtTyped ==
    ASSUME NEW S, NEW q \in Seq(S), NEW i \in 1..Len(q)
    PROVE  RemoveAt(q, i) \in Seq(S)
<1>1. Len(q) \in Nat /\ \A j \in 1..Len(q) : q[j] \in S BY LenProperties
<1>2. SubSeq(q, 1, i - 1) \in Seq(S) BY <1>1, SubSeqProperties
<1>3. SubSeq(q, i + 1, Len(q)) \in Seq(S) BY <1>1, SubSeqProperties
<1> QED BY <1>2, <1>3, ConcatProperties DEF RemoveAt

\* Cancelling, by a user or a disposal, keeps the types.
LEMMA CancelTyped ==
    ASSUME TypeOK, NEW cause \in {"user", "disposed"}, NEW keepInbox \in BOOLEAN,
           Cancel(cause, keepInbox), disposal' \in {"live", "stopping", "done"}
    PROVE  TypeOK'
<1>1. wakeRequested' \in BOOLEAN BY DEF TypeOK, Cancel
<1>2. reason' \in {"none", "user", "disposed"} BY DEF TypeOK, Cancel, Abort
<1>3. nextTurn' \in Seq(Messages) /\ nextStep' \in Seq(Messages)
  BY EmptySeq DEF TypeOK, Cancel
<1> QED BY <1>1, <1>2, <1>3 DEF TypeOK, Cancel, driver, log

\* Waking the driver, or latching the wake, keeps the types.
LEMMA WakeDriverTyped ==
    ASSUME TypeOK, NEW afterAbort \in BOOLEAN, WakeDriver(afterAbort)
    PROVE  /\ wakeRequested' \in BOOLEAN /\ kind' \in {"idle", "maintenance", "running"}
           /\ step' \in Nat /\ pc' \in Stages
<1>1. wakeRequested' \in BOOLEAN BY DEF TypeOK, WakeDriver, Latches
<1>2. kind' \in {"idle", "maintenance", "running"} /\ step' \in Nat /\ pc' \in Stages
  BY DEF TypeOK, WakeDriver, Stages
<1> QED BY <1>1, <1>2

\* The initial state has its type.
LEMMA TypeInit == Init => TypeOK
<1> SUFFICES ASSUME Init PROVE TypeOK OBVIOUS
<1>1. nextTurn \in Seq(Messages)
  <2>1. CASE nextTurn = <<>> BY <2>1, EmptySeq
  <2>2. ASSUME NEW m \in Messages, nextTurn = <<m>> PROVE nextTurn \in Seq(Messages)
    <3>1. <<m>> \in Seq(Messages) OBVIOUS
    <3> QED BY <2>2, <3>1
  <2> QED BY <2>1, <2>2 DEF Init
<1>2. trace \in Traces({})
  <2>1. LastTurn + 1 \in Nat BY BoundsAssumption
  <2> QED BY <2>1 DEF Init, ClosedAfter, Traces, Null
<1>3. sent \in [Messages -> {"no", "live", "other"}] BY DEF Init
<1>4. /\ nextStep \in Seq(Messages) /\ batch \in Seq(Messages) /\ entered \in Seq(Messages)
  BY EmptySeq DEF Init
<1> QED BY <1>1, <1>2, <1>3, <1>4, BoundsAssumption DEF Init, TypeOK, Stages

\* Types are kept by every step.
LEMMA TypeStep ==
    ASSUME TypeOK, StoppingHasEnding, [Next]_vars
    PROVE  TypeOK'
<1> USE DEF TypeOK, Stages, StepEnds, TurnEnds, phase, inbox, driver, log, Active, Aborted, HasPending
<1>1. ASSUME NEW m \in Messages, NEW target \in Targets, NEW wakeup \in BOOLEAN,
             Send(m, target, wakeup)
      PROVE  TypeOK'
  <2>1. nextTurn' \in Seq(Messages) /\ nextStep' \in Seq(Messages)
    <3>1. Append(nextTurn, m) \in Seq(Messages) /\ Append(nextStep, m) \in Seq(Messages)
      BY AppendProperties
    <3> QED BY <1>1, <3>1 DEF Send
  <2>2. sent' \in [Messages -> {"no", "live", "other"}] BY <1>1 DEF Send
  <2> QED BY <1>1, <2>1, <2>2 DEF Send
<1>2. CASE WakeAfterSend
  <2> DEFINE afterAbort == waking = "afterAbort"
  <2>1. WakeDriver(afterAbort) /\ afterAbort \in BOOLEAN BY <1>2 DEF WakeAfterSend
  <2> HIDE DEF afterAbort
  <2>2. /\ wakeRequested' \in BOOLEAN /\ kind' \in {"idle", "maintenance", "running"}
        /\ step' \in Nat /\ pc' \in Stages
    BY <2>1, WakeDriverTyped
  <2> QED BY <1>2, <2>2 DEF WakeAfterSend
<1>3. CASE RemovePending
  BY <1>3, RemoveAtTyped DEF RemovePending
<1>4. ASSUME NEW keepInbox \in BOOLEAN, CancelByUser(keepInbox) PROVE TypeOK'
  BY <1>4, CancelTyped DEF CancelByUser
<1>5. CASE Dispose
  BY <1>5, CancelTyped DEF Dispose
<1>6. CASE Disposed BY <1>6 DEF Disposed
<1>7. CASE StartMaintenance BY <1>7 DEF StartMaintenance
<1>8. CASE EndMaintenance
  <2>1. /\ reason' = "none" /\ wakeRequested' = FALSE
        /\ UNCHANGED <<turn, step, inbox, batch, turnEnds, stepEnd, waking, replay, log, disposal>>
    BY <1>8 DEF EndMaintenance
  <2>2. kind' \in {"idle", "running"} /\ pc' \in Stages BY <1>8 DEF EndMaintenance
  <2>3. reason' \in {"none", "user", "disposed"} /\ wakeRequested' \in BOOLEAN BY <2>1
  <2>4. /\ trace' \in Traces({}) /\ wellFormed' \in BOOLEAN /\ ending' \in TurnEnds \cup {"none"}
        /\ entered' \in Seq(Messages) /\ hitCeiling' \in BOOLEAN
    BY <2>1
  <2>5. /\ turnEnds' \in StepEnds \cup {"null"} /\ stepEnd' \in StepEnds \cup {"null", "threw"}
        /\ nextTurn' \in Seq(Messages) /\ nextStep' \in Seq(Messages)
        /\ batch' \in Seq(Messages) /\ sent' \in [Messages -> {"no", "live", "other"}]
    BY <2>1
  <2> QED BY <2>1, <2>2, <2>3, <2>4, <2>5
<1>9. CASE OpenTurn
  <2>1. turn + 1 \in Nat OBVIOUS
  <2>2. CASE Aborted BY <1>9, <2>2 DEF OpenTurn
  <2>3. CASE ~Aborted
    <3>1. trace' = Advance(trace, TurnStart(turn + 1)) /\ wellFormed' \in BOOLEAN
      BY <1>9, <2>3 DEF OpenTurn, Log
    <3>2. trace' \in Traces({}) BY <2>1, <3>1, TurnStartEffect
    <3> QED BY <1>9, <2>1, <2>3, <3>1, <3>2 DEF OpenTurn
  <2> QED BY <2>2, <2>3
<1>10. CASE ProposeFirstStep
  BY <1>10, CloseTyped, ClaimTyped DEF ProposeFirstStep
<1>11. CASE PreStepFails
  <2>1. Failure \in TurnEnds BY DEF Failure
  <2> QED BY <1>11, <2>1, CloseTyped DEF PreStepFails
<1>12. CASE PreStepRejects BY <1>12, CloseTyped DEF PreStepRejects
<1>13. ASSUME NEW kept \in {batch, <<>>}, NEW context \in BOOLEAN, PreStepEnters(kept, context)
       PROVE  TypeOK'
  <2>1. kept \in Seq(Messages) BY EmptySeq
  <2>2. CASE kept = <<>> /\ ~context /\ EndsEmpty
    BY <1>13, <2>2, CloseTyped DEF PreStepEnters
  <2>3. CASE ~(kept = <<>> /\ ~context /\ EndsEmpty)
    <3>1. step + 1 \in Nat OBVIOUS
    <3>2. trace' = Advance(trace, StepStart(turn, step + 1)) /\ wellFormed' \in BOOLEAN
      BY <1>13, <2>3 DEF PreStepEnters, Log
    <3>3. trace' \in Traces({}) BY <3>1, <3>2, StepStartEffect
    <3> QED BY <1>13, <2>1, <2>3, <3>1, <3>2, <3>3 DEF PreStepEnters
  <2> QED BY <2>2, <2>3
<1>14. CASE EnterMessages
  <2>1. entered' \in Seq(Messages) /\ batch' \in Seq(Messages)
    BY <1>14, ConcatProperties, EmptySeq DEF EnterMessages
  <2>2. trace' \in Traces({}) /\ wellFormed' \in BOOLEAN
    <3>1. Advance(trace, StepEnd(turn, step)) \in Traces({}) BY StepEndEffect
    <3> QED BY <1>14, <3>1 DEF EnterMessages, EndStep, Log
  <2> QED BY <1>14, <2>1, <2>2 DEF EnterMessages, EndStep
<1>15. ASSUME NEW r \in StepEnds \cup {"null", "threw"}, StepSettles(r) PROVE TypeOK'
  <2>1. trace' \in Traces({}) /\ wellFormed' \in BOOLEAN
    BY <1>15, StepEndEffect DEF StepSettles, EndStep, Log
  <2> QED BY <1>15, <2>1 DEF StepSettles, EndStep, Settled
<1>16. CASE AfterStep
  <2>1. Failure \in TurnEnds BY DEF Failure
  <2> QED BY <1>16, <2>1, CloseTyped, ClaimTyped DEF AfterStep
<1>17. CASE StoppingFails
  <2>1. Failure \in TurnEnds BY DEF Failure
  <2> QED BY <1>17, <2>1, CloseTyped DEF StoppingFails
<1>18. CASE Stopped
  <2>1. turnEnds \in TurnEnds BY <1>18 DEF Stopped, At, StoppingHasEnding
  <2> QED BY <1>18, <2>1, CloseTyped, ClaimTyped DEF Stopped
<1>19. CASE AfterTurn
  <2>1. wakeRequested' \in BOOLEAN /\ reason' \in {"none", "user", "disposed"}
    BY <1>19 DEF AfterTurn, FreshController
  <2>2. step' \in Nat /\ pc' \in Stages BY <1>19 DEF AfterTurn
  <2> QED BY <1>19, <2>1, <2>2 DEF AfterTurn
<1>20. CASE Converge
  <2>1. wakeRequested' \in BOOLEAN BY <1>20 DEF Converge
  <2>2. replay' \in BOOLEAN BY <1>20 DEF Converge, Latched
  <2> QED BY <1>20, <2>1, <2>2 DEF Converge
<1>21. CASE Replay
  <2>1. WakeDriver(FALSE) \/ UNCHANGED <<kind, step, pc, wakeRequested>>
    BY <1>21 DEF Replay
  <2>2. /\ wakeRequested' \in BOOLEAN /\ kind' \in {"idle", "maintenance", "running"}
        /\ step' \in Nat /\ pc' \in Stages
    <3>1. CASE WakeDriver(FALSE) BY <3>1, WakeDriverTyped
    <3>2. CASE UNCHANGED <<kind, step, pc, wakeRequested>> BY <3>2
    <3> QED BY <2>1, <3>1, <3>2
  <2>3. /\ replay' = FALSE
        /\ UNCHANGED <<turn, reason, inbox, batch, turnEnds, stepEnd, waking, log, disposal>>
    BY <1>21 DEF Replay
  <2>4. /\ trace' \in Traces({}) /\ wellFormed' \in BOOLEAN /\ ending' \in TurnEnds \cup {"none"}
        /\ entered' \in Seq(Messages) /\ hitCeiling' \in BOOLEAN
    BY <2>3
  <2>5. /\ turnEnds' \in StepEnds \cup {"null"} /\ stepEnd' \in StepEnds \cup {"null", "threw"}
        /\ nextTurn' \in Seq(Messages) /\ nextStep' \in Seq(Messages)
        /\ batch' \in Seq(Messages) /\ sent' \in [Messages -> {"no", "live", "other"}]
    BY <2>3
  <2> QED BY <2>2, <2>3, <2>4, <2>5
<1>22. CASE UNCHANGED vars BY <1>22 DEF vars
<1> QED
  BY <1>1, <1>2, <1>3, <1>4, <1>5, <1>6, <1>7, <1>8, <1>9, <1>10, <1>11, <1>12,
     <1>13, <1>14, <1>15, <1>16, <1>17, <1>18, <1>19, <1>20, <1>21, <1>22
  DEF Next, Driver

(***************************************************************************)
(* The driver and the log.                                                  *)
(***************************************************************************)

\* Turns and, inside a turn, steps count from 1.
TurnCounts ==
    /\ pc \notin {"none", "kick", "ended", "leaving"} => turn # 0
    /\ pc \in {"none", "kick"} => step = 0

\* What the phase, the driver and the log have to do with each other.
Agreement == DriverAgrees /\ StoppingHasEnding /\ TurnCounts /\ LogWellFormed

LEMMA AgreementInit == Init => Agreement
BY DEF Init, Agreement, DriverAgrees, StoppingHasEnding, TurnCounts, LogWellFormed,
       ClosedAfter, Null, Active

\* Closing the open turn leaves the driver in a place that has none.
LEMMA CloseAgrees ==
    ASSUME TypeOK, Agreement,
           pc \in {"opened", "preparing", "stepped", "stopping"},
           NEW r, NEW next \in {"ended", "leaving"}, CloseTurn(r, next),
           UNCHANGED <<kind, turn, step, reason, wakeRequested>>
    PROVE  Agreement'
<1>1. turn \in Nat /\ trace \in Traces({}) /\ wellFormed BY DEF TypeOK, Agreement, LogWellFormed
<1>2. /\ trace.openTurn = turn /\ turn # Null /\ trace.openStep = Null
      /\ trace.nextTurn = turn /\ kind = "running"
  BY DEF Agreement, DriverAgrees, TurnCounts, Null, TypeOK
<1>3. trace' = Advance(trace, TurnEnd(turn)) /\ wellFormed' = (wellFormed /\ Valid(trace, TurnEnd(turn)))
  BY DEF CloseTurn, Log
<1>4. /\ trace'.openTurn = Null /\ trace'.openStep = Null /\ trace'.nextTurn = turn + 1
      /\ Valid(trace, TurnEnd(turn))
  <2> HIDE DEF Null
  <2>1. LET a == Advance(trace, TurnEnd(turn))
        IN  /\ Valid(trace, TurnEnd(turn)) <=> (trace.openTurn = turn /\ trace.openStep = Null)
            /\ a.openTurn = Null /\ a.openStep = trace.openStep
            /\ a.nextTurn = trace.nextTurn + 1
    BY <1>1, TurnEndEffect
  <2> QED BY <1>2, <1>3, <2>1
<1>5. pc' \in {"ended", "leaving"} BY DEF CloseTurn
<1> QED
  BY <1>1, <1>2, <1>3, <1>4, <1>5
  DEF Agreement, DriverAgrees, StoppingHasEnding, TurnCounts, LogWellFormed, Active

\* Claiming changes neither the log nor the phase.
LEMMA ClaimAgrees ==
    ASSUME TypeOK, Agreement, pc \in {"opened", "stepped", "stopping"}, Claim,
           UNCHANGED <<kind, turn, step, reason, wakeRequested, trace, wellFormed>>
    PROVE  Agreement'
BY DEF Agreement, DriverAgrees, StoppingHasEnding, TurnCounts, LogWellFormed, Active, Claim

\* The end of a step closes it in the log.
LEMMA EndStepAgrees ==
    ASSUME TypeOK, Agreement, pc \in {"entering", "stepping"}, NEW r, EndStep(r),
           UNCHANGED <<kind, turn, step, reason, wakeRequested>>
    PROVE  Agreement'
<1>1. turn \in Nat /\ step \in Nat /\ trace \in Traces({}) /\ wellFormed
  BY DEF TypeOK, Agreement, LogWellFormed
<1>2. /\ trace.openTurn = turn /\ turn # Null /\ trace.openStep = step
      /\ trace.nextTurn = turn /\ trace.nextStep = step /\ kind = "running"
  BY DEF Agreement, DriverAgrees, TurnCounts, Null, TypeOK
<1>3. /\ trace' = Advance(trace, StepEnd(turn, step))
      /\ wellFormed' = (wellFormed /\ Valid(trace, StepEnd(turn, step)))
  BY DEF EndStep, Log
<1>4. /\ trace'.openTurn = turn /\ trace'.openStep = Null /\ trace'.nextTurn = turn
      /\ trace'.nextStep = step + 1 /\ Valid(trace, StepEnd(turn, step))
  <2>1. LET a == Advance(trace, StepEnd(turn, step))
        IN  /\ Valid(trace, StepEnd(turn, step)) <=> (trace.openTurn = turn /\ trace.openStep = step)
            /\ a.openTurn = trace.openTurn /\ a.openStep = Null
            /\ a.nextTurn = trace.nextTurn /\ a.nextStep = trace.nextStep + 1
    BY <1>1, StepEndEffect
  <2> QED BY <1>2, <1>3, <2>1
<1>5. pc' = "stepped" BY DEF EndStep
<1> QED
  BY <1>1, <1>2, <1>3, <1>4, <1>5
  DEF Agreement, DriverAgrees, StoppingHasEnding, TurnCounts, LogWellFormed, Active, Null

\* The agreement, and with it the legality of the log, is kept by every step.
LEMMA AgreementStep ==
    ASSUME TypeOK, Agreement, [Next]_vars
    PROVE  Agreement'
<1> USE DEF Agreement, DriverAgrees, StoppingHasEnding, TurnCounts, LogWellFormed, Active,
            phase, inbox, driver, log
<1>1. ASSUME NEW m \in Messages, NEW target \in Targets, NEW wakeup \in BOOLEAN,
             Send(m, target, wakeup)
      PROVE  Agreement'
  BY <1>1 DEF Send
<1>2. CASE WakeAfterSend
  BY <1>2 DEF WakeAfterSend, WakeDriver
<1>3. CASE RemovePending BY <1>3 DEF RemovePending
<1>4. ASSUME NEW keepInbox \in BOOLEAN, CancelByUser(keepInbox) PROVE Agreement'
  BY <1>4 DEF CancelByUser, Cancel, Abort
<1>5. CASE Dispose BY <1>5 DEF Dispose, Cancel, Abort
<1>6. CASE Disposed BY <1>6 DEF Disposed
<1>7. CASE StartMaintenance BY <1>7 DEF StartMaintenance
<1>8. CASE EndMaintenance BY <1>8 DEF EndMaintenance
<1>9. CASE OpenTurn
  <2>1. CASE Aborted BY <1>9, <2>1 DEF OpenTurn, At
  <2>2. CASE ~Aborted
    <3>1. turn + 1 \in Nat /\ turn + 1 # 0 /\ trace \in Traces({}) BY DEF TypeOK
    <3>2. LET a == Advance(trace, TurnStart(turn + 1))
          IN  /\ Valid(trace, TurnStart(turn + 1)) <=>
                   (trace.openTurn = Null /\ turn + 1 = trace.nextTurn)
              /\ a.openTurn = turn + 1 /\ a.openStep = trace.openStep
              /\ a.nextTurn = trace.nextTurn /\ a.nextStep = 1
      BY <3>1, TurnStartEffect
    <3>3. /\ trace' = Advance(trace, TurnStart(turn + 1))
          /\ wellFormed' = (wellFormed /\ Valid(trace, TurnStart(turn + 1)))
          /\ turn' = turn + 1 /\ pc' = "opened" /\ pc = "kick"
          /\ UNCHANGED <<kind, step, reason, wakeRequested>>
      BY <1>9, <2>2 DEF OpenTurn, Log, At
    <3>4. /\ trace'.openTurn = turn' /\ trace'.openStep = Null /\ trace'.nextTurn = turn'
          /\ trace'.nextStep = 1 /\ Valid(trace, TurnStart(turn + 1))
      BY <3>2, <3>3 DEF Null
    <3>5. step = 0 BY <3>3
    <3>6. turn' # 0 /\ wellFormed' BY <3>1, <3>3, <3>4
    <3>7. kind = "running" BY <3>3
    <3> QED BY <3>3, <3>4, <3>5, <3>6, <3>7 DEF Null
  <2> QED BY <2>1, <2>2
<1>10. CASE ProposeFirstStep
  BY <1>10, CloseAgrees, ClaimAgrees DEF ProposeFirstStep, At
<1>11. CASE PreStepFails BY <1>11, CloseAgrees DEF PreStepFails, At
<1>12. CASE PreStepRejects BY <1>12, CloseAgrees DEF PreStepRejects, At
<1>13. ASSUME NEW kept \in {batch, <<>>}, NEW context \in BOOLEAN, PreStepEnters(kept, context)
       PROVE  Agreement'
  <2>1. CASE kept = <<>> /\ ~context /\ EndsEmpty
    BY <1>13, <2>1, CloseAgrees DEF PreStepEnters, At
  <2>2. CASE ~(kept = <<>> /\ ~context /\ EndsEmpty)
    <3>1. turn \in Nat /\ step + 1 \in Nat /\ trace \in Traces({}) BY DEF TypeOK
    <3>2. LET a == Advance(trace, StepStart(turn, step + 1))
          IN  /\ Valid(trace, StepStart(turn, step + 1)) <=>
                   (trace.openTurn = turn /\ trace.openStep = Null /\ step + 1 = trace.nextStep)
              /\ a.openTurn = trace.openTurn /\ a.openStep = step + 1
              /\ a.nextTurn = trace.nextTurn /\ a.nextStep = trace.nextStep
      BY <3>1 DEF Advance, Valid, StepStart, Traces
    <3>3. /\ trace' = Advance(trace, StepStart(turn, step + 1))
          /\ wellFormed' = (wellFormed /\ Valid(trace, StepStart(turn, step + 1)))
          /\ step' = step + 1 /\ pc' = "entering" /\ pc = "preparing"
          /\ UNCHANGED <<kind, turn, reason, wakeRequested>>
      BY <1>13, <2>2 DEF PreStepEnters, Log, At
    <3> QED BY <3>1, <3>2, <3>3 DEF Null
  <2> QED BY <2>1, <2>2
<1>14. CASE EnterMessages
  <2>1. CASE Aborted BY <1>14, <2>1, EndStepAgrees DEF EnterMessages, At
  <2>2. CASE ~Aborted BY <1>14, <2>2 DEF EnterMessages, At
  <2> QED BY <2>1, <2>2
<1>15. ASSUME NEW r \in StepEnds \cup {"null", "threw"}, StepSettles(r) PROVE Agreement'
  BY <1>15, EndStepAgrees DEF StepSettles, At
<1>16. CASE AfterStep
  <2>1. CASE stepEnd = "threw" \/ Aborted
    BY <1>16, <2>1, CloseAgrees DEF AfterStep, At
  <2>2. CASE ~(stepEnd = "threw" \/ Aborted)
    <3>1. CASE turnEnds # "null" /\ nextStep = <<>>
      BY <1>16, <2>2, <3>1 DEF AfterStep, At
    <3>2. CASE ~(turnEnds # "null" /\ nextStep = <<>>)
      BY <1>16, <2>2, <3>2, ClaimAgrees DEF AfterStep, At
    <3> QED BY <3>1, <3>2
  <2> QED BY <2>1, <2>2
<1>17. CASE StoppingFails BY <1>17, CloseAgrees DEF StoppingFails, At
<1>18. CASE Stopped
  <2>1. CASE nextStep = <<>> BY <1>18, <2>1, CloseAgrees DEF Stopped, At
  <2>2. CASE nextStep # <<>> BY <1>18, <2>2, ClaimAgrees DEF Stopped, At
  <2> QED BY <2>1, <2>2
<1>19. CASE AfterTurn BY <1>19 DEF AfterTurn, FreshController, At
<1>20. CASE Converge BY <1>20 DEF Converge, At
<1>21. CASE Replay BY <1>21 DEF Replay, WakeDriver
<1>22. CASE UNCHANGED vars BY <1>22 DEF vars
<1> QED
  BY <1>1, <1>2, <1>3, <1>4, <1>5, <1>6, <1>7, <1>8, <1>9, <1>10, <1>11, <1>12,
     <1>13, <1>14, <1>15, <1>16, <1>17, <1>18, <1>19, <1>20, <1>21, <1>22
  DEF Next, Driver

(***************************************************************************)
(* The latch and the ceiling.                                               *)
(***************************************************************************)

\* The latch of a running driver stays behind an abort.
LEMMA LatchStep ==
    ASSUME TypeOK, Agreement, LatchBehindAbort, WakeAgrees, [Next]_vars
    PROVE  LatchBehindAbort' /\ WakeAgrees'
<1> USE DEF LatchBehindAbort, WakeAgrees, Active, Aborted, phase, inbox, driver, log
<1>1. ASSUME NEW m \in Messages, NEW target \in Targets, NEW wakeup \in BOOLEAN,
             Send(m, target, wakeup)
      PROVE  LatchBehindAbort' /\ WakeAgrees'
  BY <1>1 DEF Send
<1>2. CASE WakeAfterSend
  <2>1. ~Active => ~wakeRequested BY DEF Agreement, DriverAgrees
  <2>2. reason \in {"none", "user", "disposed"} BY DEF TypeOK
  <2> QED BY <1>2, <2>1, <2>2 DEF WakeAfterSend, WakeDriver, Latches
<1>3. CASE RemovePending BY <1>3 DEF RemovePending
<1>4. ASSUME NEW keepInbox \in BOOLEAN, CancelByUser(keepInbox)
      PROVE  LatchBehindAbort' /\ WakeAgrees'
  BY <1>4 DEF CancelByUser, Cancel, Abort
<1>5. CASE Dispose BY <1>5 DEF Dispose, Cancel, Abort
<1>6. CASE Disposed BY <1>6 DEF Disposed
<1>7. CASE StartMaintenance BY <1>7 DEF StartMaintenance
<1>8. CASE EndMaintenance BY <1>8 DEF EndMaintenance
<1>9. CASE OpenTurn BY <1>9 DEF OpenTurn
<1>10. CASE ProposeFirstStep BY <1>10 DEF ProposeFirstStep
<1>11. CASE PreStepFails BY <1>11 DEF PreStepFails
<1>12. CASE PreStepRejects BY <1>12 DEF PreStepRejects
<1>13. ASSUME NEW kept \in {batch, <<>>}, NEW context \in BOOLEAN, PreStepEnters(kept, context)
       PROVE  LatchBehindAbort' /\ WakeAgrees'
  BY <1>13 DEF PreStepEnters
<1>14. CASE EnterMessages BY <1>14 DEF EnterMessages
<1>15. ASSUME NEW r \in StepEnds \cup {"null", "threw"}, StepSettles(r)
       PROVE  LatchBehindAbort' /\ WakeAgrees'
  BY <1>15 DEF StepSettles
<1>16. CASE AfterStep BY <1>16 DEF AfterStep
<1>17. CASE StoppingFails BY <1>17 DEF StoppingFails
<1>18. CASE Stopped BY <1>18 DEF Stopped
<1>19. CASE AfterTurn BY <1>19 DEF AfterTurn, FreshController, At
<1>20. CASE Converge BY <1>20 DEF Converge, At
<1>21. CASE Replay
  <2>1. ~Active => ~wakeRequested BY DEF Agreement, DriverAgrees
  <2>2. CASE WakeDriver(FALSE) BY <1>21, <2>1, <2>2 DEF Replay, WakeDriver, Latches
  <2>3. CASE UNCHANGED <<kind, step, pc, wakeRequested>> BY <1>21, <2>3 DEF Replay
  <2> QED BY <1>21, <2>2, <2>3 DEF Replay
<1>22. CASE UNCHANGED vars BY <1>22 DEF vars
<1> QED
  BY <1>1, <1>2, <1>3, <1>4, <1>5, <1>6, <1>7, <1>8, <1>9, <1>10, <1>11, <1>12,
     <1>13, <1>14, <1>15, <1>16, <1>17, <1>18, <1>19, <1>20, <1>21, <1>22
  DEF Next, Driver

\* Closing a turn leaves none open, and no step.
LEMMA CloseEffect ==
    ASSUME TypeOK, NEW r, NEW next, CloseTurn(r, next)
    PROVE  trace'.openTurn = Null /\ trace'.openStep = trace.openStep /\ ending' = r
<1>1. trace' = Advance(trace, TurnEnd(turn)) BY DEF CloseTurn, Log
<1>2. trace \in Traces({}) /\ turn \in Nat BY DEF TypeOK
<1>3. LET a == Advance(trace, TurnEnd(turn)) IN a.openTurn = Null /\ a.openStep = trace.openStep
  BY <1>2, TurnEndEffect
<1> QED BY <1>1, <1>3 DEF CloseTurn

\* The end of a step leaves its turn open.
LEMMA EndStepEffect ==
    ASSUME TypeOK, NEW r, EndStep(r)
    PROVE  trace'.openTurn = trace.openTurn /\ trace'.openStep = Null
<1>1. trace' = Advance(trace, StepEnd(turn, step)) BY DEF EndStep, Log
<1>2. trace \in Traces({}) /\ turn \in Nat /\ step \in Nat BY DEF TypeOK
<1>3. LET a == Advance(trace, StepEnd(turn, step))
      IN  a.openTurn = trace.openTurn /\ a.openStep = Null
  BY <1>2, StepEndEffect
<1> QED BY <1>1, <1>3

\* What a step of the driver may do to the ending of a turn.
CeilingHeld == CeilingKept' /\ (TurnCloses /\ hitCeiling => ending' # "completed")

\* A close that reports a ceiling that was hit.
LEMMA CloseHoldsCeiling ==
    ASSUME TypeOK, NEW r, NEW next, CloseTurn(r, next), hitCeiling => r # "completed"
    PROVE  CeilingHeld
BY CloseEffect DEF CeilingHeld, CeilingKept, TurnCloses

\* A step that leaves the log and the ending of its turn alone.
LEMMA QuietHoldsCeiling ==
    ASSUME CeilingKept, UNCHANGED <<trace, turnEnds, hitCeiling>>
    PROVE  CeilingHeld
BY DEF CeilingHeld, CeilingKept, TurnCloses

\* The ceiling stays the turn's ending, and the turn is closed with it.
LEMMA CeilingStep ==
    ASSUME TypeOK, Agreement, CeilingKept, [Next]_vars
    PROVE  CeilingHeld
<1> USE DEF phase, inbox, driver, log
<1>1. ASSUME NEW m \in Messages, NEW target \in Targets, NEW wakeup \in BOOLEAN,
             Send(m, target, wakeup)
      PROVE  CeilingHeld
  BY <1>1, QuietHoldsCeiling DEF Send
<1>2. CASE WakeAfterSend BY <1>2, QuietHoldsCeiling DEF WakeAfterSend
<1>3. CASE RemovePending BY <1>3, QuietHoldsCeiling DEF RemovePending
<1>4. ASSUME NEW keepInbox \in BOOLEAN, CancelByUser(keepInbox) PROVE CeilingHeld
  BY <1>4, QuietHoldsCeiling DEF CancelByUser, Cancel
<1>5. CASE Dispose BY <1>5, QuietHoldsCeiling DEF Dispose, Cancel
<1>6. CASE Disposed BY <1>6, QuietHoldsCeiling DEF Disposed
<1>7. CASE StartMaintenance BY <1>7, QuietHoldsCeiling DEF StartMaintenance
<1>8. CASE EndMaintenance BY <1>8, QuietHoldsCeiling DEF EndMaintenance
<1>9. CASE OpenTurn
  <2>1. CASE Aborted BY <1>9, <2>1, QuietHoldsCeiling DEF OpenTurn
  <2>2. CASE ~Aborted
    <3>1. trace.openTurn = Null BY <1>9 DEF OpenTurn, At, Agreement, DriverAgrees
    <3> QED BY <1>9, <2>2, <3>1 DEF OpenTurn, CeilingHeld, CeilingKept, TurnCloses
  <2> QED BY <2>1, <2>2
<1>10. CASE ProposeFirstStep
  <2>1. CASE Aborted BY <1>10, <2>1, CloseHoldsCeiling DEF ProposeFirstStep
  <2>2. CASE ~Aborted BY <1>10, <2>2, QuietHoldsCeiling DEF ProposeFirstStep
  <2> QED BY <2>1, <2>2
<1>11. CASE PreStepFails BY <1>11, CloseHoldsCeiling DEF PreStepFails, Failure
<1>12. CASE PreStepRejects BY <1>12, CloseHoldsCeiling DEF PreStepRejects
<1>13. ASSUME NEW kept \in {batch, <<>>}, NEW context \in BOOLEAN, PreStepEnters(kept, context)
       PROVE  CeilingHeld
  <2>1. hitCeiling => turnEnds = "max-tokens"
    BY <1>13 DEF PreStepEnters, At, CeilingKept, Agreement, DriverAgrees, TurnCounts, Null, TypeOK
  <2>2. CASE kept = <<>> /\ ~context /\ EndsEmpty
    BY <1>13, <2>1, <2>2, CloseHoldsCeiling DEF PreStepEnters
  <2>3. CASE ~(kept = <<>> /\ ~context /\ EndsEmpty)
    <3>1. trace' = Advance(trace, StepStart(turn, step + 1))
      BY <1>13, <2>3 DEF PreStepEnters, Log
    <3>2. trace'.openTurn = trace.openTurn
      BY <3>1 DEF Advance, StepStart, Traces, TypeOK
    <3> QED BY <1>13, <2>1, <3>2 DEF PreStepEnters, CeilingHeld, CeilingKept, TurnCloses
  <2> QED BY <2>2, <2>3
<1>14. CASE EnterMessages
  <2>1. CASE Aborted
    BY <1>14, <2>1, EndStepEffect DEF EnterMessages, CeilingHeld, CeilingKept, TurnCloses
  <2>2. CASE ~Aborted BY <1>14, <2>2, QuietHoldsCeiling DEF EnterMessages
  <2> QED BY <2>1, <2>2
<1>15. ASSUME NEW r \in StepEnds \cup {"null", "threw"}, StepSettles(r) PROVE CeilingHeld
  <2>1. hitCeiling => turnEnds = "max-tokens"
    BY <1>15 DEF StepSettles, At, CeilingKept, Agreement, DriverAgrees, TurnCounts, Null, TypeOK
  <2>2. hitCeiling' => turnEnds' = "max-tokens" BY <1>15, <2>1 DEF StepSettles, Settled
  <2>3. trace'.openTurn = trace.openTurn BY <1>15, EndStepEffect DEF StepSettles
  <2> QED BY <2>2, <2>3 DEF CeilingHeld, CeilingKept, TurnCloses
<1>16. CASE AfterStep
  <2>1. CASE stepEnd = "threw" \/ Aborted
    BY <1>16, <2>1, CloseHoldsCeiling DEF AfterStep, Failure
  <2>2. CASE ~(stepEnd = "threw" \/ Aborted)
    BY <1>16, <2>2, QuietHoldsCeiling DEF AfterStep
  <2> QED BY <2>1, <2>2
<1>17. CASE StoppingFails BY <1>17, CloseHoldsCeiling DEF StoppingFails, Failure
<1>18. CASE Stopped
  <2>1. hitCeiling => turnEnds = "max-tokens"
    BY <1>18 DEF Stopped, At, CeilingKept, Agreement, DriverAgrees, TurnCounts, Null, TypeOK
  <2>2. CASE nextStep = <<>> BY <1>18, <2>1, <2>2, CloseHoldsCeiling DEF Stopped
  <2>3. CASE nextStep # <<>> BY <1>18, <2>3, QuietHoldsCeiling DEF Stopped
  <2> QED BY <2>2, <2>3
<1>19. CASE AfterTurn BY <1>19, QuietHoldsCeiling DEF AfterTurn
<1>20. CASE Converge BY <1>20, QuietHoldsCeiling DEF Converge
<1>21. CASE Replay BY <1>21, QuietHoldsCeiling DEF Replay
<1>22. CASE UNCHANGED vars BY <1>22, QuietHoldsCeiling DEF vars
<1> QED
  BY <1>1, <1>2, <1>3, <1>4, <1>5, <1>6, <1>7, <1>8, <1>9, <1>10, <1>11, <1>12,
     <1>13, <1>14, <1>15, <1>16, <1>17, <1>18, <1>19, <1>20, <1>21, <1>22
  DEF Next, Driver

\* A step that does not touch the open step of the log starts none.
LEMMA QuietStartsNone ==
    ASSUME UNCHANGED trace PROVE ~StepStarts
BY DEF StepStarts

\* Only the end of an unaborted pre-step starts a step.
LEMMA StartsUnaborted ==
    ASSUME TypeOK, [Next]_vars PROVE StepStarts => ~Aborted
<1> USE DEF phase, inbox, driver, log
<1>1. ASSUME NEW m \in Messages, NEW target \in Targets, NEW wakeup \in BOOLEAN,
             Send(m, target, wakeup)
      PROVE  ~StepStarts
  BY <1>1, QuietStartsNone DEF Send
<1>2. CASE WakeAfterSend \/ RemovePending \/ Dispose \/ Disposed \/ StartMaintenance
             \/ EndMaintenance \/ AfterTurn \/ Converge \/ Replay \/ UNCHANGED vars
  BY <1>2, QuietStartsNone
  DEF WakeAfterSend, RemovePending, Dispose, Cancel, Disposed, StartMaintenance,
      EndMaintenance, AfterTurn, Converge, Replay, vars
<1>3. ASSUME NEW keepInbox \in BOOLEAN, CancelByUser(keepInbox) PROVE ~StepStarts
  BY <1>3, QuietStartsNone DEF CancelByUser, Cancel
<1>4. CASE OpenTurn
  <2>1. CASE Aborted BY <1>4, <2>1, QuietStartsNone DEF OpenTurn
  <2>2. CASE ~Aborted BY <2>2
  <2> QED BY <2>1, <2>2
<1>5. ASSUME NEW r, NEW next, CloseTurn(r, next) PROVE ~StepStarts
  BY <1>5, CloseEffect DEF StepStarts
<1>6. ASSUME NEW r, EndStep(r) PROVE ~StepStarts
  BY <1>6, EndStepEffect DEF StepStarts
<1>7. CASE ProposeFirstStep \/ AfterStep \/ Stopped
  BY <1>5, <1>7, QuietStartsNone DEF ProposeFirstStep, AfterStep, Stopped
<1>8. CASE PreStepFails \/ PreStepRejects \/ StoppingFails
  BY <1>5, <1>8 DEF PreStepFails, PreStepRejects, StoppingFails
<1>9. ASSUME NEW kept \in {batch, <<>>}, NEW context \in BOOLEAN, PreStepEnters(kept, context)
      PROVE  ~Aborted
  BY <1>9 DEF PreStepEnters, Unaborted
<1>10. CASE EnterMessages BY <1>6, <1>10, QuietStartsNone DEF EnterMessages
<1>11. ASSUME NEW r \in StepEnds \cup {"null", "threw"}, StepSettles(r) PROVE ~StepStarts
  BY <1>6, <1>11 DEF StepSettles
<1> QED
  BY <1>1, <1>2, <1>3, <1>4, <1>7, <1>8, <1>9, <1>10, <1>11 DEF Next, Driver

(***************************************************************************)
(* One place for every message: sequences without repetition, with nothing  *)
(* in common.                                                               *)
(***************************************************************************)

Distinct(s) == \A i, j \in 1..Len(s) : s[i] = s[j] => i = j
Apart(s, t) == \A i \in 1..Len(s), j \in 1..Len(t) : s[i] # t[j]
Within(s, t) == \A i \in 1..Len(s) : \E j \in 1..Len(t) : s[i] = t[j]
Lacks(s, m) == \A i \in 1..Len(s) : s[i] # m
Accounted(s) == \A i \in 1..Len(s) : sent[s[i]] # "no"

\* The queues, the claimed batch and what was logged, each without repetition
\* and with nothing in common, of messages that were sent.
OnceEach ==
    /\ Distinct(nextTurn) /\ Distinct(nextStep) /\ Distinct(batch) /\ Distinct(entered)
    /\ Apart(nextTurn, nextStep) /\ Apart(nextTurn, batch) /\ Apart(nextTurn, entered)
    /\ Apart(nextStep, batch) /\ Apart(nextStep, entered) /\ Apart(batch, entered)
    /\ Accounted(nextTurn) /\ Accounted(nextStep) /\ Accounted(batch) /\ Accounted(entered)

\* A concatenation has the elements of both.
LEMMA ConcatOnce ==
    ASSUME NEW S, NEW s \in Seq(S), NEW t \in Seq(S)
    PROVE  /\ s \o t \in Seq(S)
           /\ Distinct(s) /\ Distinct(t) /\ Apart(s, t) => Distinct(s \o t)
           /\ \A u \in Seq(S) : Apart(s, u) /\ Apart(t, u) => Apart(s \o t, u)
           /\ \A u \in Seq(S) : Apart(u, s) /\ Apart(u, t) => Apart(u, s \o t)
           /\ Accounted(s) /\ Accounted(t) => Accounted(s \o t)
<1>1. /\ s \o t \in Seq(S) /\ Len(s \o t) = Len(s) + Len(t)
      /\ \A i \in 1..Len(s) + Len(t) :
            (s \o t)[i] = IF i <= Len(s) THEN s[i] ELSE t[i - Len(s)]
      /\ Len(s) \in Nat /\ Len(t) \in Nat
  BY ConcatProperties, LenProperties
<1>2. \A i \in 1..Len(s \o t) :
        \/ i \in 1..Len(s) /\ (s \o t)[i] = s[i]
        \/ i > Len(s) /\ i - Len(s) \in 1..Len(t) /\ (s \o t)[i] = t[i - Len(s)]
  BY <1>1
<1> DEFINE st == s \o t
<1> HIDE DEF st
<1>3. \A i \in 1..Len(st) :
        \/ i \in 1..Len(s) /\ st[i] = s[i]
        \/ i > Len(s) /\ i - Len(s) \in 1..Len(t) /\ st[i] = t[i - Len(s)]
  BY <1>2 DEF st
<1>4. Distinct(s) /\ Distinct(t) /\ Apart(s, t) => Distinct(st)
  <2> SUFFICES ASSUME Distinct(s), Distinct(t), Apart(s, t),
                      NEW i \in 1..Len(st), NEW j \in 1..Len(st), st[i] = st[j]
               PROVE  i = j
    BY DEF Distinct
  <2>1. CASE i \in 1..Len(s) /\ j \in 1..Len(s) BY <1>1, <1>3, <2>1 DEF Distinct
  <2>2. CASE i \in 1..Len(s) /\ j \notin 1..Len(s) BY <1>3, <2>2 DEF Apart
  <2>3. CASE i \notin 1..Len(s) /\ j \in 1..Len(s) BY <1>3, <2>3 DEF Apart
  <2>4. CASE i \notin 1..Len(s) /\ j \notin 1..Len(s)
    <3>1. i - Len(s) = j - Len(s) BY <1>3, <2>4 DEF Distinct
    <3> QED BY <1>1, <3>1
  <2> QED BY <2>1, <2>2, <2>3, <2>4
<1>5. \A u \in Seq(S) : Apart(s, u) /\ Apart(t, u) => Apart(st, u)
  BY <1>3 DEF Apart
<1>6. \A u \in Seq(S) : Apart(u, s) /\ Apart(u, t) => Apart(u, st)
  BY <1>3 DEF Apart
<1>7. Accounted(s) /\ Accounted(t) => Accounted(st)
  BY <1>3 DEF Accounted
<1> QED BY <1>1, <1>4, <1>5, <1>6, <1>7 DEF st

\* A section of a sequence has some of its elements.
LEMMA SubSeqOnce ==
    ASSUME NEW S, NEW s \in Seq(S), NEW m \in 1..Len(s) + 1, NEW n \in 0..Len(s)
    PROVE  /\ SubSeq(s, m, n) \in Seq(S) /\ Within(SubSeq(s, m, n), s)
           /\ Distinct(s) => Distinct(SubSeq(s, m, n))
<1>1. Len(s) \in Nat /\ \A i \in 1..Len(s) : s[i] \in S BY LenProperties
<1>2. m \in Int /\ n \in Int /\ \A i \in m..n : s[i] \in S BY <1>1
<1> DEFINE t == SubSeq(s, m, n)
<1>3. /\ t \in Seq(S) /\ Len(t) = (IF m <= n THEN n - m + 1 ELSE 0)
      /\ \A i \in 1..n - m + 1 : t[i] = s[m + i - 1]
  BY <1>2, SubSeqProperties
<1> HIDE DEF t
<1>4. \A i \in 1..Len(t) : m + i - 1 \in 1..Len(s) /\ t[i] = s[m + i - 1]
  BY <1>1, <1>3
<1>5. Within(t, s) BY <1>4 DEF Within
<1>6. Distinct(s) => Distinct(t)
  <2> SUFFICES ASSUME Distinct(s), NEW i \in 1..Len(t), NEW j \in 1..Len(t), t[i] = t[j]
               PROVE  i = j
    BY DEF Distinct
  <2>1. m + i - 1 = m + j - 1 BY <1>4 DEF Distinct
  <2> QED BY <1>1, <1>3, <2>1
<1> QED BY <1>3, <1>5, <1>6 DEF t

\* The rest of a sequence behind its first k elements.
LEMMA RestProperties ==
    ASSUME NEW S, NEW s \in Seq(S), NEW k \in 0..Len(s)
    PROVE  LET b == SubSeq(s, k + 1, Len(s))
           IN  /\ b \in Seq(S) /\ Len(b) = Len(s) - k
               /\ \A j \in 1..Len(s) - k : b[j] = s[k + j]
<1>1. Len(s) \in Nat /\ k \in Nat /\ \A i \in k + 1..Len(s) : s[i] \in S BY LenProperties
<1> DEFINE b == SubSeq(s, k + 1, Len(s))
<1>2. /\ b \in Seq(S) /\ Len(b) = IF k + 1 <= Len(s) THEN Len(s) - (k + 1) + 1 ELSE 0
      /\ \A i \in 1..Len(s) - (k + 1) + 1 : b[i] = s[(k + 1) + i - 1]
  BY <1>1, SubSeqProperties
<1> HIDE DEF b
<1>3. Len(b) = Len(s) - k BY <1>1, <1>2
<1>4. ASSUME NEW j \in 1..Len(s) - k PROVE b[j] = s[k + j]
  <2>1. j \in 1..Len(s) - (k + 1) + 1 /\ (k + 1) + j - 1 = k + j BY <1>1
  <2> QED BY <1>2, <2>1
<1> QED BY <1>2, <1>3, <1>4 DEF b

\* Two sections that do not overlap have nothing in common.
LEMMA SectionsApart ==
    ASSUME NEW S, NEW s \in Seq(S), NEW k \in 0..Len(s), Distinct(s)
    PROVE  /\ Apart(SubSeq(s, 1, k), SubSeq(s, k + 1, Len(s)))
           /\ Apart(SubSeq(s, k + 1, Len(s)), SubSeq(s, 1, k))
<1>1. Len(s) \in Nat /\ k \in Nat /\ \A i \in 1..Len(s) : s[i] \in S BY LenProperties
<1> DEFINE a == SubSeq(s, 1, k)
           b == SubSeq(s, k + 1, Len(s))
<1>2. Len(a) = k /\ \A i \in 1..k : a[i] = s[i]
  BY <1>1, SubSeqProperties
<1>3. Len(b) = Len(s) - k /\ \A i \in 1..Len(s) - k : b[i] = s[k + i]
  BY RestProperties
<1> HIDE DEF a, b
<1>4. Apart(a, b)
  <2> SUFFICES ASSUME NEW i \in 1..k, NEW j \in 1..Len(s) - k PROVE s[i] # s[k + j]
    BY <1>2, <1>3 DEF Apart
  <2>1. i \in 1..Len(s) /\ k + j \in 1..Len(s) /\ i # k + j BY <1>1
  <2> QED BY <2>1 DEF Distinct
<1>5. Apart(b, a) BY <1>4 DEF Apart
<1> QED BY <1>4, <1>5 DEF a, b

\* Removing an element leaves the others.
LEMMA RemoveAtOnce ==
    ASSUME NEW S, NEW s \in Seq(S), NEW i \in 1..Len(s), Distinct(s)
    PROVE  Distinct(RemoveAt(s, i)) /\ Within(RemoveAt(s, i), s)
<1>1. Len(s) \in Nat /\ \A j \in 1..Len(s) : s[j] \in S BY LenProperties
<1> DEFINE a == SubSeq(s, 1, i - 1)
           b == SubSeq(s, i + 1, Len(s))
           t == a \o b
<1>2. Len(a) = i - 1 /\ a \in Seq(S) /\ \A j \in 1..i - 1 : a[j] = s[j]
  BY <1>1, SubSeqProperties
<1>3. Len(b) = Len(s) - i /\ b \in Seq(S) /\ \A j \in 1..Len(s) - i : b[j] = s[i + j]
  <2>1. i \in 0..Len(s) BY <1>1
  <2> QED BY <2>1, RestProperties
<1> HIDE DEF a, b
<1>4. /\ Len(t) = Len(a) + Len(b)
      /\ \A j \in 1..Len(a) + Len(b) : t[j] = IF j <= Len(a) THEN a[j] ELSE b[j - Len(a)]
  BY <1>2, <1>3, ConcatProperties
<1> HIDE DEF t
<1> DEFINE place(j) == IF j < i THEN j ELSE j + 1
<1>5. \A j \in 1..Len(t) : place(j) \in 1..Len(s) /\ t[j] = s[place(j)]
  <2> SUFFICES ASSUME NEW j \in 1..Len(t) PROVE place(j) \in 1..Len(s) /\ t[j] = s[place(j)]
    OBVIOUS
  <2>1. CASE j < i BY <1>1, <1>2, <1>3, <1>4, <2>1
  <2>2. CASE ~(j < i)
    <3>1. t[j] = b[j - (i - 1)] /\ j - (i - 1) \in 1..Len(s) - i
      BY <1>1, <1>2, <1>3, <1>4, <2>2
    <3>2. b[j - (i - 1)] = s[i + (j - (i - 1))] BY <1>3, <3>1
    <3>3. i + (j - (i - 1)) = j + 1 /\ j + 1 \in 1..Len(s) BY <1>1, <3>1
    <3> QED BY <2>2, <3>1, <3>2, <3>3
  <2> QED BY <2>1, <2>2
<1>6. \A j, k \in 1..Len(t) : place(j) = place(k) => j = k
  BY <1>1, <1>2, <1>3, <1>4
<1> HIDE DEF place
<1>7. Distinct(t) BY <1>5, <1>6 DEF Distinct
<1>8. Within(t, s) BY <1>5 DEF Within
<1> QED BY <1>7, <1>8 DEF t, a, b, RemoveAt

\* A new element at the end.
LEMMA AppendOnce ==
    ASSUME NEW S, NEW s \in Seq(S), NEW m \in S, Lacks(s, m)
    PROVE  /\ Distinct(s) => Distinct(Append(s, m))
           /\ \A u \in Seq(S) : Apart(s, u) /\ Lacks(u, m) => Apart(Append(s, m), u)
           /\ \A u \in Seq(S) : Apart(u, s) /\ Lacks(u, m) => Apart(u, Append(s, m))
<1> DEFINE t == Append(s, m)
<1>1. /\ Len(t) = Len(s) + 1 /\ Len(s) \in Nat
      /\ \A i \in 1..Len(s) : t[i] = s[i] /\ t[Len(s) + 1] = m
  BY AppendProperties, LenProperties
<1>2. t[Len(s) + 1] = m BY AppendProperties
<1> HIDE DEF t
<1>3. \A i \in 1..Len(t) : (i \in 1..Len(s) /\ t[i] = s[i]) \/ (i = Len(s) + 1 /\ t[i] = m)
  BY <1>1, <1>2
<1>4. Distinct(s) => Distinct(t)
  BY <1>3 DEF Distinct, Lacks
<1>5. \A u \in Seq(S) : Apart(s, u) /\ Lacks(u, m) => Apart(t, u)
  BY <1>3 DEF Apart, Lacks
<1>6. \A u \in Seq(S) : Apart(u, s) /\ Lacks(u, m) => Apart(u, t)
  BY <1>3 DEF Apart, Lacks
<1> QED BY <1>4, <1>5, <1>6 DEF t

\* What lies within a sequence has nothing in common with what that has not.
LEMMA WithinOnce ==
    ASSUME NEW s, NEW t, Within(s, t)
    PROVE  /\ \A u : Apart(t, u) => Apart(s, u)
           /\ \A u : Apart(u, t) => Apart(u, s)
           /\ Accounted(t) => Accounted(s)
BY DEF Within, Apart, Accounted

LEMMA WithinSelf == \A s : Within(s, s)
BY DEF Within

LEMMA EmptyOnce ==
    /\ Distinct(<<>>) /\ Accounted(<<>>)
    /\ \A s : Within(<<>>, s) /\ Apart(<<>>, s) /\ Apart(s, <<>>)
<1>1. Len(<<>>) = 0 BY EmptySeq
<1>2. \A i \in 1..0 : FALSE OBVIOUS
<1> QED BY <1>1, <1>2 DEF Distinct, Accounted, Within, Apart

\* A step that only takes messages out of the inbox or the batch.
LEMMA DropsKeepOnce ==
    ASSUME OnceEach, UNCHANGED <<sent, entered>>,
           Within(nextTurn', nextTurn), Within(nextStep', nextStep), Within(batch', batch),
           Distinct(nextTurn'), Distinct(nextStep'), Distinct(batch')
    PROVE  OnceEach'
<1> DEFINE t == nextTurn'
           s == nextStep'
           b == batch'
<1>1. /\ Within(t, nextTurn) /\ Within(s, nextStep) /\ Within(b, batch)
      /\ Distinct(t) /\ Distinct(s) /\ Distinct(b)
  OBVIOUS
<1> HIDE DEF t, s, b
<1>2. Apart(t, s) BY <1>1, WithinOnce DEF OnceEach
<1>3. Apart(t, b) BY <1>1, WithinOnce DEF OnceEach
<1>4. Apart(s, b) BY <1>1, WithinOnce DEF OnceEach
<1>5. Apart(t, entered) /\ Apart(s, entered) /\ Apart(b, entered)
  BY <1>1, WithinOnce DEF OnceEach
<1>6. Accounted(t) /\ Accounted(s) /\ Accounted(b) BY <1>1, WithinOnce DEF OnceEach
<1> QED BY <1>1, <1>2, <1>3, <1>4, <1>5, <1>6 DEF OnceEach, Accounted, t, s, b

\* A step that leaves the messages where they are.
LEMMA StaysKeepOnce ==
    ASSUME OnceEach, UNCHANGED <<inbox, batch, entered>>
    PROVE  OnceEach'
BY DEF OnceEach, Accounted, inbox

\* Claiming moves what it takes.
LEMMA ClaimKeepsOnce ==
    ASSUME TypeOK, OnceEach, Claim, UNCHANGED <<sent, entered>>
    PROVE  OnceEach'
<1>1. /\ nextTurn \in Seq(Messages) /\ nextStep \in Seq(Messages)
      /\ entered \in Seq(Messages)
  BY DEF TypeOK
<1>2. Prompts \in 0..Len(nextTurn) /\ Len(nextTurn) \in Nat
  BY <1>1, EmptySeq, LenProperties DEF Prompts
<1> DEFINE p == SubSeq(nextTurn, 1, Prompts)
           r == SubSeq(nextTurn, Prompts + 1, Len(nextTurn))
<1>3. Distinct(nextTurn) BY DEF OnceEach
<1>4. p \in Seq(Messages) /\ Within(p, nextTurn) /\ Distinct(p)
  <2>1. 1 \in 1..Len(nextTurn) + 1 BY <1>2
  <2> QED BY <1>1, <1>2, <1>3, <2>1, SubSeqOnce
<1>5. r \in Seq(Messages) /\ Within(r, nextTurn) /\ Distinct(r)
  <2>1. Prompts + 1 \in 1..Len(nextTurn) + 1 /\ Len(nextTurn) \in 0..Len(nextTurn) BY <1>2
  <2> QED BY <1>1, <1>3, <2>1, SubSeqOnce
<1>6. Apart(p, r) /\ Apart(r, p) BY <1>1, <1>2, <1>3, SectionsApart
<1>7. batch' = nextStep \o p /\ nextTurn' = r /\ nextStep' = <<>> BY DEF Claim
<1> HIDE DEF p, r
<1>8. Apart(p, nextStep) /\ Apart(p, entered) /\ Accounted(p)
  BY <1>4, WithinOnce DEF OnceEach
<1>9. Apart(r, nextStep) /\ Apart(r, entered) /\ Accounted(r)
  BY <1>5, WithinOnce DEF OnceEach
<1>10. Apart(nextStep, p) BY <1>8 DEF Apart
<1> DEFINE b == nextStep \o p
<1>11. b \in Seq(Messages) /\ Distinct(b) /\ Accounted(b)
  BY <1>1, <1>4, <1>8, <1>10, ConcatOnce DEF OnceEach
<1>12. Apart(b, entered)
  BY <1>1, <1>4, <1>8, ConcatOnce DEF OnceEach
<1>13. Apart(r, b)
  BY <1>1, <1>4, <1>5, <1>6, <1>9, ConcatOnce
<1> HIDE DEF b
<1>14. nextTurn' = r /\ batch' = b /\ nextStep' = <<>> BY <1>7 DEF b
<1> QED
  BY <1>5, <1>9, <1>11, <1>12, <1>13, <1>14, EmptyOnce DEF OnceEach, Accounted

\* Sending a message that was not sent puts it in one of the queues.
LEMMA SendKeepsOnce ==
    ASSUME TypeOK, OnceEach, NEW m \in Messages, NEW target, NEW wakeup,
           Send(m, target, wakeup)
    PROVE  OnceEach'
<1>1. /\ nextTurn \in Seq(Messages) /\ nextStep \in Seq(Messages)
      /\ batch \in Seq(Messages) /\ entered \in Seq(Messages)
      /\ sent \in [Messages -> {"no", "live", "other"}]
  BY DEF TypeOK
<1>2. sent[m] = "no" /\ UNCHANGED <<batch, entered>> BY DEF Send, driver, log
<1>3. \A s : Accounted(s) => Lacks(s, m) BY <1>2 DEF Accounted, Lacks
<1>4. /\ Lacks(nextTurn, m) /\ Lacks(nextStep, m) /\ Lacks(batch, m) /\ Lacks(entered, m)
  BY <1>3 DEF OnceEach
<1>5. \A n \in Messages : sent'[n] = "no" => sent[n] = "no" /\ n # m
  BY <1>1 DEF Send
<1>6. \A s \in Seq(Messages) : Accounted(s) => Accounted(s)'
  <2> SUFFICES ASSUME NEW s \in Seq(Messages), Accounted(s), NEW i \in 1..Len(s)
               PROVE  sent'[s[i]] # "no"
    BY DEF Accounted
  <2>1. s[i] \in Messages BY ElementOfSeq
  <2> QED BY <1>5, <2>1 DEF Accounted
<1>7. \A s \in Seq(Messages) : Accounted(s) => \A i \in 1..Len(Append(s, m)) :
            sent'[Append(s, m)[i]] # "no"
  <2> SUFFICES ASSUME NEW s \in Seq(Messages), Accounted(s), NEW i \in 1..Len(Append(s, m))
               PROVE  sent'[Append(s, m)[i]] # "no"
    OBVIOUS
  <2>1. /\ Len(s) \in Nat /\ Len(Append(s, m)) = Len(s) + 1
        /\ \A j \in 1..Len(s) : Append(s, m)[j] = s[j] /\ Append(s, m)[Len(s) + 1] = m
    BY AppendProperties, LenProperties
  <2>2. Append(s, m)[Len(s) + 1] = m BY AppendProperties
  <2>3. CASE i \in 1..Len(s) BY <1>6, <2>1, <2>3 DEF Accounted
  <2>4. CASE i = Len(s) + 1 BY <1>5, <2>2, <2>4
  <2> QED BY <2>1, <2>3, <2>4
<1>8. CASE nextTurn' = Append(nextTurn, m) /\ nextStep' = nextStep
  <2> DEFINE t == Append(nextTurn, m)
  <2>1. /\ Distinct(t) /\ Apart(t, nextStep) /\ Apart(t, batch) /\ Apart(t, entered)
    BY <1>1, <1>4, AppendOnce DEF OnceEach
  <2>2. \A i \in 1..Len(t) : sent'[t[i]] # "no" BY <1>1, <1>7 DEF OnceEach
  <2>3. nextTurn' = t BY <1>8
  <2> HIDE DEF t
  <2>4. Accounted(nextStep)' /\ Accounted(batch)' /\ Accounted(entered)'
    BY <1>1, <1>2, <1>6, <1>8 DEF OnceEach, Accounted
  <2>5. Accounted(nextTurn)' BY <2>2, <2>3 DEF Accounted
  <2> QED BY <1>2, <1>8, <2>1, <2>3, <2>4, <2>5 DEF OnceEach
<1>9. CASE nextStep' = Append(nextStep, m) /\ nextTurn' = nextTurn
  <2> DEFINE s == Append(nextStep, m)
  <2>1. /\ Distinct(s) /\ Apart(nextTurn, s) /\ Apart(s, batch) /\ Apart(s, entered)
    BY <1>1, <1>4, AppendOnce DEF OnceEach
  <2>2. \A i \in 1..Len(s) : sent'[s[i]] # "no" BY <1>1, <1>7 DEF OnceEach
  <2>3. nextStep' = s BY <1>9
  <2> HIDE DEF s
  <2>4. Accounted(nextTurn)' /\ Accounted(batch)' /\ Accounted(entered)'
    BY <1>1, <1>2, <1>6, <1>9 DEF OnceEach, Accounted
  <2>5. Accounted(nextStep)' BY <2>2, <2>3 DEF Accounted
  <2> QED BY <1>2, <1>9, <2>1, <2>3, <2>4, <2>5 DEF OnceEach
<1> QED BY <1>8, <1>9 DEF Send

\* Entering the step logs the batch.
LEMMA EnterKeepsOnce ==
    ASSUME TypeOK, OnceEach, EnterMessages
    PROVE  OnceEach'
<1>1. batch \in Seq(Messages) /\ entered \in Seq(Messages) /\ nextTurn \in Seq(Messages)
      /\ nextStep \in Seq(Messages)
  BY DEF TypeOK
<1>2. /\ entered' = entered \o batch /\ batch' = <<>>
      /\ nextTurn' = nextTurn /\ nextStep' = nextStep /\ sent' = sent
  BY DEF EnterMessages, inbox
<1> DEFINE e == entered \o batch
<1>3. Apart(entered, batch) BY DEF OnceEach, Apart
<1>4. Distinct(e) /\ Accounted(e) BY <1>1, <1>3, ConcatOnce DEF OnceEach
<1>5. Apart(nextTurn, e) /\ Apart(nextStep, e) BY <1>1, ConcatOnce DEF OnceEach
<1> HIDE DEF e
<1>6. entered' = e BY <1>2 DEF e
<1> QED BY <1>2, <1>4, <1>5, <1>6, EmptyOnce DEF OnceEach, Accounted

\* Every step keeps every message in one place.
LEMMA OnceStep ==
    ASSUME TypeOK, OnceEach, [Next]_vars
    PROVE  OnceEach'
<1> USE DEF phase, inbox, driver, log
<1>1. ASSUME NEW m \in Messages, NEW target \in Targets, NEW wakeup \in BOOLEAN,
             Send(m, target, wakeup)
      PROVE  OnceEach'
  BY <1>1, SendKeepsOnce
<1>2. CASE RemovePending
  <2>1. /\ nextTurn \in Seq(Messages) /\ nextStep \in Seq(Messages)
        /\ Distinct(nextTurn) /\ Distinct(nextStep) /\ Distinct(batch)
    BY DEF TypeOK, OnceEach
  <2>2. /\ Within(nextTurn', nextTurn) /\ Distinct(nextTurn')
        /\ Within(nextStep', nextStep) /\ Distinct(nextStep')
    BY <1>2, <2>1, RemoveAtOnce, WithinSelf DEF RemovePending
  <2>3. UNCHANGED <<sent, entered, batch>> BY <1>2 DEF RemovePending
  <2> QED BY <2>1, <2>2, <2>3, DropsKeepOnce, WithinSelf
<1>3. ASSUME NEW cause, NEW keepInbox, Cancel(cause, keepInbox) PROVE OnceEach'
  <2>1. UNCHANGED <<sent, entered, batch>> BY <1>3 DEF Cancel
  <2>2. \/ UNCHANGED <<nextTurn, nextStep>>
        \/ nextTurn' = <<>> /\ nextStep' = <<>>
    BY <1>3 DEF Cancel
  <2> QED BY <2>1, <2>2, DropsKeepOnce, StaysKeepOnce, WithinSelf, EmptyOnce DEF OnceEach
<1>4. ASSUME UNCHANGED <<inbox, entered>>, batch' = <<>> PROVE OnceEach'
  BY <1>4, DropsKeepOnce, WithinSelf, EmptyOnce DEF OnceEach
<1>5. ASSUME NEW r, NEW next, CloseTurn(r, next), UNCHANGED <<inbox, entered>>
      PROVE  OnceEach'
  BY <1>4, <1>5 DEF CloseTurn
<1>6. ASSUME NEW keepInbox \in BOOLEAN, CancelByUser(keepInbox) PROVE OnceEach'
  BY <1>3, <1>6 DEF CancelByUser
<1>7. CASE Dispose BY <1>3, <1>7 DEF Dispose
<1>8. CASE \/ WakeAfterSend \/ Disposed \/ StartMaintenance \/ EndMaintenance \/ OpenTurn
           \/ AfterTurn \/ Converge \/ Replay \/ UNCHANGED vars
  BY <1>8, StaysKeepOnce
  DEF WakeAfterSend, Disposed, StartMaintenance, EndMaintenance, OpenTurn, AfterTurn,
      Converge, Replay, vars
<1>9. CASE ProposeFirstStep
  <2>1. CASE Aborted BY <1>5, <1>9, <2>1 DEF ProposeFirstStep
  <2>2. CASE ~Aborted BY <1>9, <2>2, ClaimKeepsOnce DEF ProposeFirstStep
  <2> QED BY <2>1, <2>2
<1>10. CASE PreStepFails \/ PreStepRejects \/ StoppingFails
  BY <1>5, <1>10 DEF PreStepFails, PreStepRejects, StoppingFails
<1>11. ASSUME NEW kept \in {batch, <<>>}, NEW context \in BOOLEAN, PreStepEnters(kept, context)
       PROVE  OnceEach'
  <2>1. UNCHANGED <<inbox, entered>> /\ batch' \in {batch, <<>>}
    BY <1>11 DEF PreStepEnters, CloseTurn
  <2> QED BY <1>4, <2>1, StaysKeepOnce
<1>12. CASE EnterMessages BY <1>12, EnterKeepsOnce
<1>13. ASSUME NEW r \in StepEnds \cup {"null", "threw"}, StepSettles(r) PROVE OnceEach'
  BY <1>13, StaysKeepOnce DEF StepSettles
<1>14. CASE AfterStep
  <2>1. CASE stepEnd = "threw" \/ Aborted BY <1>5, <1>14, <2>1 DEF AfterStep
  <2>2. CASE ~(stepEnd = "threw" \/ Aborted)
    BY <1>14, <2>2, ClaimKeepsOnce, StaysKeepOnce DEF AfterStep
  <2> QED BY <2>1, <2>2
<1>15. CASE Stopped
  <2>1. CASE nextStep = <<>> BY <1>5, <1>15, <2>1 DEF Stopped
  <2>2. CASE nextStep # <<>> BY <1>15, <2>2, ClaimKeepsOnce DEF Stopped
  <2> QED BY <2>1, <2>2
<1> QED
  BY <1>1, <1>2, <1>6, <1>7, <1>8, <1>9, <1>10, <1>11, <1>12, <1>13, <1>14, <1>15
  DEF Next, Driver

\* Taken together they are what OnePlace says of the places in a row.
LEMMA OnceIsOnePlace ==
    ASSUME TypeOK, OnceEach PROVE OnePlace
<1>1. /\ nextTurn \in Seq(Messages) /\ nextStep \in Seq(Messages)
      /\ batch \in Seq(Messages) /\ entered \in Seq(Messages)
  BY DEF TypeOK
<1> DEFINE a == nextTurn \o nextStep
           b == a \o batch
           e == b \o entered
<1>2. /\ a \in Seq(Messages) /\ Distinct(a) /\ Accounted(a)
      /\ Apart(a, batch) /\ Apart(a, entered)
  BY <1>1, ConcatOnce DEF OnceEach
<1> HIDE DEF a
<1>3. b \in Seq(Messages) /\ Distinct(b) /\ Accounted(b) /\ Apart(b, entered)
  BY <1>1, <1>2, ConcatOnce DEF OnceEach
<1> HIDE DEF b
<1>4. Distinct(e) /\ Accounted(e) BY <1>1, <1>3, ConcatOnce DEF OnceEach
<1> QED BY <1>4 DEF OnePlace, Distinct, Accounted, a, b, e

(***************************************************************************)
(* The theorems.                                                            *)
(***************************************************************************)

\* The inductive invariant: the safety invariants need the agreement of the
\* phase with the log, and each other.
IInv == TypeOK /\ Agreement /\ LatchBehindAbort /\ WakeAgrees /\ CeilingKept

\* The inductive invariant holds in every reachable state.
THEOREM Inductive == Spec => []IInv
<1>1. Init => IInv
  BY TypeInit, AgreementInit
  DEF Init, IInv, LatchBehindAbort, WakeAgrees, CeilingKept, ClosedAfter, Null
<1>2. IInv /\ [Next]_vars => IInv'
  <2> SUFFICES ASSUME IInv, [Next]_vars PROVE IInv' OBVIOUS
  <2>1. TypeOK' BY TypeStep DEF IInv, Agreement
  <2>2. Agreement' BY AgreementStep DEF IInv
  <2>3. LatchBehindAbort' /\ WakeAgrees' BY LatchStep DEF IInv
  <2>4. CeilingKept' BY CeilingStep DEF IInv, CeilingHeld
  <2> QED BY <2>1, <2>2, <2>3, <2>4 DEF IInv
<1> QED BY <1>1, <1>2, PTL DEF Spec

\* The driver's variables keep their types (the driver, the inbox, the log).
THEOREM TypeCorrect == Spec => []TypeOK
<1>1. IInv => TypeOK BY DEF IInv
<1> QED BY <1>1, Inductive, PTL

\* Every event the driver appends is legal where it is appended: turns and
\* steps open in order, close once and never overlap, however turn, step and
\* preStep are left.
THEOREM LogLegal == Spec => []LogWellFormed
<1>1. IInv => LogWellFormed BY DEF IInv, Agreement
<1> QED BY <1>1, Inductive, PTL

\* The phase agrees with the log: no open turn without a driver (setPhase,
\* kick's finally, runMaintenance).
THEOREM PhaseAgrees == Spec => []DriverAgrees
<1>1. IInv => DriverAgrees BY DEF IInv, Agreement
<1> QED BY <1>1, Inductive, PTL

\* A running driver latches a wake only behind a user's abort (wakeDriver).
THEOREM LatchJustified == Spec => []LatchBehindAbort
<1>1. IInv => LatchBehindAbort BY DEF IInv
<1> QED BY <1>1, Inductive, PTL

\* No step starts after its activity was aborted (turn, throwIfAborted).
THEOREM NoStepAfterAbort == Spec => AbortStartsNoStep
<1>1. IInv /\ [Next]_vars => [StepStarts => ~Aborted]_vars
  BY StartsUnaborted DEF IInv
<1> QED BY <1>1, Inductive, PTL DEF Spec, AbortStartsNoStep

\* A turn that hit the token ceiling never ends as completed (turnEnds).
THEOREM CeilingNotHidden == Spec => CeilingReported
<1>1. IInv /\ [Next]_vars => [TurnCloses /\ hitCeiling => ending' # "completed"]_vars
  BY CeilingStep DEF IInv, CeilingHeld
<1> QED BY <1>1, Inductive, PTL DEF Spec, CeilingReported

\* StopsAreKept: an abort is not overrun and a ceiling not hidden.
THEOREM StopsKept == Spec => StopsAreKept
<1> QED BY NoStepAfterAbort, CeilingNotHidden, PTL DEF StopsAreKept

\* Nothing is in two places at the start.
LEMMA OnceInit == Init => OnceEach
<1> SUFFICES ASSUME Init PROVE OnceEach OBVIOUS
<1>1. nextStep = <<>> /\ batch = <<>> /\ entered = <<>> BY DEF Init
<1>2. CASE nextTurn = <<>> BY <1>1, <1>2, EmptyOnce DEF OnceEach
<1>3. ASSUME NEW m \in Messages, nextTurn = <<m>> PROVE OnceEach
  <2>1. sent[m] = "other" BY <1>3 DEF Init
  <2>2. Distinct(<<m>>) /\ Accounted(<<m>>) BY <2>1 DEF Distinct, Accounted
  <2> QED BY <1>1, <1>3, <2>2, EmptyOnce DEF OnceEach
<1> QED BY <1>2, <1>3 DEF Init

\* A message is queued, claimed or logged, in one of these places and once:
\* it is never shown to the model twice (send, claim, remove, cancel, turn).
THEOREM ShownOnce == Spec => []OnePlace
<1>1. Init => OnceEach BY OnceInit
<1>2. IInv /\ OnceEach /\ [Next]_vars => OnceEach' BY OnceStep DEF IInv
<1>3. IInv /\ OnceEach => OnePlace BY OnceIsOnePlace DEF IInv
<1> QED BY <1>1, <1>2, <1>3, Inductive, PTL DEF Spec
=============================================================================
