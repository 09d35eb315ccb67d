----------------------------- MODULE AgentLoop -----------------------------
(***************************************************************************)
(* The driver of one agent (ReactLoopAgent), its inbox, and the disposal of  *)
(* the agent by its factory.                                                *)
(*                                                                          *)
(* The code runs on one thread, but listeners run inside it: a step of the   *)
(* driver is what runs between two points where other code can call the      *)
(* agent, be it at an await, or in the listeners of an appended event, of a  *)
(* status change or of an inbox insertion.  What a step of the model does    *)
(* inside the open step of the log (requests, chunks, tools) is abstracted   *)
(* to how it ends.                                                          *)
(***************************************************************************)
EXTENDS Naturals, SequencesExt, SessionTrace

CONSTANTS
    Messages,   \* the messages other code submits to the agent
    LastTurn,   \* the last turn of the log the agent starts from
    MaxSteps    \* bound: a step numbered MaxSteps asks for no further request

ASSUME BoundsAssumption == LastTurn \in Nat /\ MaxSteps \in Nat

VARIABLES
    kind,           \* this.phase.kind
    turn,           \* phase.turn, phase.lastTurn
    step,           \* phase.step
    reason,         \* why phase.abort was aborted; "none" is not aborted
    wakeRequested,  \* phase.wakeRequested
    nextTurn,       \* inbox.nextTurn
    nextStep,       \* inbox.nextStep
    sent,           \* history: who was sent: "live" to a driver it was to wake
    pc,             \* where the driver (kick, turn, step) stands
    batch,          \* what preStep claimed, then what entered the step
    turnEnds,       \* turn's local turnEnds; "null" is null
    stepEnd,        \* how the last step ended; "null": the model owes a response
    waking,         \* send stands between the insertion and wakeDriver
    replay,         \* kick's finally stands before its replay of the latch
    trace,          \* the session's log, by the rules of its event order
    wellFormed,     \* history: every appended event was legal
    ending,         \* the reason of the last turn/end
    entered,        \* history: the messages logged as user/message, in order
    hitCeiling,     \* history: a step of this turn hit the token ceiling
    disposal        \* where the agent's dispose stands

phase == <<kind, turn, step, reason, wakeRequested>>
inbox == <<nextTurn, nextStep, sent>>
driver == <<pc, batch, turnEnds, stepEnd>>
log == <<trace, wellFormed, ending, entered, hitCeiling>>
vars == <<phase, inbox, driver, waking, replay, log, disposal>>

StepEnds == {"completed", "max-tokens"}
TurnEnds == StepEnds \cup {"blocked", "aborted", "error"}
Stages == {"none", "kick", "opened", "preparing", "entering", "stepping",
           "stepped", "stopping", "ended", "leaving"}

TypeOK ==
    /\ kind \in {"idle", "maintenance", "running"} /\ turn \in Nat /\ step \in Nat
    /\ reason \in {"none", "user", "disposed"} /\ wakeRequested \in BOOLEAN
    /\ nextTurn \in Seq(Messages) /\ nextStep \in Seq(Messages)
    /\ sent \in [Messages -> {"no", "live", "other"}]
    /\ pc \in Stages /\ batch \in Seq(Messages)
    /\ turnEnds \in StepEnds \cup {"null"} /\ stepEnd \in StepEnds \cup {"null", "threw"}
    /\ waking \in {"no", "plain", "afterAbort"} /\ replay \in BOOLEAN
    /\ trace \in Traces({}) /\ wellFormed \in BOOLEAN
    /\ ending \in TurnEnds \cup {"none"}
    /\ entered \in Seq(Messages) /\ hitCeiling \in BOOLEAN
    /\ disposal \in {"live", "stopping", "done"}

\* A fresh agent, or one resumed with a prompt still in its durable inbox.
Init ==
    /\ kind = "idle" /\ turn = LastTurn /\ step = 0
    /\ reason = "none" /\ wakeRequested = FALSE
    /\ nextTurn \in {<<>>} \cup {<<m>> : m \in Messages} /\ nextStep = <<>>
    /\ sent = [m \in Messages |-> IF nextTurn = <<m>> THEN "other" ELSE "no"]
    /\ pc = "none" /\ batch = <<>> /\ turnEnds = "null" /\ stepEnd = "null"
    /\ waking = "no" /\ replay = FALSE
    /\ trace = ClosedAfter(LastTurn) /\ wellFormed = TRUE
    /\ ending = "none" /\ entered = <<>> /\ hitCeiling = FALSE
    /\ disposal = "live"

(***************************************************************************)
(* Fragments of actions.                                                    *)
(***************************************************************************)

Active == kind # "idle"
Aborted == reason # "none"
HasPending == nextTurn # <<>> \/ nextStep # <<>>

\* session.append: the listeners of session/event see the event in place.
Log(e) == trace' = Advance(trace, e) /\ wellFormed' = (wellFormed /\ Valid(trace, e))

\* The driver stands in the listeners of an event it has just appended: an
\* append of theirs is rejected, and with it any change of the inbox.
Publishing == pc \in {"opened", "entering", "stepped", "ended"}

\* wakeDriver on an active agent: only what cannot deliver the wake latches it.
Latches(afterAbort) ==
    reason # "disposed" /\ (kind = "maintenance" \/ afterAbort)

\* wakeDriver: start a driver, or latch the wake.
WakeDriver(afterAbort) ==
    IF Active
      THEN /\ wakeRequested' = (wakeRequested \/ Latches(afterAbort))
           /\ UNCHANGED <<kind, step, pc>>
      ELSE /\ kind' = "running" /\ step' = 0 /\ pc' = "kick"
           /\ UNCHANGED wakeRequested

\* How many prompts a claim takes: only a turn's first step takes one.
Prompts == IF step = 0 /\ nextTurn # <<>> THEN 1 ELSE 0

\* Mutant: the steering just claimed stays in the inbox.
ClaimKeepsSteering ==
    /\ batch' = nextStep \o SubSeq(nextTurn, 1, Prompts)
    /\ nextTurn' = SubSeq(nextTurn, Prompts + 1, Len(nextTurn))
    /\ UNCHANGED nextStep /\ pc' = "preparing"

\* inbox.claim, on the way into preStep: all steering, then the prompt.
Claim ==
    /\ batch' = nextStep \o SubSeq(nextTurn, 1, Prompts)
    /\ nextTurn' = SubSeq(nextTurn, Prompts + 1, Len(nextTurn))
    /\ nextStep' = <<>> /\ pc' = "preparing"

\* The finally of turn: append turn/end.  "ended" asks for another turn.
CloseTurn(r, next) ==
    /\ Log(TurnEnd(turn)) /\ ending' = r
    /\ batch' = <<>> /\ pc' = next

\* Mutant: the abort that came while listeners ran is not looked at.
Unchecked == TRUE

\* signal.throwIfAborted after the pre-step or the turn-stopping listeners.
Unaborted == ~Aborted

\* The catch of turn: a failure of an aborted turn is its abortion.
Failure == IF Aborted THEN "aborted" ELSE "error"

\* Mutant: a step that throws is not closed.
EndStepUnlessThrown(r) ==
    /\ stepEnd' = r /\ pc' = "stepped"
    /\ IF r = "threw" THEN UNCHANGED <<trace, wellFormed>> ELSE Log(StepEnd(turn, step))

\* The finally around step: append step/end.
EndStep(r) == Log(StepEnd(turn, step)) /\ stepEnd' = r /\ pc' = "stepped"

\* Mutant: the last step decides how the turn ends.
LastStepDecides(r) == IF r = "threw" THEN turnEnds ELSE r

\* Mutant: turnEnds is assigned in the finally.
SettledAlways(r) == IF turnEnds = "max-tokens" THEN turnEnds ELSE r

\* turnEnds after a step: the token ceiling is sticky.
Settled(r) == IF r = "threw" \/ turnEnds = "max-tokens" THEN turnEnds ELSE r

(***************************************************************************)
(* What other code does to the agent.                                       *)
(***************************************************************************)

\* send, up to the notification of the insertion.  Waking input cannot join
\* an aborted activity.
Send(m, target, wakeup) ==
    /\ disposal # "done" /\ ~Publishing /\ waking = "no" /\ sent[m] = "no"
    /\ sent' = [sent EXCEPT ![m] =
            IF wakeup /\ kind = "running" /\ ~Aborted THEN "live" ELSE "other"]
    /\ LET afterAbort == wakeup /\ Active /\ Aborted
       IN  /\ IF afterAbort \/ target = "next-turn"
                THEN nextTurn' = Append(nextTurn, m) /\ UNCHANGED nextStep
                ELSE nextStep' = Append(nextStep, m) /\ UNCHANGED nextTurn
           /\ waking' = IF ~wakeup THEN "no" ELSE IF afterAbort THEN "afterAbort" ELSE "plain"
    /\ UNCHANGED <<phase, driver, replay, log, disposal>>

\* The end of a waking send.
WakeAfterSend ==
    /\ waking # "no" /\ waking' = "no"
    /\ WakeDriver(waking = "afterAbort")
    /\ UNCHANGED <<turn, reason, inbox, batch, turnEnds, stepEnd, replay, log, disposal>>

\* inbox.remove of a pending message.
RemovePending ==
    /\ ~Publishing
    /\ \/ \E i \in 1..Len(nextTurn) :
            nextTurn' = RemoveAt(nextTurn, i) /\ UNCHANGED nextStep
       \/ \E i \in 1..Len(nextStep) :
            nextStep' = RemoveAt(nextStep, i) /\ UNCHANGED nextTurn
    /\ UNCHANGED <<phase, sent, driver, waking, replay, log, disposal>>

\* abort.abort(cause): the first cause stays.
Abort(cause) == reason' = IF Active /\ ~Aborted THEN cause ELSE reason

\* cancel(cause, { keepInbox }).
Cancel(cause, keepInbox) ==
    /\ keepInbox \/ ~HasPending \/ ~Publishing
    /\ IF keepInbox
         THEN UNCHANGED <<nextTurn, nextStep, wakeRequested>>
         ELSE nextTurn' = <<>> /\ nextStep' = <<>> /\ wakeRequested' = FALSE
    /\ Abort(cause)
    /\ UNCHANGED <<kind, turn, step, sent, driver, waking, replay, log>>

\* dispose of the factory's prepare, up to its await of whenIdle.
Dispose ==
    /\ disposal = "live" /\ disposal' = "stopping"
    /\ Cancel("disposed", FALSE)

\* whenIdle resolves: the scope is unwound and the agent detached.
Disposed ==
    /\ disposal = "stopping" /\ ~Active /\ ~replay /\ waking = "no"
    /\ disposal' = "done"
    /\ UNCHANGED <<phase, inbox, driver, waking, replay, log>>

\* runMaintenance, up to the await of its job.  Its callers do not start one
\* on an agent they are disposing of.
StartMaintenance ==
    /\ ~Active /\ disposal = "live" /\ kind' = "maintenance"
    /\ UNCHANGED <<turn, step, reason, wakeRequested, inbox, driver, waking, replay,
                   log, disposal>>

\* Mutant: an aborted job skips the way back to idle.
EndUnlessAborted ==
    /\ kind = "maintenance" /\ ~Aborted /\ ~replay /\ waking = "no"
    /\ wakeRequested' = FALSE /\ kind' = "idle"
    /\ UNCHANGED <<turn, step, reason, inbox, driver, waking, replay, log, disposal>>

\* The finally of runMaintenance: back to idle, and replay a latched wake.
EndMaintenance ==
    /\ kind = "maintenance" /\ ~replay /\ waking = "no"
    /\ reason' = "none" /\ wakeRequested' = FALSE
    /\ IF wakeRequested /\ HasPending
         THEN kind' = "running" /\ pc' = "kick"
         ELSE kind' = "idle" /\ UNCHANGED pc
    /\ UNCHANGED <<turn, step, inbox, batch, turnEnds, stepEnd, waking, replay, log, disposal>>

(***************************************************************************)
(* The driver.  No step of it runs inside a send or before a due replay.    *)
(***************************************************************************)

At(stage) == pc = stage /\ waking = "no" /\ ~replay

\* The head of turn: an aborted driver leaves; otherwise append turn/start.
OpenTurn ==
    /\ At("kick")
    /\ IF Aborted
         THEN /\ pc' = "leaving"
              /\ UNCHANGED <<turn, turnEnds, trace, wellFormed, ending, hitCeiling>>
         ELSE /\ Log(TurnStart(turn + 1)) /\ turn' = turn + 1 /\ pc' = "opened"
              /\ turnEnds' = "null" /\ ending' = "none" /\ hitCeiling' = FALSE
    /\ UNCHANGED <<kind, step, reason, wakeRequested, inbox, batch, stepEnd,
                   waking, replay, entered, disposal>>

\* The first turn of the loop, up to the assembly preStep awaits.
ProposeFirstStep ==
    /\ At("opened")
    /\ IF Aborted
         THEN CloseTurn("aborted", "leaving") /\ UNCHANGED <<nextTurn, nextStep>>
         ELSE Claim /\ UNCHANGED <<trace, wellFormed, ending>>
    /\ UNCHANGED <<phase, sent, turnEnds, stepEnd, waking, replay, entered,
                   hitCeiling, disposal>>

\* The assembly or a pre-step hook throws, or the abort is noticed.
PreStepFails ==
    /\ At("preparing")
    /\ CloseTurn(Failure, "leaving")
    /\ UNCHANGED <<phase, inbox, turnEnds, stepEnd, waking, replay, entered,
                   hitCeiling, disposal>>

\* A pre-step hook rejects the step: what it claimed is dropped.
PreStepRejects ==
    /\ At("preparing") /\ Unaborted
    /\ CloseTurn("blocked", "leaving")
    /\ UNCHANGED <<phase, inbox, turnEnds, stepEnd, waking, replay, entered,
                   hitCeiling, disposal>>

\* A hook rewrote the step to an empty one.  A turn that has its ending ends;
\* one without a step ends and spends no model call.
EndsEmpty == turnEnds # "null" \/ step = 0

\* The hooks let the step enter with what they kept of its messages and with
\* or without a context message of their own.
PreStepEnters(kept, context) ==
    /\ At("preparing") /\ Unaborted
    /\ IF kept = <<>> /\ ~context /\ EndsEmpty
         THEN /\ IF turnEnds # "null" THEN CloseTurn(turnEnds, "ended")
                                      ELSE CloseTurn("completed", "leaving")
              /\ UNCHANGED step
         ELSE /\ Log(StepStart(turn, step + 1)) /\ step' = step + 1
              /\ batch' = kept /\ pc' = "entering" /\ UNCHANGED ending
    /\ UNCHANGED <<kind, turn, reason, wakeRequested, inbox, turnEnds, stepEnd,
                   waking, replay, entered, hitCeiling, disposal>>

\* Append the step's messages, and enter step, which looks at the abort.
EnterMessages ==
    /\ At("entering")
    /\ entered' = entered \o batch /\ batch' = <<>>
    /\ IF Aborted
         THEN EndStep("threw")
         ELSE pc' = "stepping" /\ UNCHANGED <<trace, wellFormed, stepEnd>>
    /\ UNCHANGED <<phase, inbox, turnEnds, waking, replay, ending, hitCeiling, disposal>>

\* step settles, aborted or not: it answers, hits the ceiling, leaves tool
\* results the model has to see ("null"), or throws.
StepSettles(r) ==
    /\ At("stepping") /\ (r = "null" => step < MaxSteps)
    /\ EndStep(r)
    /\ turnEnds' = Settled(r)
    /\ hitCeiling' = (hitCeiling \/ r = "max-tokens")
    /\ UNCHANGED <<phase, inbox, batch, waking, replay, ending, entered, disposal>>

\* After step/end: fail, offer to stop, or propose the next step.
AfterStep ==
    /\ At("stepped")
    /\ IF stepEnd = "threw" \/ Aborted
         THEN CloseTurn(Failure, "leaving") /\ UNCHANGED <<nextTurn, nextStep>>
         ELSE /\ IF turnEnds # "null" /\ nextStep = <<>>
                   THEN pc' = "stopping" /\ UNCHANGED <<batch, nextTurn, nextStep>>
                   ELSE Claim
              /\ UNCHANGED <<trace, wellFormed, ending>>
    /\ UNCHANGED <<phase, sent, turnEnds, stepEnd, waking, replay, entered,
                   hitCeiling, disposal>>

\* A turn-stopping listener throws, or the abort is noticed.
StoppingFails ==
    /\ At("stopping")
    /\ CloseTurn(Failure, "leaving")
    /\ UNCHANGED <<phase, inbox, turnEnds, stepEnd, waking, replay, entered,
                   hitCeiling, disposal>>

\* Mutant: fresh steering asks the listeners again, for ever.
StopsWhenDrained ==
    /\ At("stopping") /\ Unaborted /\ nextStep = <<>>
    /\ CloseTurn(turnEnds, "ended")
    /\ UNCHANGED <<phase, inbox, turnEnds, stepEnd, waking, replay, entered,
                   hitCeiling, disposal>>

\* The turn-stopping listeners are done: end the turn unless they steered.
Stopped ==
    /\ At("stopping") /\ Unaborted
    /\ IF nextStep = <<>>
         THEN CloseTurn(turnEnds, "ended") /\ UNCHANGED <<nextTurn, nextStep>>
         ELSE Claim /\ UNCHANGED <<trace, wellFormed, ending>>
    /\ UNCHANGED <<phase, sent, turnEnds, stepEnd, waking, replay, entered,
                   hitCeiling, disposal>>

\* phase.abort = new AbortController(), phase.wakeRequested = false
FreshController == reason' = "none" /\ wakeRequested' = FALSE

\* The tail of turn: pending work opens another one, under a new controller.
AfterTurn ==
    /\ At("ended")
    /\ IF HasPending
         THEN FreshController /\ step' = 0 /\ pc' = "kick"
         ELSE pc' = "leaving" /\ UNCHANGED <<reason, wakeRequested, step>>
    /\ UNCHANGED <<kind, turn, inbox, batch, turnEnds, stepEnd, waking, replay,
                   log, disposal>>

\* Mutant: the latch is read after the phase was replaced.
LatchLost == FALSE

\* The latch kick's finally reads before it replaces the phase.
Latched == wakeRequested

\* The finally of kick, up to the listeners of the status change.
Converge ==
    /\ At("leaving")
    /\ kind' = "idle" /\ step' = 0 /\ reason' = "none" /\ wakeRequested' = FALSE
    /\ pc' = "none" /\ replay' = Latched
    /\ UNCHANGED <<turn, inbox, batch, turnEnds, stepEnd, waking, log, disposal>>

\* The rest of kick's finally: replay the latched wake if its work is left.
Replay ==
    /\ replay /\ waking = "no" /\ replay' = FALSE
    /\ IF HasPending THEN WakeDriver(FALSE) ELSE UNCHANGED <<kind, step, pc, wakeRequested>>
    /\ UNCHANGED <<turn, reason, inbox, batch, turnEnds, stepEnd, waking, log, disposal>>

(***************************************************************************)
(* The specification.                                                       *)
(***************************************************************************)

Targets == {"next-turn", "next-step"}

CancelByUser(keepInbox) == Cancel("user", keepInbox) /\ UNCHANGED disposal

Driver ==
    \/ OpenTurn \/ ProposeFirstStep
    \/ PreStepFails \/ PreStepRejects
    \/ \E kept \in {batch, <<>>}, context \in BOOLEAN : PreStepEnters(kept, context)
    \/ EnterMessages
    \/ \E r \in StepEnds \cup {"null", "threw"} : StepSettles(r)
    \/ AfterStep \/ StoppingFails \/ Stopped \/ AfterTurn
    \/ Converge \/ Replay

Next ==
    \/ \E m \in Messages, target \in Targets, wakeup \in BOOLEAN : Send(m, target, wakeup)
    \/ WakeAfterSend
    \/ RemovePending
    \/ \E keepInbox \in BOOLEAN : CancelByUser(keepInbox)
    \/ Dispose \/ Disposed
    \/ StartMaintenance \/ EndMaintenance
    \/ Driver

Spec == Init /\ [][Next]_vars

(***************************************************************************)
(* Fairness: the event loop runs whatever is due, and every hook, model     *)
(* request, tool and maintenance job settles.  Nobody is obliged to send,   *)
(* cancel or dispose, and no hook to throw, unless its signal is aborted.   *)
(***************************************************************************)
DriverRuns == Driver /\ (Aborted \/ ~(PreStepFails \/ StoppingFails))

Fairness ==
    /\ WF_vars(DriverRuns) /\ WF_vars(WakeAfterSend)
    /\ WF_vars(EndMaintenance) /\ WF_vars(Disposed)

FairSpec == Spec /\ Fairness

(***************************************************************************)
(* Properties.                                                              *)
(***************************************************************************)

\* The log obeys the event order of the session invariant at every exit of
\* turn, step and preStep, whatever listeners and hooks do in between: turns
\* and steps open in order, close once, and never overlap (turn's finally
\* blocks, preStep's aborts and rejections).
LogWellFormed == wellFormed

\* The phase and the log agree: an agent without a driver has no open turn, a
\* maintenance job never runs inside one, and the driver's position names the
\* open turn and step it will close (setPhase, turn, kick's finally).
DriverAgrees ==
    /\ (kind = "running") = (pc # "none")
    /\ trace.openTurn = (IF pc \in {"none", "kick", "ended", "leaving"} THEN Null ELSE turn)
    /\ trace.openStep = (IF pc \in {"entering", "stepping"} THEN step ELSE Null)
    /\ trace.openTurn = Null => trace.nextTurn = turn + 1
    /\ trace.openTurn # Null => trace.nextTurn = turn
    /\ pc \in {"opened", "preparing", "stepped", "stopping"} => trace.nextStep = step + 1
    /\ pc \in {"entering", "stepping"} => trace.nextStep = step
    /\ ~Active => reason = "none" /\ ~wakeRequested

\* A message is in one place: queued, claimed or logged, and so it is never
\* shown to the model twice (claim, the claimed batch dropped by a rejection
\* or an abort, cancel and remove in between).
OnePlace ==
    LET everywhere == nextTurn \o nextStep \o batch \o entered
    IN  /\ \A i, j \in 1..Len(everywhere) : everywhere[i] = everywhere[j] => i = j
        /\ \A i \in 1..Len(everywhere) : sent[everywhere[i]] # "no"

\* A running driver holds a latch only for an abort that was not a disposal:
\* a wake a live driver will claim itself is not latched as well, and no latch
\* outlives the controller it was set behind (wakeDriver, cancel, turn).
LatchBehindAbort == kind = "running" /\ wakeRequested => reason = "user"

\* No step starts after its activity was aborted, also when the abort came
\* while the hooks ran (throwIfAborted before step/start).
StepStarts == trace.openStep = Null /\ trace'.openStep # Null
AbortStartsNoStep == [][StepStarts => ~Aborted]_vars

\* A turn in which a step hit the token ceiling never ends as completed: steps
\* forced by steering afterwards do not hide it (turnEnds is sticky).
TurnCloses == trace.openTurn # Null /\ trace'.openTurn = Null
CeilingReported == [][TurnCloses /\ hitCeiling => ending' # "completed"]_vars

\* What must stop a turn is neither overrun nor hidden, whatever hooks and
\* steering do: the abort before a step starts, the token ceiling of a step
\* when the turn ends.
StopsAreKept == AbortStartsNoStep /\ CeilingReported

\* Every turn that opens is closed.
TurnsClose == trace.openTurn # Null ~> trace.openTurn = Null

\* The wake behind an abort is not lost: it runs a turn, unless its work is
\* taken back or another driver is aborted, with no wake behind that abort (the
\* latch, kick's finally and runMaintenance's).
LatchedWakeRuns ==
    \A m \in Messages :
        (wakeRequested /\ m \in ToSet(nextTurn))
            ~> (\/ m \notin ToSet(nextTurn) \/ pc = "opened"
                \/ pc = "leaving" /\ Aborted /\ ~wakeRequested)

\* Disposal ends, whatever the agent was doing (dispose awaits whenIdle).
DisposalEnds == disposal = "stopping" ~> disposal = "done"

\* The driver comes to rest, and not before a latched wake has run.
Converges == TurnsClose /\ LatchedWakeRuns /\ DisposalEnds

(***************************************************************************)
(* What the code says of itself and does not do.                            *)
(***************************************************************************)

\* wakeDriver: "disposal never latches, so teardown waits on no model turn".
DisposalNeverLatches ==
    [][disposal = "stopping" /\ kind = "running" /\ ~wakeRequested => ~wakeRequested']_vars

\* wakeDriver: "Live drivers claim queued work themselves".  A driver does not
\* go idle after a turn that completed with waking input it was sent while
\* live still in its inbox.
LiveDriversClaim ==
    [][(At("leaving") /\ pc' = "none" /\ ending = "completed" /\ ~wakeRequested) =>
         \A m \in ToSet(nextTurn \o nextStep) : sent[m] # "live"]_vars

\* agent/turn-stopping: "the model owes no response (no live tool calls ...)".
StoppingOwesNothing == pc = "stopping" => stepEnd # "null"
=============================================================================
