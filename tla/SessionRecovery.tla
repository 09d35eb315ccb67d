-------------------------- MODULE SessionRecovery --------------------------
(***************************************************************************)
(* A session whose process crashes and resumes: the checkpoint policy in     *)
(* front of model requests and tool bodies, the durable prefix that          *)
(* survives, and the repair of an interrupted turn when it is loaded.        *)
(*                                                                          *)
(* The driver is reduced to the order of the events it logs and of the       *)
(* flushes it awaits (AgentLoop and ToolScheduler have the rest), the write  *)
(* path to what DurableLog promises.  A call is named by its turn, its step  *)
(* and its place in the assistant message.                                   *)
(***************************************************************************)
EXTENDS SessionTrace, SequencesExt

CONSTANTS
    MaxTurns, MaxSteps, MaxCalls,   \* bounds: turns, steps a turn, calls a step
    MaxCrashes                      \* bound: crashes, those inside a repair included

ASSUME BoundsAssumption == {MaxTurns, MaxSteps, MaxCalls, MaxCrashes} \subseteq Nat

VARIABLES
    log,        \* the session's events
    durable,    \* how many of them are stored
    life,       \* the session is "live", "down", or "prepared" from its stored log
    closers,    \* the synthetic events of the prepared source
    turn, step, \* the driver's phase
    stage,      \* where the driver stands in its turn
    asked,      \* how many calls the assistant message of the open step holds
    started,    \* how many of them were logged as tool/call
    committed,  \* how many of their results were logged
    mark,       \* length of the log when the call's body asked for a checkpoint; 0: it has not
    crashes,    \* how many crashes there were
    requested,  \* history: the steps whose request reached the model adapter
    invoked     \* history: the calls whose body ran

phase == <<turn, step, stage>>
calls == <<asked, started, committed, mark>>
storage == <<durable, life, closers, crashes>>
history == <<requested, invoked>>
vars == <<log, storage, phase, calls, history>>

\* A loop over the events from a state (FoldLeft, in a form TLC evaluates fast).
Over(Body(_, _), state, events) ==
    LET after[n \in 0..Len(events)] ==
            IF n = 0 THEN state ELSE Body(after[n - 1], events[n])
    IN  after[Len(events)]

NoMarks == [i \in 1..MaxCalls |-> 0]

TypeOK ==
    /\ durable \in 0..Len(log) /\ life \in {"live", "down", "prepared"}
    /\ life # "prepared" => closers = <<>>
    /\ life # "live" => durable = Len(log)
    /\ turn \in 0..MaxTurns /\ step \in 0..MaxSteps
    /\ stage \in {"idle", "between", "entered", "requested", "calling"}
    /\ asked \in 0..MaxCalls /\ started \in 0..asked /\ committed \in 0..started
    /\ mark \in [1..MaxCalls -> 0..Len(log)]
    /\ crashes \in 0..MaxCrashes
    /\ requested \subseteq (1..MaxTurns) \X (1..MaxSteps)
    /\ invoked \subseteq (1..MaxTurns) \X (1..MaxSteps) \X (1..MaxCalls)

Init ==
    /\ log = <<>> /\ durable = 0 /\ life = "live" /\ closers = <<>>
    /\ turn = 0 /\ step = 0 /\ stage = "idle"
    /\ asked = 0 /\ started = 0 /\ committed = 0 /\ mark = NoMarks
    /\ crashes = 0 /\ requested = {} /\ invoked = {}

Call(i) == <<turn, step, i>>

\* A result says what became of its call: its body "ran", was "refused" before
\* it ran, was "notStarted", or has an "unknown" outcome.
Result(c, code) == ToolResult(c[1], c[2], c, code)

(***************************************************************************)
(* The driver: what it logs, and the checkpoints in between.                *)
(***************************************************************************)

\* A flush by the driver resolved.  The driver logs nothing while it waits, so
\* the flush covers the whole log.
Checkpointed == durable = Len(log)

StartTurn ==
    /\ life = "live" /\ stage = "idle" /\ turn < MaxTurns
    /\ log' = Append(log, TurnStart(turn + 1))
    /\ turn' = turn + 1 /\ step' = 0 /\ stage' = "between"
    /\ UNCHANGED <<storage, calls, history>>

\* agent/pre-step waits for a flush, then the step starts.
StartStep ==
    /\ life = "live" /\ stage = "between" /\ step < MaxSteps /\ Checkpointed
    /\ log' = Append(log, StepStart(turn, step + 1))
    /\ step' = step + 1 /\ stage' = "entered"
    /\ UNCHANGED <<turn, storage, calls, history>>

\* llm/stream waits for a flush, then the request reaches the adapter.
Request ==
    /\ life = "live" /\ stage = "entered" /\ Checkpointed /\ stage' = "requested"
    /\ requested' = requested \cup {<<turn, step>>}
    /\ UNCHANGED <<log, turn, step, storage, calls, invoked>>

\* The response: an assistant message with n calls.
Respond(n) ==
    /\ life = "live" /\ stage = "requested" /\ stage' = "calling" /\ asked' = n
    /\ log' = Append(log, AssistantMessage(turn, step, [i \in 1..n |-> Call(i)]))
    /\ UNCHANGED <<turn, step, started, committed, mark, storage, history>>

\* Calls are logged in the order of the message, also those an abort skips.
StartCall ==
    /\ life = "live" /\ stage = "calling" /\ started < asked
    /\ log' = Append(log, ToolCall(turn, step, Call(started + 1))) /\ started' = started + 1
    /\ UNCHANGED <<phase, asked, committed, mark, storage, history>>

\* tools/execute asks for a flush of what is logged by now.
AskCheckpoint(i) ==
    /\ life = "live" /\ i \in (committed + 1)..started /\ mark[i] = 0
    /\ mark' = [mark EXCEPT ![i] = Len(log)]
    /\ UNCHANGED <<log, phase, asked, started, committed, storage, history>>

\* Mutant: the body does not wait for the flush.
BodyUnflushed(i) ==
    /\ life = "live" /\ i \in (committed + 1)..started /\ mark[i] # 0
    /\ invoked' = invoked \cup {Call(i)}
    /\ UNCHANGED <<log, phase, calls, storage, requested>>

\* The flush resolved and the signal is not aborted: the body runs.
BodyRuns(i) ==
    /\ life = "live" /\ i \in (committed + 1)..started /\ mark[i] \in 1..durable
    /\ invoked' = invoked \cup {Call(i)}
    /\ UNCHANGED <<log, phase, calls, storage, requested>>

\* The results are logged in the order of the calls.  A body that did not run
\* was refused: by a policy, a failed flush or an abort.
CommitResult ==
    /\ life = "live" /\ stage = "calling" /\ committed < started
    /\ LET c == Call(committed + 1)
       IN  log' = Append(log, Result(c, IF c \in invoked THEN "ran" ELSE "refused"))
    /\ committed' = committed + 1
    /\ UNCHANGED <<phase, asked, started, mark, storage, history>>

\* The step ends, with or without a request, and a scheduler failure ends it
\* with calls that have no result.
EndStep ==
    /\ life = "live" /\ stage \in {"entered", "requested", "calling"}
    /\ log' = Append(log, StepEnd(turn, step)) /\ stage' = "between"
    /\ asked' = 0 /\ started' = 0 /\ committed' = 0 /\ mark' = NoMarks
    /\ UNCHANGED <<turn, step, storage, history>>

EndTurn ==
    /\ life = "live" /\ stage = "between"
    /\ log' = Append(log, TurnEnd(turn)) /\ stage' = "idle"
    /\ UNCHANGED <<turn, step, storage, calls, history>>

(***************************************************************************)
(* interruptedTurnClosers.                                                  *)
(***************************************************************************)

\* Mutant: a tool result leaves its call pending.
ForgetNothing(s, c) == s

\* pendingCalls.delete(callId)
Delete(s, c) == [s EXCEPT !.pending = RemoveFirst(@, c)]

\* The scan: the open turn and step, the calls without a result in the order
\* of their message, and those of them that were recorded as started.
Scan(s, e) ==
    CASE e.type = "turn/start" ->
           [openTurn |-> e.turn, openStep |-> Null, pending |-> <<>>, recorded |-> {}]
      [] e.type = "turn/end" ->
           [openTurn |-> Null, openStep |-> Null, pending |-> <<>>, recorded |-> {}]
      [] e.type = "step/start" -> [s EXCEPT !.openStep = e.step]
      [] e.type = "step/end" ->
           [s EXCEPT !.openStep = Null, !.pending = <<>>, !.recorded = {}]
      [] e.type = "assistant/message" -> [s EXCEPT !.pending = @ \o e.calls]
      [] e.type = "tool/call" ->
           [s EXCEPT !.recorded = @ \cup ({e.call} \cap ToSet(s.pending))]
      [] e.type = "tool/result" -> Delete(s, e.call)

\* Mutant: a started call is told from a fresh one by its result.
StartedUnseen(s, c) == FALSE

\* callSeq !== undefined
StartedIn(s, c) == c \in s.recorded

\* Mutant: the boundary of the step comes before the results.
BoundariesFirst(s) ==
    (IF s.openStep = Null THEN <<>> ELSE <<StepEnd(s.openTurn, s.openStep)>>)
    \o [i \in 1..Len(s.pending) |->
            Result(s.pending[i], IF StartedIn(s, s.pending[i]) THEN "unknown" ELSE "notStarted")]
    \o <<TurnEnd(s.openTurn)>>

\* Mutant: an interrupted turn that has no open step is left as it is.
OnlyOpenSteps(s) ==
    IF s.openStep = Null THEN <<>>
    ELSE [i \in 1..Len(s.pending) |->
            Result(s.pending[i], IF StartedIn(s, s.pending[i]) THEN "unknown" ELSE "notStarted")]
         \o <<StepEnd(s.openTurn, s.openStep), TurnEnd(s.openTurn)>>

\* The events that close the turn the scan found open.
Closing(s) ==
    [i \in 1..Len(s.pending) |->
        Result(s.pending[i], IF StartedIn(s, s.pending[i]) THEN "unknown" ELSE "notStarted")]
    \o (IF s.openStep = Null THEN <<>> ELSE <<StepEnd(s.openTurn, s.openStep)>>)
    \o <<TurnEnd(s.openTurn)>>

Closers(events) ==
    LET s == Over(Scan, [openTurn |-> Null, openStep |-> Null, pending |-> <<>>,
                             recorded |-> {}], events)
    IN  IF s.openTurn = Null THEN <<>> ELSE Closing(s)

(***************************************************************************)
(* The store, the crash and the recovery.                                   *)
(***************************************************************************)

\* The write path stores some more of the log (DurableLog).
Persist ==
    /\ life = "live" /\ durable' \in (durable + 1)..Len(log)
    /\ UNCHANGED <<log, life, closers, crashes, phase, calls, history>>

\* The process stops: the stored prefix is what is left.
Crash ==
    /\ life = "live" /\ crashes < MaxCrashes /\ crashes' = crashes + 1
    /\ log' = SubSeq(log, 1, durable) /\ life' = "down"
    /\ turn' = 0 /\ step' = 0 /\ stage' = "idle"
    /\ asked' = 0 /\ started' = 0 /\ committed' = 0 /\ mark' = NoMarks
    /\ UNCHANGED <<durable, closers, history>>

\* prepareCore: read the stored log and close it in memory.
Prepare ==
    /\ life = "down" /\ life' = "prepared" /\ closers' = Closers(log)
    /\ UNCHANGED <<log, durable, crashes, phase, calls, history>>

\* Mutant: the stored closers are not counted.
RepairedUncounted(k) ==
    /\ log' = log \o SubSeq(closers, 1, k) /\ UNCHANGED durable
    /\ life' = "down" /\ closers' = <<>>
    /\ UNCHANGED <<phase, calls, history>>

\* commitRepair stored so many closers; the source is dropped and read again.
Repaired(k) ==
    /\ log' = log \o SubSeq(closers, 1, k) /\ durable' = Len(log')
    /\ life' = "down" /\ closers' = <<>>
    /\ UNCHANGED <<phase, calls, history>>

\* Mutant: a lone closer is not worth a commit.
CommitSeveral ==
    life = "prepared" /\ Len(closers) > 1 /\ Repaired(Len(closers)) /\ UNCHANGED crashes

\* commitPrepared of a source that needs a repair.
CommitRepair ==
    life = "prepared" /\ closers # <<>> /\ Repaired(Len(closers)) /\ UNCHANGED crashes

\* The store refuses the repair and keeps none of it.
RepairFails ==
    life = "prepared" /\ closers # <<>> /\ Repaired(0) /\ UNCHANGED crashes

\* The process stops inside the repair.
RepairCrashes ==
    /\ life = "prepared" /\ crashes < MaxCrashes /\ crashes' = crashes + 1
    /\ \E k \in 1..(Len(closers) - 1) : Repaired(k)

\* lastTurn of the resumed agent: the turn of the last turn/start.
LastTurn ==
    LET starts == {i \in DOMAIN log : log[i].type = "turn/start"}
    IN  IF starts = {} THEN 0 ELSE log[Max(starts)].turn

\* commitPrepared of a balanced source, and the session is live again.
Resume ==
    /\ life = "prepared" /\ closers = <<>> /\ life' = "live" /\ turn' = LastTurn
    /\ UNCHANGED <<log, durable, closers, crashes, step, stage, calls, history>>

Next ==
    \/ StartTurn \/ StartStep \/ Request \/ (\E n \in 0..MaxCalls : Respond(n))
    \/ StartCall \/ (\E i \in 1..MaxCalls : AskCheckpoint(i) \/ BodyRuns(i))
    \/ CommitResult \/ EndStep \/ EndTurn
    \/ Persist \/ Crash
    \/ Prepare \/ CommitRepair \/ RepairFails \/ RepairCrashes \/ Resume

Spec == Init /\ [][Next]_vars

(***************************************************************************)
(* Fairness: a session that is down is asked for until it is live, and the   *)
(* store does not refuse its repair for ever.                                *)
(***************************************************************************)
FairSpec == Spec /\ WF_vars(Prepare) /\ WF_vars(Resume) /\ SF_vars(CommitRepair)

(***************************************************************************)
(* Properties.                                                              *)
(***************************************************************************)

\* What a crash now would leave, and what its repair makes of it.
Survivors == SubSeq(log, 1, durable)
Recovered == Survivors \o Closers(Survivors)

TraceOf(events) == Over(Advance, ClosedAfter(0), events)

\* Whether every event of a log was valid when it was appended.
Observe(s, e) == [trace |-> Advance(s.trace, e), legal |-> s.legal /\ Valid(s.trace, e)]
Legal(events) == Over(Observe, [trace |-> ClosedAfter(0), legal |-> TRUE], events).legal

\* The log is legal by the rules of the session companion, before a crash, with
\* the closers of its repair behind it, and when turns follow the repair
\* (interruptedTurnClosers, commitPrepared, lastTurn).
LogLegal == Legal(log) /\ Legal(Recovered)

\* What had an effect is in the log whatever crashes: a request that reached the
\* model by its step (afterCheckpoint), a body that ran by its call ("a
\* top-level tool body runs only after its recorded call is durable").
RequestsRecorded ==
    \A r \in requested : \E i \in 1..durable : log[i] = StepStart(r[1], r[2])
EffectsRecorded ==
    \A c \in invoked : \E i \in 1..durable : log[i] = ToolCall(c[1], c[2], c)
Recorded == RequestsRecorded /\ EffectsRecorded

\* No result, real or synthetic, tells the model that a body did not run which
\* ran: TOOL_NOT_STARTED invites a retry (interruptedTurnClosers).
EffectsNotDenied ==
    \A e \in ToSet(Recovered) :
        e.type = "tool/result" /\ e.call \in invoked => e.code \in {"ran", "unknown"}

\* No crash makes an effect disappear: neither its record, nor, in the repaired
\* log, the possibility that it happened.
EffectsSurvive == Recorded /\ EffectsNotDenied

\* What the last step of a log asked of its tools, and what answered it.
Heard(x, e) ==
    CASE e.type = "step/start" -> [asked |-> <<>>, answered |-> <<>>]
      [] e.type = "assistant/message" -> [x EXCEPT !.asked = @ \o e.calls]
      [] e.type = "tool/result" -> [x EXCEPT !.answered = Append(@, e.call)]
      [] OTHER -> x
LastStep(events) == Over(Heard, [asked |-> <<>>, answered |-> <<>>], events)

\* In the step a crash interrupts, the repaired log answers every call of the
\* assistant message once, in the order of the message, however many of its
\* calls and results were stored.
InterruptedAnswered ==
    TraceOf(Survivors).openStep # Null => LastStep(Recovered).answered = LastStep(Recovered).asked

\* The log is a valid transcript, repaired or not: legal event by event, and
\* complete in the step a crash interrupted.
TranscriptHolds == LogLegal /\ InterruptedAnswered

\* A repair reaches the same log however often it is cut short: what inspect
\* shows of a stored session is what load commits later (prepareCore computes
\* the closers anew from whatever a torn commitRepair left).
RepairConverges == [][life = "prepared" => Recovered' = Recovered]_vars

\* A session that went down is live again, also behind crashes inside its
\* repair ("revision retries converge").
Resumes == life = "down" ~> life = "live"

\* Recovery converges: to one log, and to a live session.
RecoveryConverges == RepairConverges /\ Resumes

(***************************************************************************)
(* What the code says of itself and does not do.                            *)
(***************************************************************************)

\* session-persistence: load closes a crashed turn with "a risk-classified error
\* tool/result per unanswered assistant call".  Every call of the turn that the
\* repair closes has a result.
UnansweredCallsClosed ==
    closers # <<>> =>
        LET answered == {e.call : e \in {r \in ToSet(Recovered) : r.type = "tool/result"}}
            asks == {e \in ToSet(log) : e.type = "assistant/message" /\ e.turn = LastTurn}
        IN  \A e \in asks : ToSet(e.calls) \subseteq answered
=============================================================================
