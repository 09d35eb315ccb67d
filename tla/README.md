# MiNeko Harness, verified

TLA+ modules, TLC runs and TLAPS proofs about the core of MiNeko Harness: the
driver of an agent, the scheduler of its tool calls, the append-only log of a
session, its durable copy and the files it lies in, the recovery of a session whose
process died, and the components that act on a driver: retries, approvals, jobs and goals.

Paths below are relative to `src/packages`. `PROJECT.json` holds, for every
definition that models code, the lines it models (`map`), and for every property
a change of the model that breaks it (`mutants`).

- [The system](#the-system)
- [Plan](#plan)
- [Modules](#modules)
- [Runs](#runs)
- [Fairness](#fairness)
- [Proofs](#proofs)
- [Findings](#findings)
- [Not modelled](#not-modelled)

## The system

MiNeko Harness is a tree of plugins (`<group>/<package>`, loaded by the vendored
Cordis framework) around one data structure, the append-only event log of a
session. What the model sees is derived from that log, and so is everything that
is persisted; a session is resumed by replaying it. The code runs on one thread:
between two awaits nothing else runs, *except listeners*, which run inside the
`append`, `insert`, `setPhase` or `notify` that triggers them and may call the
component back. The interleavings that matter are therefore those at an await,
at a listener, and at the end of the process.

| Component | State | Operations | What makes it correct |
|---|---|---|---|
| Agent driver `core/agent-loop/src/agent.ts`, inbox `core/agent/src/inbox.ts` | phase (idle, maintenance, running; turn, step, abort controller, latched wake), inbox of two queues | `send`, `wakeDriver`, `cancel`, `runMaintenance`, `kick`, `turn`, `preStep`, `step`, `whenIdle` | the log it appends is legal on every exit; no input is lost, doubled or left with nobody to claim it; nothing starts behind an abort; disposal ends |
| Tool-call scheduler `core/agent-loop/src/tool-calls.ts` | group, pool in flight, slots, commit cursor, first failure | `executeToolCalls`, `runGroup`, `fillPool`, `commitReady` | results in model order, one each; exclusive calls alone; abort starts nothing; a failure drains what runs |
| Tool registry `core/tools/src/index.ts` | tools by scope layer; per call its prepared execution | register, `prepare`, dispatch, finalize, post hooks | a prepared call settles once; policy before body |
| Session store `core/session/src/index.ts` | live sessions, their events, surface | create, restore, `append`, `flush`, dispose | numbering without gaps; listeners see committed events; re-entrant appends refused |
| Event order `core/session/src/invariant.ts` | the bookkeeping of a log | validate, apply | turns, steps and calls nest |
| Write path `session/session-persistence/src/write-behind.ts` | queue, active write, deadline, barrier | `enqueue`, `flush`, `drainBarrier` | the stored log is a prefix of the log, in order; a resolved flush is durable; nothing is stranded |
| Coordinator `session/session-persistence/src/coordinator.ts`, `preparations.ts` | per session: initialization, stored cursor, retirement; cache of prepared sources | create, load, inspect, flush, retire, commit of a repair | one owner per id at a time; a source is committed only if still current |
| Backends `session/session-persistence-jsonl`, `-sqlite` | files or rows | materialize, append, repair | an append is all or nothing; a published log is never replaced |
| Repair `core/session/src/repair.ts`, checkpoints `session/session-checkpoint-policy` | none; the log | `interruptedTurnClosers`; flushes before request, tool body and step | what had an effect is recorded; an interrupted turn is closed into a valid transcript |
| Job registry `jobs/jobs-local` | jobs, waiters, reported marks, owner cleanups | register, read, kill, wait, settle, dispose of owner and service | one outcome; completion reported once; disposal leaves no running job |
| Request retry `llm/llm-retry` | active recoveries; retry count in the log | recover, backoff, dispose | retries numbered and bounded; an abort ends the wait; nothing after disposal |
| Approval `interaction/user-approval`, its channel in `host/apiproxy` | questions in flight, entries shown to clients | request, decide, dispatch, respond | asked and decided pair up inside a step; an answer counts once, for its own call; a late one is dropped |
| Goals `goal/goal`, round driver `goal/goal-round-driver` | goal folded from the log, its activation; one reservation, a serialized loop | create, edit, pause, resume, complete, block, clear; drive, fence, settle | only the next round of an armed goal enters, behind a checkpoint; a cancel stops the goal; an armed goal does not stall |
| Schedule `schedule/schedule` | reminders folded from the log, a timer, one drive and its idle wait; a queue of transactions | create, list, delete; drive, arm, deliver, dispatch, dispose | what is due goes out, once; tools tell only what is durable; nothing behind the disposal |
| Subagents `subagent/subagent` | descriptors, activations, child agents | spawn, continue, report, cancel | a child settles once, its parent's end ends it |
| Compaction `compaction/compaction-basic` | region chosen, summary | compact | the region replaced is the one summarized |
| Agent factory `core/agent-loop/src/index.ts`, `core/agent` | registry of live agents | create, rollback, dispose | one agent per session; a failed creation leaves nothing |
| Everything else | | | see [Not modelled](#not-modelled) |

How they interact: a client or another plugin calls `send`; the driver opens a
turn, claims a batch from the inbox, and dispatches `agent/pre-step`, whose
listeners (checkpoint policy, compaction, plan mode, hooks) may reject, rewrite
or throw. It appends `step/start`, streams a request through `llm/stream`
(checkpoint, retry), appends the assistant message and hands its calls to the
scheduler, which drives the registry's `tools/execute` chain (checkpoint,
approval, guards) and appends `tool/call` and `tool/result`. Every append is
published as `session/event`; the coordinator hears it and enqueues the event
for its write path, and `session/flush` awaits that path's barrier. When the
process dies, the stored prefix is all that is left: the coordinator reads it,
closes the interrupted turn with synthetic events, stores them, and a new agent
continues from the last turn number.

What is hard: steps of listeners inside the driver's own steps; aborts that land
between two awaits; inputs that arrive while a driver converges to idle; several
dispatches settling in any order while commits are awaited; a write that fails
while a barrier overlaps it; a crash between any two of log, store, request and
effect, also inside a repair. `PROJECT.json` lists these as `hazards`, each at the
line where it bites.

## Plan

Done:

1. **WriteBehind** with the abstract **DurableLog**.
2. **SessionTrace** (the event order) and **AgentLoop** over it.
3. **ToolScheduler** with the abstract **OrderedCalls**.
4. **SessionRecovery**, which composes what 1 to 3 promise with crashes.
5. **JobRegistry**, the first of the components beside the driver.
6. **PersistenceCoordinator** with its cache, up to the creation of sessions.
7. **JsonlStore**: what the write path's `write` and the recovery's `commitRepair` do to the disk.
8. **OpenStep** over **OpenTurn**: **RequestRetry** and **Approval** inside the open step of a turn.
9. **GoalRounds**: the goal service and its driver on one agent's loop and inbox.
10. **Schedule**: reminders folded from the log, the runtime that delivers them and the tools.

To do, in this order:

1. **PersistenceCoordinator**: the sessions that go live without a preparation (`create`,
   `onCreated` with its four cases, `adoptLivePrefix`), `readFrom`, the teardown; shown to implement
   an abstract *owned store* (each id has at most one writer, and a reader sees a prefix of
   what was written).
2. **SessionStore** (`core/session/src/index.ts`): create, restore, append with its
   listeners and the refusal of re-entrant appends, dispose; then the inbox
   hazard of AgentLoop that needs the dispatch of events.
3. **AgentFactory** (`core/agent-loop/src/index.ts`): creation, rollback at each await, disposal. With it
   the tool registry's own chain (`core/tools`: prepare, dispatch, finalize, nested calls)
   joins ToolScheduler.
4. **SubagentRuns**, **Compaction**: last, because they rest on all of the above.

## Modules

Each component has an `MC` module, which gives TLC the symmetry where there is one,
and the components proved about have a `...Proofs` module, which extends it with
their theorems. Two of these extend two components, and one component of each pair has names of its
own for that: `SessionLogProofs` extends SessionRecovery and WriteBehind (`WriteSpec`, `WriteInit`,
`WriteNext`, `WriteTypeOK`), `BackgroundProofs` extends JobRegistry and Schedule (`ScheduleSpec`,
`ScheduleInit`, `ScheduleNext`, `ScheduleTypeOK`). Several invariants that belong together are one property of a run, named
for what they say together (`WritePathHolds`, `StopsAreKept`); its parts are stated one by one in the
module. A definition that
begins with the comment `Mutant:` is a plausible bug of the definition below it
and is used by no specification.

### WriteBehind, DurableLog

`WriteBehind` has the fields of `SessionWriteBehind` as variables (`pending`,
`timer`, `deadlineExpired`, `automaticPaused`, the active write as `op`, `batch`
and `background`, the barrier by where `drainBarrier` stands) and, from the
coordinator, the session's initialization and the flush calls that wait for it.
Events are the numbers 1, 2, 3... An action is one synchronous job: an enqueue, a
timer callback, a promise reaction, or what runs between two awaits of
`drainBarrier`. A write stores its whole batch or nothing, which is the contract
of the options' `write`.

`DurableLog` is what callers may rely on: a log that grows, a durable prefix that
grows, and flush calls that resolve only when what was logged before them is
durable. `ImplementsDurableLog` is the refinement: `durable` is `Len(stored)`, and
a call is waiting whether it waits for the initialization or the barrier.

### SessionTrace, AgentLoop

`SessionTrace` is the bookkeeping of the session-invariant companion: `Valid`
(`validateEvent`) and `Advance` (`applyTransition`) for turn, step, assistant
message, call and result events. It is shared by AgentLoop and SessionRecovery.

`AgentLoop` models `ReactLoopAgent`: the phase (`kind`, `turn`, `step`, `reason` of the
abort, `wakeRequested`), the inbox, the driver's position `pc` in
`kick`/`turn`/`preStep`/`step`, and the factory's `dispose`. A step of the driver ends
wherever other code can run: at an await, in the listeners of an appended event
(`Publishing`: there a change of the inbox is refused, because it is an append),
in those of an inbox insertion (`send` is `Send` and then `WakeAfterSend`, and a listener may
cancel in between), and in those of a status change (`Converge`, then `Replay`).

Abstracted: what happens inside the open step is its result (`StepSettles`); hooks keep
all or none of the claimed batch and may add context; senders do not nest inside
the listener of another send; a cancel that clears a non-empty inbox while an
event is published throws in the code and is left out (listed as a hazard);
messages are submitted once each; maintenance is not started, and nothing sent,
once disposal has ended or, for maintenance, begun.

### ToolScheduler, OrderedCalls

`ToolScheduler` models `executeToolCalls` and `runGroup` with what the scheduler sees
of the registry. Calls are their positions in the assistant message. The local
variables of `runGroup` are variables (`slots`, `inFlight`, `aborted`, the counters); beside
the scheduler, dispatches settle or reject in any order, bodies start, the signal
aborts, and the registry reclassifies a call that has not started, because a
commit's hooks may replace a tool.

`OrderedCalls` is what the log shows: calls and results in model order, a result
behind its call, a return only when all are answered. Abstracted: contents and
contexts of results, the `concluded` flag, whether a result needs post hooks,
failures of the appends inside `start` and the skip of unstarted calls, and
messages that name the same call id twice.

### SessionRecovery

Composes the promises of the others with crashes. The driver is reduced to the
events it logs and the three flushes it awaits (`session-checkpoint-policy`: before a
step, a request and a tool body); the write path is a durable prefix that grows
(what `DurableLog` promises); `Crash` drops the rest. `Closers` is
`interruptedTurnClosers`, the scan and the synthetic events; `Prepare`, `CommitRepair`, `RepairFails`,
`RepairCrashes` and `Resume` are `prepareCore` and `commitPrepared` with every way a repair can be
cut short; `LastTurn` is what the resumed agent counts on from. `Legal` folds the rules of
`SessionTrace` over a log.

Abstracted: a step may end at any time, which covers request failures and
scheduler failures; stored prefixes end at an event (the torn last line is the
backend's business); another owner's changes and the cache of prepared sources
are PersistenceCoordinator's.

### PersistenceCoordinator

One id of `PersistenceCoordinator` with its entry in `SessionPreparations`. `entry`, `chain`, `state` and
`session` are what the maps `entries`, `chains`, `states`, `live` and `retirements` hold for the id. Each
caller makes one call; its `stage` says behind which await of `prepare`, `load`, `inspect` or
`append` it stands, so that between any two of them other callers, the chain and the live
session may act. The first operation of `chain` is the running one; its `step` is
the backend call it awaits. `caller`'s `missed` and `ahead` compare the view it got with what had been
accepted when it called, and with what is stored when it got it.

Of the log the model keeps the length, which is its revision too (the log is
append-only), and whether its last turn is open and owes closers; a repair appends
one. A prepared source is the length and flag it was read with, and the number of its
read stands for the Session built from it. The write controller is WriteBehind's; here
it hands over everything pending, at any time. Evictions are caused by sources of other
ids, which are only there as `Evict`. A failing repair stores nothing here; SessionRecovery
has the partial ones. `slipped` remembers that finding 7 happened, so that
`StoredUnlessSlipped` says that nothing else can lose an event.

Abstracted: metadata, working directories and torn tails; a detached append has one
event, and is made by a caller that sees no live session; the id goes live only by
publication of its preparation (see the plan).

### JobRegistry

`JobRegistry` has the fields of a job's record as functions of the job (`status`, `owner`,
`reported`) and what its producer really does (`producer`: a job whose record is terminal
may still run, when its cancel threw). A wait call has a stage, because three
reactions stand between the abort of a wait and the end of its function; the
number of `waiters` of a job are the calls whose stage counts (`Waited`). An owner's
scope goes from `active` through `unloading` (it takes no new effect) and `cleaning`
(`disposeOwned` awaits) to `gone`; the service from `up` through `draining` to `down`. Settlement
(`settle`) runs without interruption and is shared by the reaction to `done` and by the
teardown. `told` and `notices` record who heard of a completion, `excused` the jobs somebody
cancelled, `orphaned` those whose cancel threw in a teardown.

Abstracted: `list`, `get`, change notifications, output and labels; which of wakeup and
injection a notice takes; a starter that starts another job while it runs; a
`kill` whose cancel throws changes nothing. Callers may reach every job, although
the code lets them reach only their own. Two facts are the framework's: a scope
that unloads refuses new effects, and the controllers that let an owner start
jobs are gone when the service is being disposed.

### JsonlStore

`JsonlStore` is one session's file on a POSIX file system and the processes that may have
the session open. The path is a chain of four directory entries (`made` exist, `kept` survive
a power loss); the content is a sequence of pieces, lines of one event or frames of a
batch, in two copies: `file`, what a process reads, and `disk`, what is synced. Each
system call of `materializePosix`, `appendLines`, `rollbackAppend`, `commitRepair` is an
action, and each may fail (`WriteFails` with any part of the batch written; `CloseFails` and `SyncedCloseFails` are the
closes that reject behind what is already durable). `Crash` ends a process
between any two of them; `PowerLoss` also takes any part of what was not synced. The
coordinator is reduced to its `cursor`, `materialized` and the batch it retains; `Load` is the
scan with its torn tail, `Repair` and what follows the repair.

Two situations are named in the properties, because the code gives up its promise
there. `damage`: a rejected append left pieces in the log (`remnant`), because its rollback failed, or because its
write and sync succeeded and the close behind them failed, which nothing rolls back. The retry is then written behind
them (`buried`) and the log cannot be read any more; what an append reports stored from there on is not
counted in `acked`, while what was reported before still survives. `unnamed`: the log was loaded although the name of its file was not yet synced;
`AppendIsDurable` states the promise without this exception, and fails, as does `RejectedLeavesNothing`, which has none of
the first.

Abstracted: the contents of lines, packed rows, the encoding marker of the root (both encodings are
checked, one per behaviour), Windows; the torn tail of a frame yields any number of its
events. The log is loaded by one process at a time, as the backend's contract demands; two may
create it at once.

### OpenTurn, RequestRetry, Approval, OpenStep

What acts inside the open step of a turn. `OpenTurn` holds what the components share: the
phase of each agent's step and the turn's signal. `RequestRetry` is the plugin `llm-retry`, mounted once for
all agents: `recovery` says where the waterfall of a failed request stands, which has listeners in
front of the plugin's (`upstream`) and behind it (`delegated`, `settling`; `beyond` without the plugin), and `listener` which
instance of the plugin it captured. The log's `llm/retry` and `llm/retry-started` records of the step are
`retries`, from which the next number is read. `Approval` is `request` and `decide` of the service and, of the
host proxy, the registry of pending approvals: a question is logged, dispatched a
promise reaction later, paired with a record by its call id, answered by a client or settled by an abort
or by the teardown, and its answer reaches the race another reaction later. `OpenStep` composes both
with the steps of `step` and `turn` that enter and leave them.

Abstracted: delays have no length; a policy is its mode and its maximum; answerers other
than the host's channel; how questions are shown, and shown again to a client that reconnects.
A retry stays in the step that failed, as the code has it.

### GoalRounds

One agent with its goal and the driver. A handler runs without interruption,
together with every listener it calls, and these call each other: a pass of the driver queues a round,
the idle agent starts its turn and claims it, the driver hears of the claim. The operators of the module
therefore take the whole state, a record of `goal`, `agent` and `driver`, and return the state
behind the call; an action applies one of them. `goal.ref` numbers the changes and stands
for the goal's id and revision. A message is a round or a human prompt; the inbox counts its
steering. `driver.flushing`, `outdated` and `settling` count the passes that await a
checkpoint (before or after something newer was logged) and those that have ended.

`goal.phase = "corrupt"` is a log the strict fold refuses. With `UpstreamHooks` the hooks that run in front
of the driver may await behind its decision.

Two exceptions are in the properties. A maintenance job holds the agent while its status stays idle
(`maintained`): the driver may then reserve without its own checkpoint, and a cancel that clears the queue
can leave an armed goal waiting on an idle agent. And a first pass that blocks the goal at its
limit requests a drive before its own loop is registered, which starts a second loop beside it (`nested`,
finding 8): `CheckpointedFirst` speaks of one loop, and `FencedRounds` does not promise that a goal is still
armed where a second loop's failing checkpoint may disarm it between the driver's decision and the step.

Abstracted: the contents of prompts and objectives, a `followup` that throws, removal
of single messages, the agent's retirement and session starts. A driver is loaded again
when its predecessor's loops are over and the agent is in no turn; the reaction between a turn's end
and the idle phase is part of the turn's end.

### Schedule

The reminders of one root agent: the log's `schedule/change` events and follow-ups, the `ScheduleRuntime` as
`runtime` (its timer, `requested`, where its one run stands, `idleWait`, `stopping`, `faulted`) with the
agent's `queue` of transactions, the agent's phase, and the calls of the three tools. The clock `now` counts up to
`Horizon` and may be set; a timer counts real time, so the two can disagree, and it reaches no
further than `MaxDelay`. A step is what runs between two awaits of `driveOnce`, of the maintenance task it runs, or
of a tool's transaction; each flush may reject, the follow-up and each append may fail. `Restart` keeps any
part of the log from what was flushed on. The decision, the fold and the advance of fixed-rate records are
operators over the log. So is what a log must be: `Follows` has the rules by which `foldScheduleEvents` refuses an
event, and `Folds`, `Backed` and `OnceInARun` speak of a whole log. The properties say them of `log`, and
`InitialLogsAssumption` of the logs that an agent may be resumed with: earlier runs have left them.

`confirmed` is how much of the log the tools' answers rest on. `neglected` marks where the code leaves what is due to
the next trigger: behind a flush or a follow-up that failed.

Abstracted: prompts, calendars and time zones, the strict decoding of stored changes, the
seed of a forked session, how overdue reminders are worded.

## Runs

Deadlock is not checked where a run has come to its bounds and nothing is left
to do (all but `write_behind`, `jsonl_store` and `open_step`). Liveness is checked without symmetry, on
the instance of the safety properties.

| Run | Bounds | Shows |
|---|---|---|
| `write_behind` | 2 callers, 4 events | `WritePathHolds`: stored, in flight and queued are the log, through failures and retries; a flush is durable; unless a failure paused the automatic path, something will take what is queued, and a failure is not retried unasked. `WriteStateOK`: beside the types, how write, barrier and automatic path stand to each other. `ImplementsDurableLog`. `Drains`: flushes settle, and events get durable by the deadline alone |
| `persistence_coordinator` | 2 callers, 1 event of a live session, 1 failure, eviction or foreign write | `HoldersOwnTheLog`: whoever holds a preparation is the only writer and continues the log. `AnswersMatchStorage`: no view misses what was accepted before it was asked for, what `load` and `prepare` return is durable, and what counts as written is stored. `CallsEnd` |
| `agent_loop` | 2 messages, a resumed log of one turn, 2 steps a turn | `LogWellFormed`, `OnePlace`; `StopsAreKept`: no step behind an abort, no ceiling hidden; `Converges`: turns close, a latched wake runs, disposal ends |
| `tool_scheduler` | 4 calls, pool of 2 | `GroupsHold`: exclusive calls alone, a failure drains what runs, an abort starts nothing. `ImplementsOrderedCalls`, `Settles` |
| `session_recovery` | 2 turns, 1 step, 2 calls, 2 crashes | `EffectsSurvive`: what had an effect is recorded and not denied. `TranscriptHolds`: the log is legal and an interrupted turn answered. `RecoveryConverges`: a repair that was cut short leads to the same log, and the session resumes |
| `job_registry` | 2 jobs, 1 owner and unowned jobs, 2 waits, limit 1 | `ToldOnce`: a completion nobody cancelled is noticed, returned, or about to be, and once. `WorkAccounted`: the work, not only its records, keeps to the limit, and a disposal leaves none. `TeardownIsFinal`: what a teardown forces stays, and is announced to nobody. `DisposalsEnd`, of the owners and of the service |
| `jsonl_store` | 2 processes (one at most once a remnant is buried), 3 events, both encodings | `LogSurvives`: what an append reported stored survives failing calls, crashes and power losses, but for a batch behind what a rejected append left and a log loaded before its name was synced; a log that can be seen holds its first batch and, unless such a batch lies in it, can be read. `NeverClobbered`: of two creations one wins, and only it is told so |
| `open_step` | 1 agent, 2 calls, 2 questions, 3 retries, three policies | `RetriesNumbered`, `QuietAfterEnd`: a cancelled turn requests nothing, a disposed plugin logs nothing. `AnswersInPlace`: a shown question is the one its call asked, and a call is granted what a client allowed for it, in its step. `Settles` |
| `goal_rounds` | goals of at most 2 rounds, 3 changes, 2 disturbances | `RoundsAreCurrent`: what enters is the next round of an armed goal, at its revision, which no cancel has caught, reserved behind all that came before. `KeepsGoing`: an armed goal does not wait on an idle agent |
| `schedule` | 2 calls, 3 instants, 2 activities, 1 disturbance, three logs to start from | `RemindersHold`: the log folds, an occurrence is queued once, tools tell only what is durable, nothing goes out behind a disposal. `GoesOut`: what is due goes out, and turns are not held up |
| `session_recovery_unanswered`, `goal_rounds_replay` | the smallest that show it | what the code says of itself and does not do, see [Findings](#findings) |

Why the bounds are enough. WriteBehind: a batch in flight, one put back, and
events behind both need three events; two callers share, join or follow each
other's barrier; the proofs cover every number. PersistenceCoordinator:
one caller to hold, commit or wait while another interferes, beside a live session, one
event to lose and one trouble; two troubles, or three callers and none, take
longer and show no error either. JobRegistry: a second job in the place of the first, two waits
that end differently, an owner that is disposed beside jobs that have none. AgentLoop: one message being
handled, and one queued behind it, steering it or racing the end; three were run without
an error for the safety properties; `MaxSteps` bounds how often a
step may ask for another request, and two let a ceiling be followed by steering
and by tool results. ToolScheduler: with a pool of two, four calls make a full
pool, one waiting, and an exclusive one on either side; again the proofs cover
every number. SessionRecovery: two turns let a turn follow a repaired one, two
calls are enough for one answered, one started or one unstarted, and of two
crashes the second can fall into the repair of the first. JsonlStore: a batch acknowledged, a
second one cut short and a third behind it need three events; two processes race
for the name, or one repairs what the other left; a race beside a buried remnant is not followed (`RacesBeforeDamage` of
MCJsonlStore), as the remnant has no say in who owns the name; the proofs cover it. OpenStep: a bounded and an unbounded policy that follow each other in one
step, two parallel calls, or one call that asks twice; agents share only whether the plugin and the channel
are mounted. GoalRounds: a goal created, and two changes of it that race a round or a cancel;
two disturbances let a cancel meet a competing prompt, a failed flush or an unload; the safety properties were run with
four changes and three disturbances, where second loops reach further, and are proved for every number. Schedule: two fixed-rate records make a batch
whose dispatches can fail halfway, three instants let one skip an occurrence, two calls queue behind each
other; a disturbance is a failing flush or append, a set clock, a disposal or a crash, and what an earlier crash left
is a log to start from. Two disturbances were run for the safety properties without an error.

## Fairness

- **WriteBehind**: due timers and promise reactions run, a write settles (either
  way), the initialization settles. Nobody is obliged to append or flush.
  `MaxEvents` ends the enqueues; the code's barrier loops while events keep
  arriving, so a flush beside an unending stream of appends is out of scope.
- **AgentLoop**: the driver's next step runs: hooks, requests, tools and
  maintenance jobs settle. No hook is obliged to throw, unless its signal is
  aborted. Nobody is obliged to send, cancel or dispose.
- **ToolScheduler**: the scheduler's next step runs, and each dispatched body
  settles on its own (weak fairness for each call). Nobody is obliged to abort.
- **SessionRecovery**: somebody asks for a session that is down (`Prepare`, `Resume`),
  and the store does not refuse its repair for ever (strong fairness of
  `CommitRepair`, since each refusal disables it until the next preparation).
- **PersistenceCoordinator**: the operation at the head of the id's chain runs and ends
  (either way), a caller goes on behind its awaits, a holder publishes or releases, a
  live session's buffer is written (module WriteBehind shows when). Nobody is obliged to
  call, abort, append or dispose; failures, evictions and other processes only happen.
  The bound on them is what makes the revision retries end, as the package's README says
  ("continuous external writers can delay").
- **JobRegistry**: reactions and disposal effects run, and a producer whose cancel
  returned settles, which is its contract (`jobs/jobs/src/types.ts`); one whose cancel threw
  need not. A wait need not time out, nobody is obliged to kill or to dispose.

- **JsonlStore** states no liveness: a process may always stop.
- **OpenStep**: promise reactions run, the other listeners of a waterfall settle, an aborted
  request and the calls of an aborted step end. A client may never answer, no delay has to
  run out, nobody has to cancel or dispose.
- **GoalRounds**: hooks, steps, maintenance jobs and flushes return, and the driver's loops go
  on. Users and failures are not obliged to anything.
- **Schedule**: promise reactions run, flushes settle and due timers fire, time passes, turns and maintenance
  tasks end. Nobody is obliged to prompt or call, and flushes may fail.

## Proofs

All proofs are by an inductive invariant, one step per action, one leaf per
conjunct an action can disturb. They hold for every value of the constants:
any number of messages, calls, events, callers and any size of the pool. The
only assumptions are that bounds are natural numbers, that there is at least
one call, one place in the pool and one round in a limit, that the value for "nobody" is not an actor, that
the callers of the coordinator are finitely many (a number is free for the next read), that the
intervals of reminders and the reach of a timer are positive, and that a log of reminders an agent is resumed on was
left by earlier runs: that it has what `RemindersHold` says of every log a run leaves.

**SessionLogProofs**, recovery. What the repair, the companion and a reader make of a log are
folds over it (`ScanOf`, `TraceOf`, `LastStep`, `Observation`). The provers cannot instantiate an
induction theorem, so the module makes its own from a least number (`LeastNumber`, `UpTo`): a fold
exists (`FoldExists`), is the only one (`FoldUnique`), and one more event is one more
application of its body (`Unfolded`). The invariant speaks of every prefix of the log, because a
crash may leave any of them: in a `Good` log each prefix is `Fine`, that is, legal so far, its
trace and its scan agree on turn and step (`Paired`), its trace counts (`Counted`, `Latest`), the
calls of the open step are its asked ones and each is pending or answered, in order (`Answering`),
and a pending call that was logged is `recorded` (`Matched`). An event that `Fits` keeps it so
(`GoodKeeps`): the driver appends only such events (`DriverAgrees` says where it stands in
its log, `StepLogged` that a call lies in front of its mark), and so does the repair, closer by
closer (`CloseOne`). Hence a repair that stored the first `k` closers leaves a good log whose
closers are the rest (`Repairing`), which is `RepairsConverge`; a repaired log answers the
interrupted step (`RepairedLog`), which is `TranscriptValid`; and a closer says "not started" only of a
call that is not recorded, so, as every body that ran has its call in the durable prefix, of none
that ran (`ClosersDoNotDeny`), which is `EffectsSurviveCrashes`. TLC checked the invariant
on the bounds of the run before it was proved. `RepairsConverge` is the safety half of
`RecoveryConverges`.

**SessionLogProofs**, write path. `Conservation` is inductive with the types. `FlushIsDurable` and
`NoStrandedEvents` are not: they need to know that a barrier that has drained found
the queue empty and no write active, that only the barrier's own write is not a
background one, that a failed barrier leaves the automatic path paused, and that a paused path holds no deadline. That
is `StageInv`, which the run checks with the types as `WriteStateOK`, with bounds on each caller's target. From it also `OneWriteAtATime` and
`PausedUntilAsked`. `WriteRefinement` maps every step to a step of `DurableLog` or to a stutter.

**AgentLoopProofs** begins with what each event does to a trace. `Inductive` is the conjunction of the types, `DriverAgrees`, the latch, the stage of a pending
wake and the stickiness of the ceiling. `LogLegal` follows since `DriverAgrees` determines the trace's
open turn and step at every stage from which the driver appends. `NoStepAfterAbort` and
`CeilingNotHidden` are action properties from the same invariant. `ShownOnce` is about the concatenation
of the two queues, what is claimed and the log: its lemmas say how a splice, a claim and an append move one
message through it.

**ToolSchedulerProofs.** `Inductive` relates counters, log, slots, calls in flight and the
group's mode: slots are the settled calls the scheduler has seen, calls in
flight are the started ones it has not, an exclusive group has started one call,
and a body that runs was dispatched. From it `BarriersKept`, `NothingFabricated`, `SettlesQuiet`,
`AssertionHolds` (the assertion that a group commits all it started), `NoCallAfterAbort` and `Refinement`.

**BackgroundProofs**, jobs. `IInv` adds three things to the types, `CompletionTold` and `NoticedOnce`. `RecordInv`: a
terminal record means the producer was heard or orphaned, a live record that is
reported was cancelled by somebody, only terminal records were noticed. `WaitInv`: a
wait that waits does so for a live job, one that is released for a terminal one.
`LifecycleInv`: a live job's owner has a cleanup in place, or is cleaning and has claimed
the job's report. From them also `DisposalQuiet` and the two parts of `TeardownIsFinal`; `WorkWithinLimit` needs
besides that the records which count are within the limit (`LimitInv`) and that work
which is not orphaned has such a record.

**BackgroundProofs**, reminders. `ActiveRecords` is a recursive function over the log, so its lemmas are made as
those of the repair are: the fold exists and is the only one (`FoldExists`, `FoldUnique`), and one event more is one
more application of `After` (`OneMore`). A log that folds is `Tidy`: its active records are typed, were created, and have ids
of their own. Each part of a log's soundness has a lemma for one event more (`FoldsOneMore`, `BackedOneMore`,
`OnceOneMore`, `RunsOneMore`) and one for a log cut short by a crash (`CutShort`). `QueuedOnce` is not inductive:
nothing in it says that a record moved on when it was queued. `LogSound` therefore has `AheadBut`: until a dispatch is lost,
and the runtime is `faulted`, the target of an active record lies behind all that the run has queued of it, which rests on the
arithmetic of `Occurrence`. While a delivery is logged this fails for the records still to be dispatched, so it is stated
with the exception of their ids, and the delivery is an induction over its dispatches (`DeliveryStarts`, `DeliveryGoesOn`, `Delivered`); a
dispatch may fail behind each of them. `NextIdIsNew` counts the ids given. `Sound` says how the runtime stands to the
queue: in it once while a run is requested, first in it between preflight and barrier, without a timer once it is
disposed. `Placed` says the same of the calls, so that nothing is appended between a call's flush and its look at the fold,
and with `GoalsReached` an answer that there is no such record rests on what is durable. A restart is an initial
state on a shorter log (`NewAgent`). TLC checked `ScheduleInv` with two disturbances before it was proved.

**OpenStepProofs.** `IInv` has two halves. `RetryInv`: the numbers of `RetriesNumbered`, that a policy's
records have a latest one (which `PreviousRetry` reads), that a delay's record is still the last of its step, and that only
a captured listener waits. `AskInv`: how a question's race, its place in the channel and its logged outcome stand, that a
call has one undecided question at a time (so that an entry has just one record to be paired with, its own, `OwnCandidate`), and that
whatever allows a call went through a client. From it `RetriesInOrder`, `EntriesPaired`, `QuietKept` and `AnswersKept`.

**GoalRoundsProofs.** The operators of GoalRounds take a world to a world, and so do the lemmas: what a call does
to a world (`ChangedIs`, `ClaimedIs`, `RequestDriveIs`...), then what it keeps of the invariant (`ChangeKeeps`,
`ClaimKeeps`, `PassKeeps`, `TurnEndedGood`...); only the last ones speak of steps. `Inv` is `Core` and `Loops`. That what enters is wanted
rests on the gap between the driver's last check and the step (`Gap`), into which only a second loop reaches; that needs `Entering`
(a round behind the check is the claimed attempt) and `Attempt` (an attempt of the present change fits the goal's limit, and nothing is
flushed beside it, so that no failing checkpoint can disarm it). `Stops` says where a cancel is remembered: while
its turn lasts by the abort, and behind it by a goal that is not wanted. A reservation behind what is durable needs that what is not durable
is owed to a checkpoint or to the admitted attempt (`Owed`), and that no older round of the same change is left to enter
(`Queued`, `InHand`, `Rested`). `Loops` relates the passes that are live to `state.run`. `RoundsCurrent` assumes
`~UpstreamHooks`, because with awaiting hooks the property is false (finding 2); the invariant and the types hold with them too.

**JsonlStoreProofs.** `Held` adds to the types what makes `NeverClobbered` inductive: an owned log is visible,
only the process that published the log ever works on the last entry of the chain, and one that writes or repairs
holds the log already. The lemmas take the ways a call goes on (`GotoHolds`, `TakeHolds`, `RejectedHolds`,
`ResolvedHolds`, `StopHolds`) once for all actions. `LogSurvives` is about beginnings of the file, and needs `Sound`
besides: some number of pieces, behind which every cut that is due lies, is the same in the file and on the disk and
reaches what was acknowledged (`Anchor`); both contents can be read unless a remnant is buried (`Contained`); the names are
synced from the top (`Names`, `OnChain`); and as long as no rejected append has left anything, through a failed rollback or
a failed close, the owner's cursor and its cuts lie where records end (`Reaches`). Behind a failed close only the anchor holds:
the cursor then lies in front of records that are in the log. TLC checked `Sound` on the bounds of the run first. The beginning that counts (`Scanned`) is a greatest number, which exists
since there is a least bound (`LeastNumber`, `Greatest`), without an induction over the content.

**PersistenceCoordinatorProofs.** `HoldersOwnTheLog` says little of what keeps it: between the commit that makes a
caller the owner of a source and the publication, appends, other calls, a session that retires, evictions and
cancellations run. `IInv` therefore has, beside the types: what a call's stage says of its call, number and source (`Fit`,
`Shared`), that a source as long as the log shows its end (`Fits`), what is known of the events accepted before a call
(`Informed`), that a pending operation is awaited by its caller and that he has no other (`Answered`), that a number is claimed
once and the entry's phase is its claimer's (`OneClaim`), that an entry's read is behind every commit of an earlier entry
(`ReadsQueued`), what the operation at the head may count on while it runs (`HeadHolds`), that the session owns the state and has
one operation on the chain (`Owns`), how far cursor and writes are (`Counts`), and that who keeps a commit of the entry
keeps the log's state (`EntryCurrent`). TLC checked it on the bounds of the run before it was proved. The lemmas take the
chain's four ways to change (`Joined`, `Shifted`, `Stepped`, `Dropped`) and the callers' ways to go on (`Like`, `GoesOn`) once for all
actions; a step that leaves the log, the state and the session alone is `Quiet`, one of the session alone a `SessionStep`.

Only model-checked are the liveness properties: they rest on fairness and on `ENABLED`, which the provers do not
reach.

## Findings

Where the code and what it says of itself differ. Two have a run in which TLC shows the
behaviour:

1. *Calls of an ended step stay unanswered* (`core/session/src/repair.ts:52`, run `session_recovery_unanswered`). The scan
   forgets pending calls at `step/end`. A step that a scheduler failure ended has calls without
   results, and the repair of its turn adds none, although the persistence README
   promises one for each unanswered call.
2. *A stale round may enter behind an awaiting hook* (`goal/goal-round-driver/src/index.ts:401`, run `goal_rounds_replay`). The driver's
   check before and after the downstream hooks is the last thing *it* does, but a hook registered in front of
   it, such as `context/agent-instructions` or the skill tool, awaits behind it. A goal that is edited, paused or cleared
   in that await gets a round of its old revision; the fold then throws on every later read, so that the
   session's goal can neither be read nor resumed nor cleared.

The others are stated in the modules as definitions that TLC refutes when they are
checked on the bounds of the module's run; no run of the project checks them.

3. *An append may be reported durable on a name that is not* (`session/session-persistence-jsonl/src/index.ts:666`, `AppendIsDurable`
   of JsonlStore). The log is visible from `link` on, before its directory is synced. If
   the process dies there and the session is resumed, appends sync the file and nobody the
   directory; a power loss then takes the name with every acknowledged event.
4. *A disposal may latch a wake* (`core/agent-loop/src/agent.ts:178`, `DisposalNeverLatches` of AgentLoop). The guard looks at the first abort
   cause. A user's cancel that keeps the inbox, then a disposal, then a waking
   send: the cause is still `user`, the wake is latched, and the disposed agent
   opens another turn before `whenIdle` resolves. The comment above it and the package's
   README say that disposal never latches.
5. *A live driver may leave work it was woken for* (`agent.ts:276`, `LiveDriversClaim`). A turn whose first
   step a hook rewrote to an empty one returns without looking at the inbox, and
   a send between the turn's return and the convergence to idle is neither
   latched nor claimed. The comment at `agent.ts:176` says live drivers claim queued work
   themselves.
6. *turn-stopping is dispatched with tool results unanswered* (`agent.ts:290`, `StoppingOwesNothing`). Behind a
   token ceiling, steering makes another step; if that step ends with tool
   results, the ceiling still counts as the turn's end. The event's contract says
   the model owes no response.
7. *A detached append may slip into a live session's log* (`session/session-persistence/src/coordinator.ts:1358`, `FiltersOnlyStored` of
   PersistenceCoordinator). An append that was queued while the id was reserved runs behind the publication, which removed the
   reservation that would have refused it. It is stored; the session's own event of the
   same number is then filtered as already stored, and lost. The comment above the filter says
   that it drops what the initialization stored.
8. *The driver may run two loops* (`goal/goal-round-driver/src/index.ts:215`, `OneLoop` of GoalRounds). The loop's first pass runs
   inside `requestDrive`, before `state.run` is assigned at line 231. If it blocks the goal at its limit, the change is announced, and its listener finds no
   run and starts a second loop. From then on two passes may await checkpoints at once, `retire` of either clears `state.run`
   of both, a round may be reserved while the other loop's checkpoint is pending, and that checkpoint's failure may disarm a goal whose round
   has passed the fence. The comment at line 207 says: "Coalesce triggers onto one agent-local serialized driver".
9. *A failing close rejects a durable append* (`session/session-persistence-jsonl/src/index.ts:677`, `RejectedLeavesNothing` of JsonlStore).
   `appendLines` closes its handle in a `finally`, outside the `try` that rolls back. If that close rejects behind a successful write and sync, the
   append rejects with its batch in the log, the cursor stays, and the retry writes the same events again. The comment above it
   (lines 646 to 650) says that a failure restores the previous size because the unchanged cursor will retry, and leaving
   the bytes would create duplicate sequence numbers. A compressed log
   with the duplicate refuses to load, a plain one is cut there or refuses; `LogReadable` excepts it.

Smaller observations, which the models contain and the properties name: a first write whose directory sync
failed is refused when it is retried, because the log exists; a rollback that fails leaves a remnant, and
the batch appended behind it makes the log unreadable (`buried`), as behind a failed close; the events a torn frame still held are lost by a
crash between the repair's cut and its append; a goal may stall or be driven twice around a maintenance job
(`maintained`); the README of `llm-retry` (line 5) says that every retry opens a fresh numbered turn, while the code retries in the step that failed.

## Not modelled

`PROJECT.json` lists every component with its status. Beside what the plan still
holds, these are left out for good:

- **Vendored, generated and foreign code**: Cordis and its loader, the runtime-type
  compiler, the Python SDK, adapters of foreign agents and protocols.
- **Input and output**: model providers, shells, terminals, sandboxes, file tools, MCP,
  web access. The scheduler sees them as bodies that settle, the driver as a
  request with a result.
- **The browser client and its transport**: another process, a projection of the log;
  large, and without a say in what the log becomes.
- **Derived data**: queries, projections, statistics, titles, telemetry.
- **Composition**: boot, bundles, presets, settings, prompts. Hooks, guards and plan mode
  are listeners; the models let a listener do anything a listener may.
- **Data**: contents of messages, results, summaries and prompts; byte-level encodings.
