---------------------------- MODULE WriteBehind ----------------------------
(***************************************************************************)
(* The write controller of one live session: SessionWriteBehind, and the    *)
(* part of the persistence coordinator that calls it (flush, and the sink   *)
(* createWriteBehind gives it).                                             *)
(*                                                                          *)
(* The code runs on one thread.  An action is one synchronous job: what     *)
(* runs between two awaits, a promise reaction, or a timer callback.        *)
(* Session events are the numbers 1, 2, 3, ... in the order of the log; a   *)
(* durable write either stores its whole batch or stores nothing (the       *)
(* contract of SessionWriteBehindOptions.write).                            *)
(***************************************************************************)
EXTENDS Naturals, Sequences

CONSTANTS
    Callers,    \* the callers of the coordinator's flush
    MaxEvents   \* bound: how many events the session appends

ASSUME MaxEventsAssumption == MaxEvents \in Nat

VARIABLES
    logged,           \* how many events the live session has appended
    stored,           \* the durable log
    pending,          \* this.pending
    batch,            \* the batch the active write owns
    op,               \* the stage of the active write; "none" is active = undefined
    background,       \* whether the active write is a background one
    timer,            \* this.timer is armed
    deadlineExpired,  \* this.deadlineExpired
    automaticPaused,  \* this.automaticPaused
    continuing,       \* a continueAutomatic reaction is queued
    barrier,          \* where drainBarrier stands; "none" is barrier = undefined
    init,             \* the session's initialization: "running", "ready", "failed"
    caller,           \* where each flush call stands
    target            \* how many events were logged when the call was made

controller == <<pending, batch, op, background, timer, deadlineExpired,
                automaticPaused, continuing, barrier>>
flushCalls == <<caller, target>>
writeVars == <<logged, stored, controller, init, flushCalls>>

Events(n) == [i \in 1..n |-> i]

Stages == {"none", "writing", "committed", "caught"}
BarrierStages == {"none", "overlapping", "overlapped", "draining", "drained", "failed"}
CallStages == {"none", "init", "barrier", "resolved", "rejected"}

WriteTypeOK ==
    /\ logged \in 0..MaxEvents
    /\ stored \in Seq(Nat) /\ pending \in Seq(Nat) /\ batch \in Seq(Nat)
    /\ op \in Stages /\ background \in BOOLEAN
    /\ timer \in BOOLEAN /\ deadlineExpired \in BOOLEAN
    /\ automaticPaused \in BOOLEAN /\ continuing \in BOOLEAN
    /\ barrier \in BarrierStages
    /\ init \in {"running", "ready", "failed"}
    /\ caller \in [Callers -> CallStages] /\ target \in [Callers -> 0..MaxEvents]

WriteInit ==
    /\ logged = 0 /\ stored = <<>> /\ pending = <<>> /\ batch = <<>>
    /\ op = "none" /\ background = FALSE
    /\ timer = FALSE /\ deadlineExpired = FALSE /\ automaticPaused = FALSE
    /\ continuing = FALSE /\ barrier = "none" /\ init = "running"
    /\ caller = [c \in Callers |-> "none"] /\ target = [c \in Callers |-> 0]

(***************************************************************************)
(* Fragments of actions.                                                    *)
(***************************************************************************)

\* this.active !== undefined
Active == op # "none"

\* startWrite: take the whole pending prefix; any automatic wait is over.
StartWrite(inBackground) ==
    /\ op' = "writing" /\ background' = inBackground
    /\ batch' = pending /\ pending' = <<>>
    /\ timer' = FALSE /\ deadlineExpired' = FALSE

\* Mutant: only the expired deadline is dropped.
KeepsTimer == deadlineExpired' = FALSE /\ UNCHANGED timer

\* cancelAutomaticWait: drop the deadline, keep the pending events.
CancelAutomaticWait == timer' = FALSE /\ deadlineExpired' = FALSE

\* Mutant: a failed batch is queued again behind what came after it.
RetainedBehind == pending \o batch

\* A failed batch goes back in front of what came after it.
Retained == batch \o pending

\* Settling the barrier's promise settles every call that joined it.
SettleBarrier(outcome) ==
    /\ barrier' = "none"
    /\ caller' = [c \in Callers |-> IF caller[c] = "barrier" THEN outcome ELSE caller[c]]

\* Mutant: the barrier resolves on the first awaited write.
DrainOnce == /\ SettleBarrier("resolved")
             /\ UNCHANGED <<op, background, batch, pending, timer, deadlineExpired>>

\* The loop of drainBarrier: write while events are pending, then resolve.
DrainLoop ==
    IF pending # <<>>
      THEN StartWrite(FALSE) /\ barrier' = "draining" /\ UNCHANGED caller
      ELSE /\ SettleBarrier("resolved")
           /\ UNCHANGED <<op, background, batch, pending, timer, deadlineExpired>>

\* Every queued promise reaction runs before the next timer callback.
Microtasks ==
    continuing \/ op \in {"committed", "caught"}
               \/ barrier \in {"overlapped", "drained", "failed"}

(***************************************************************************)
(* The producer and the timer.                                              *)
(***************************************************************************)

\* Mutant: the timer is armed for a path that stays paused.
EnqueueStaysPaused ==
    /\ logged < MaxEvents
    /\ logged' = logged + 1
    /\ pending' = Append(pending, logged + 1)
    /\ IF barrier # "none" THEN UNCHANGED <<timer, deadlineExpired>>
       ELSE IF automaticPaused THEN timer' = TRUE /\ deadlineExpired' = FALSE
            ELSE timer' = (timer \/ pending = <<>>) /\ UNCHANGED deadlineExpired
    /\ UNCHANGED <<stored, batch, op, background, automaticPaused, continuing, barrier,
                   init, flushCalls>>

\* The session appends an event and the session/event listener enqueues it.
Enqueue ==
    /\ logged < MaxEvents
    /\ logged' = logged + 1
    /\ pending' = Append(pending, logged + 1)
    /\ IF barrier # "none" THEN UNCHANGED <<timer, deadlineExpired, automaticPaused>>
       ELSE IF automaticPaused
         THEN timer' = TRUE /\ deadlineExpired' = FALSE /\ automaticPaused' = FALSE
         ELSE /\ timer' = (timer \/ pending = <<>>)
              /\ UNCHANGED <<deadlineExpired, automaticPaused>>
    /\ UNCHANGED <<stored, batch, op, background, continuing, barrier, init, flushCalls>>

\* onDeadline: write now, or remember that the active write used the budget.
OnDeadline ==
    /\ timer /\ ~Microtasks
    /\ IF Active
         THEN timer' = FALSE /\ deadlineExpired' = TRUE
              /\ UNCHANGED <<op, background, batch, pending>>
         ELSE StartWrite(TRUE)
    /\ UNCHANGED <<logged, stored, automaticPaused, continuing, barrier, init, flushCalls>>

(***************************************************************************)
(* The active write.  It waits for the session's initialization, then       *)
(* stores its batch or fails; two promise reactions follow.                 *)
(***************************************************************************)

WriteCommits ==
    /\ op = "writing" /\ init = "ready"
    /\ stored' = stored \o batch /\ batch' = <<>> /\ op' = "committed"
    /\ UNCHANGED <<logged, pending, background, timer, deadlineExpired,
                   automaticPaused, continuing, barrier, init, flushCalls>>

\* The catch reaction: the batch is retained and the automatic path paused.
WriteFails ==
    /\ op = "writing" /\ init # "running"
    /\ pending' = Retained /\ batch' = <<>> /\ op' = "caught"
    /\ CancelAutomaticWait /\ automaticPaused' = TRUE
    /\ UNCHANGED <<logged, stored, background, continuing, barrier, init, flushCalls>>

\* The finally reaction: active = undefined, and whoever awaits it is resumed.
WriteSettles ==
    /\ op \in {"committed", "caught"}
    /\ op' = "none"
    /\ continuing' = (continuing \/ (background /\ op = "committed"))
    /\ barrier' = CASE barrier = "overlapping" -> "overlapped"
                    [] barrier = "draining" ->
                         IF op = "committed" THEN "drained" ELSE "failed"
                    [] OTHER -> barrier
    /\ UNCHANGED <<logged, stored, pending, batch, background, timer,
                   deadlineExpired, automaticPaused, init, flushCalls>>

\* Mutant: an expired deadline is forgotten when the active write is done.
ContinueNever ==
    /\ continuing /\ continuing' = FALSE
    /\ UNCHANGED <<logged, stored, pending, batch, op, background, timer,
                   deadlineExpired, automaticPaused, barrier, init, flushCalls>>

\* continueAutomatic, the reaction to a background write that succeeded.
ContinueAutomatic ==
    /\ continuing /\ continuing' = FALSE
    /\ IF barrier = "none" /\ pending # <<>> /\ deadlineExpired
         THEN StartWrite(TRUE)
         ELSE UNCHANGED <<op, background, batch, pending, timer, deadlineExpired>>
    /\ UNCHANGED <<logged, stored, automaticPaused, barrier, init, flushCalls>>

(***************************************************************************)
(* flush, from the coordinator's call to the barrier's settlement.          *)
(***************************************************************************)

\* The coordinator's flush up to its await of the initialization.
FlushCall(c) ==
    /\ caller[c] \notin {"init", "barrier"}
    /\ caller' = [caller EXCEPT ![c] = "init"]
    /\ target' = [target EXCEPT ![c] = logged]
    /\ CancelAutomaticWait
    /\ UNCHANGED <<logged, stored, pending, batch, op, background,
                   automaticPaused, continuing, barrier, init>>

\* Mutant: nobody tells the flush that the initialization was rejected.
FlushNeverGivesUp(c) == FALSE

\* The initialization was rejected: so is the flush.
FlushGivesUp(c) ==
    /\ caller[c] = "init" /\ init = "failed"
    /\ caller' = [caller EXCEPT ![c] = "rejected"]
    /\ CancelAutomaticWait
    /\ UNCHANGED <<logged, stored, pending, batch, op, background,
                   automaticPaused, continuing, barrier, init, target>>

\* writes.flush() when a barrier is up: join it.
FlushJoins(c) ==
    /\ caller[c] = "init" /\ init = "ready" /\ barrier # "none"
    /\ caller' = [caller EXCEPT ![c] = "barrier"]
    /\ UNCHANGED <<logged, stored, controller, init, target>>

\* writes.flush() otherwise: raise a barrier, and drain up to the first await.
FlushRaises(c) ==
    /\ caller[c] = "init" /\ init = "ready" /\ barrier = "none"
    /\ timer' = FALSE /\ deadlineExpired' = FALSE /\ automaticPaused' = FALSE
    /\ IF Active
         THEN /\ barrier' = "overlapping"
              /\ caller' = [caller EXCEPT ![c] = "barrier"]
              /\ UNCHANGED <<op, background, batch, pending>>
         ELSE IF pending # <<>>
           THEN /\ StartWrite(FALSE) /\ barrier' = "draining"
                /\ caller' = [caller EXCEPT ![c] = "barrier"]
           ELSE /\ caller' = [caller EXCEPT ![c] = "resolved"]
                /\ UNCHANGED <<op, background, batch, pending, barrier>>
    /\ UNCHANGED <<logged, stored, continuing, init, target>>

\* drainBarrier resumes after the overlapping write, whatever its outcome.
DrainAfterOverlap ==
    /\ barrier = "overlapped"
    /\ automaticPaused' = FALSE
    /\ DrainLoop
    /\ UNCHANGED <<logged, stored, continuing, init, target>>

\* drainBarrier resumes after its own write.
DrainAfterWrite ==
    /\ barrier = "drained"
    /\ DrainLoop
    /\ UNCHANGED <<logged, stored, automaticPaused, continuing, init, target>>

\* Mutant: the barrier's catch swallows the failure.
DrainSwallowsFailure ==
    /\ barrier = "failed"
    /\ SettleBarrier("resolved")
    /\ UNCHANGED <<logged, stored, pending, batch, op, background, timer,
                   deadlineExpired, automaticPaused, continuing, init, target>>

\* drainBarrier's catch: its own write failed.
DrainFails ==
    /\ barrier = "failed"
    /\ SettleBarrier("rejected")
    /\ UNCHANGED <<logged, stored, pending, batch, op, background, timer,
                   deadlineExpired, automaticPaused, continuing, init, target>>

\* The session's initialization (the coordinator's onCreated) settles once.
InitSettles ==
    /\ init = "running" /\ init' \in {"ready", "failed"}
    /\ UNCHANGED <<logged, stored, controller, flushCalls>>

Reactions == \/ WriteSettles \/ ContinueAutomatic
             \/ DrainAfterOverlap \/ DrainAfterWrite \/ DrainFails
FlushProceeds(c) == FlushGivesUp(c) \/ FlushJoins(c) \/ FlushRaises(c)

WriteNext ==
    \/ Enqueue \/ OnDeadline
    \/ WriteCommits \/ WriteFails \/ WriteSettles \/ ContinueAutomatic
    \/ \E c \in Callers : FlushCall(c) \/ FlushGivesUp(c) \/ FlushJoins(c) \/ FlushRaises(c)
    \/ DrainAfterOverlap \/ DrainAfterWrite \/ DrainFails
    \/ InitSettles

WriteSpec == WriteInit /\ [][WriteNext]_writeVars

(***************************************************************************)
(* Fairness: the event loop runs every queued reaction and due timer, and   *)
(* every write and the initialization settle.  Nobody is obliged to append  *)
(* or to flush.                                                             *)
(***************************************************************************)
Fairness ==
    /\ WF_writeVars(Reactions) /\ WF_writeVars(OnDeadline)
    /\ WF_writeVars(WriteCommits \/ WriteFails) /\ WF_writeVars(InitSettles)
    /\ \A c \in Callers : WF_writeVars(FlushProceeds(c))

WriteFairSpec == WriteSpec /\ Fairness

(***************************************************************************)
(* Properties.                                                              *)
(***************************************************************************)

\* No event is lost, duplicated or reordered on its way to storage, whichever
\* writes fail and are retried: the durable log, the batch being written and
\* the queue are the session's log, cut in three (startWrite, its catch).
Conservation == stored \o batch \o pending = Events(logged)

\* A flush that resolved made every event logged before the call durable,
\* also when it joined a barrier another caller raised, or overlapped a write
\* that failed (flush, drainBarrier).
FlushIsDurable ==
    \A c \in Callers : caller[c] = "resolved" => target[c] <= Len(stored)

\* Queued events never wait for nothing: unless a failure paused the
\* automatic path, a deadline, a running write that will be continued, a
\* barrier or a flush under way will take them (enqueue, cancelAutomaticWait,
\* continueAutomatic, and the order of drainBarrier's last two statements).
NoStrandedEvents ==
    (pending # <<>> /\ ~automaticPaused /\ init # "failed") =>
        \/ timer \/ barrier # "none"
        \/ deadlineExpired /\ (Active \/ continuing)
        \/ \E c \in Callers : caller[c] = "init"

\* How the write, the barrier and the automatic path stand to each other in
\* the code: only drainBarrier's own write is not a background one; the
\* barrier waits exactly while a write is active; continueAutomatic finds no
\* other write; a failed barrier leaves the automatic path paused, and a
\* paused path holds no deadline.
StageInv ==
    /\ op # "writing" => batch = <<>>
    /\ op = "caught" => ~deadlineExpired
    /\ Active /\ ~background => barrier = "draining"
    /\ barrier \in {"overlapping", "draining"} => Active
    /\ barrier \in {"overlapped", "drained", "failed"} => ~Active
    /\ continuing => barrier # "none" \/ ~Active
    /\ barrier = "failed" \/ (barrier = "draining" /\ op = "caught") => automaticPaused
    /\ automaticPaused => ~timer /\ ~deadlineExpired

\* The types, and the stages as they stand to each other (startWrite, enqueue,
\* continueAutomatic, drainBarrier).
WriteStateOK == WriteTypeOK /\ StageInv

\* At most one write is in flight: a write starts only when none is active
\* (onDeadline, continueAutomatic and drainBarrier each start writes).
WriteStarts == op' = "writing" /\ (op # "writing" \/ batch' # batch)
OneWriteAtATime == [][WriteStarts => op = "none"]_writeVars

\* A failed write is not retried by itself: once paused, the automatic path
\* starts no write before an event is enqueued; only a flush may.
PausedUntilAsked == [][(automaticPaused /\ WriteStarts) => barrier' # "none"]_writeVars

\* The automatic path takes whatever is queued, until a failure pauses it, and
\* then starts nothing before it is asked (startWrite's catch, enqueue,
\* cancelAutomaticWait, continueAutomatic).
AutomaticPathHolds == []NoStrandedEvents /\ PausedUntilAsked

\* The write path as a whole, through overlapping flushes and failed writes: it
\* keeps the log in order, resolves no flush early and strands no event.
WritePathHolds ==
    /\ []Conservation
    /\ []FlushIsDurable
    /\ AutomaticPathHolds

\* Every flush settles.
FlushSettles ==
    \A c \in Callers : caller[c] = "init" ~> caller[c] \in {"resolved", "rejected"}

\* Every event becomes durable with no flush at all, or the automatic path
\* is paused by a failure that was reported.
EventuallyDurable ==
    \A n \in 1..MaxEvents :
        logged >= n ~> (Len(stored) >= n \/ automaticPaused \/ init = "failed")

\* The queue drains: by a flush, which settles on every path of drainBarrier,
\* or by the batching deadline alone.
Drains == FlushSettles /\ EventuallyDurable

\* A caller does not see whether its flush awaits the initialization or the
\* barrier.
FlushStatus == [c \in Callers |->
    IF caller[c] \in {"init", "barrier"} THEN "waiting" ELSE caller[c]]
Promise == INSTANCE DurableLog WITH durable <- Len(stored), call <- FlushStatus

\* The write path implements its promise: a batch that commits extends the
\* durable prefix, and the settled barrier settles its calls.
ImplementsDurableLog == Promise!Spec
=============================================================================
