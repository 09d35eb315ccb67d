----------------------------- MODULE GoalRounds -----------------------------
(***************************************************************************)
(* The goal round driver on one agent: the goal service and the strict fold *)
(* of its log, the driver's reservation of the next round behind a durable  *)
(* checkpoint, its fence in front of every step, and as much of the agent's *)
(* loop and inbox as they meet.                                             *)
(*                                                                          *)
(* A handler runs without interruption, with every listener it calls: each  *)
(* operator below takes the whole state w, a record of goal, agent and      *)
(* driver, and returns the state behind the call.                           *)
(***************************************************************************)
EXTENDS Integers, Sequences

CONSTANTS
    MaxRounds,        \* largest maxGoalRounds of a goal
    MaxChanges,       \* bound: goal/change events
    MaxDisturbances,  \* bound: prompts, cancels, maintenance jobs, faults and unloads
    UpstreamHooks     \* hooks in front of the driver await behind its decision

ASSUME GoalRoundsAssumption ==
    /\ MaxRounds \in Nat \ {0} /\ MaxChanges \in Nat
    /\ MaxDisturbances \in Nat /\ UpstreamHooks \in BOOLEAN

VARIABLES
    goal, agent, driver,
    disturbances,     \* disturbances so far
    maintained,       \* a maintenance job has run
    stopped           \* the revision whose reserved round a cancel caught last

vars == <<goal, agent, driver, disturbances, maintained, stopped>>

\* A message that carries no round: a human prompt, or a batch without one.
Human == [ref |-> 0, round |-> 0, id |-> 0]
NoAttempt == [ref |-> 0, round |-> 0, id |-> 0, phase |-> "none",
              cancelled |-> FALSE, stale |-> FALSE]
NoClaim == [round |-> Human, prompts |-> 0, steers |-> 0]

\* Changes are numbered: goal.ref stands for the goal's id and revision.
Init ==
    /\ goal = [phase |-> "none", ref |-> 0, armed |-> FALSE, rounds |-> 0, max |-> 1,
               durable |-> TRUE]
    /\ agent = [phase |-> "idle", pc |-> "none", aborted |-> FALSE, wake |-> FALSE,
                nextStep |-> 0, nextTurn |-> <<>>, claimed |-> NoClaim]
    /\ driver = [on |-> "up", attempt |-> NoAttempt, competing |-> FALSE,
                 needsCheckpoint |-> FALSE, requested |-> FALSE, run |-> FALSE,
                 flushing |-> 0, outdated |-> 0, settling |-> 0, nested |-> FALSE,
                 awaitsIdle |-> FALSE, reserved |-> 0]
    /\ disturbances = 0 /\ maintained = FALSE /\ stopped = 0

World == [goal |-> goal, agent |-> agent, driver |-> driver]
Become(w) == goal' = w.goal /\ agent' = w.agent /\ driver' = w.driver

Undisturbed == UNCHANGED <<disturbances, maintained, stopped>>
Counted == disturbances < MaxDisturbances /\ disturbances' = disturbances + 1
Disturbed == Counted /\ UNCHANGED <<maintained, stopped>>

-----------------------------------------------------------------------------
(* What the driver looks at, and what its agent claims *)

Armed(w) == w.goal.phase = "active" /\ w.goal.armed
Idle(w) == w.agent.phase \in {"idle", "maintenance"}
Ready(w) == w.driver.on = "up" /\ Idle(w) /\ ~w.driver.competing
Attempting(w) == w.driver.attempt # NoAttempt
SameRound(m, r) == m.ref = r.ref /\ m.round = r.round
Own(w, m) == Attempting(w) /\ m # Human /\ SameRound(m, w.driver.attempt)
Pending(w) == w.agent.nextTurn # <<>> \/ w.agent.nextStep > 0

Disarmed(w) == [w EXCEPT !.goal.armed = FALSE]
Released(w) == [w EXCEPT !.driver.attempt = NoAttempt]

\* claim: everything queued for the step and, for a new turn, one prompt.
Claimed(w, target) ==
    LET m == IF target = "nextTurn" /\ w.agent.nextTurn # <<>>
             THEN Head(w.agent.nextTurn) ELSE Human
        n == IF target = "nextTurn" /\ w.agent.nextTurn # <<>> THEN 1 ELSE 0
        c == [w EXCEPT !.agent.pc = "assembling", !.agent.nextStep = 0,
                       !.agent.nextTurn = SubSeq(@, n + 1, Len(@)),
                       !.agent.claimed = [round |-> m, steers |-> w.agent.nextStep,
                                          prompts |-> IF m = Human THEN n ELSE 0]]
    IN  IF Own(w, m) /\ w.driver.on # "down" THEN [c EXCEPT !.driver.attempt.phase = "claimed"] ELSE c

\* wakeDriver: an idle agent starts its turn at once, up to its claim; a wake
\* is latched behind maintenance or an aborted activity.
Woken(w, afterAbort) ==
    CASE w.agent.phase = "idle" ->
            Claimed([w EXCEPT !.agent.phase = "running", !.agent.aborted = FALSE,
                              !.agent.wake = FALSE], "nextTurn")
      [] w.agent.phase = "maintenance" \/ afterAbort -> [w EXCEPT !.agent.wake = TRUE]
      [] OTHER -> w

-----------------------------------------------------------------------------
(* requestDrive, drive and the loops that run it. A first pass runs inside   *)
(* the call, before its promise is registered in state.run: a request made   *)
(* by that pass itself starts a loop of its own (nested).                    *)

\* A pass that ends, or awaits its checkpoint.
Settling(w) == [w EXCEPT !.driver.settling = @ + 1]
Checkpointing(w) == [w EXCEPT !.driver.needsCheckpoint = FALSE, !.driver.flushing = @ + 1]

\* requestDrive where a pass finds nothing to do but a checkpoint.
Requested(w) ==
    IF w.driver.on # "up" THEN w
    ELSE IF w.driver.run THEN [w EXCEPT !.driver.requested = TRUE]
    ELSE LET p == IF Ready(w) /\ w.driver.needsCheckpoint THEN Checkpointing(w) ELSE Settling(w)
         IN  [p EXCEPT !.driver.requested = FALSE, !.driver.run = TRUE]

\* commit: the change is appended, folded and announced.
Changed(w, phase, armed) ==
    LET c == [w EXCEPT !.goal.phase = phase, !.goal.ref = @ + 1, !.goal.armed = armed,
                       !.goal.durable = FALSE,
                       !.driver.outdated = @ + w.driver.flushing, !.driver.flushing = 0]
    IN  IF w.driver.on = "down" THEN c
        ELSE Requested([c EXCEPT !.driver.needsCheckpoint = TRUE])

\* Mutant: the settled attempt asks for no checkpoint.
DroveOnUnsettled(w) ==
    IF Attempting(w) THEN [Released(w) EXCEPT !.driver.requested = TRUE]
    ELSE IF ~Armed(w) THEN w
    ELSE IF w.goal.rounds >= w.goal.max THEN Changed(w, "blocked", FALSE)
    ELSE LET m == [ref |-> w.goal.ref, round |-> w.goal.rounds + 1, id |-> w.driver.reserved + 1]
             a == [ref |-> m.ref, round |-> m.round, id |-> m.id, phase |-> "queued",
                   cancelled |-> FALSE, stale |-> FALSE]
         IN  Woken([w EXCEPT !.driver.attempt = a, !.driver.reserved = m.id,
                             !.agent.nextTurn = Append(@, m)], FALSE)

\* The rest of drive: the settled attempt is given its own checkpoint, a
\* goal at its limit is blocked, and otherwise the next round is reserved.
DroveOn(w) ==
    IF Attempting(w)
    THEN [Released(w) EXCEPT !.driver.needsCheckpoint = TRUE, !.driver.requested = TRUE]
    ELSE IF ~Armed(w) THEN w
    ELSE IF w.goal.rounds >= w.goal.max THEN Changed(w, "blocked", FALSE)
    ELSE LET m == [ref |-> w.goal.ref, round |-> w.goal.rounds + 1, id |-> w.driver.reserved + 1]
             a == [ref |-> m.ref, round |-> m.round, id |-> m.id, phase |-> "queued",
                   cancelled |-> FALSE, stale |-> FALSE]
         IN  Woken([w EXCEPT !.driver.attempt = a, !.driver.reserved = m.id,
                             !.agent.nextTurn = Append(@, m)], FALSE)

Pass(w) == IF ~Ready(w) THEN Settling(w)
           ELSE IF w.driver.needsCheckpoint THEN Checkpointing(w)
           ELSE Settling(DroveOn(w))

RequestDrive(w) ==
    IF w.driver.on # "up" THEN w
    ELSE IF w.driver.run THEN [w EXCEPT !.driver.requested = TRUE]
    ELSE LET p == Pass([w EXCEPT !.driver.requested = FALSE])
         IN  [p EXCEPT !.driver.run = TRUE, !.driver.nested = @ \/ p.driver.run]

\* The awaited flush settles, and what it had to store is stored.
FlushEnds(ok) ==
    /\ driver.flushing + driver.outdated > 0
    /\ \E c \in {"flushing", "outdated"} :
        /\ driver[c] > 0
        /\ LET w == [World EXCEPT !.driver[c] = @ - 1,
                                  !.goal.durable = @ \/ (ok /\ c = "flushing")]
           IN  Become(Settling(IF ~ok THEN Disarmed(w)
                               ELSE IF Ready(w) /\ ~w.driver.needsCheckpoint THEN DroveOn(w) ELSE w))
    /\ IF ok THEN Undisturbed ELSE Disturbed

\* Mutant: the loop retires without a look at what was requested meanwhile.
LoopRetires ==
    /\ driver.settling > 0
    /\ Become([World EXCEPT !.driver.settling = @ - 1, !.driver.run = FALSE])
    /\ Undisturbed

\* A pass is over: the loop runs the next one, or retires.
LoopSettles ==
    /\ driver.settling > 0
    /\ LET w == [World EXCEPT !.driver.settling = @ - 1]
       IN  Become(IF driver.requested /\ driver.on = "up"
                  THEN Pass([w EXCEPT !.driver.requested = FALSE])
                  ELSE [w EXCEPT !.driver.run = FALSE])
    /\ Undisturbed

-----------------------------------------------------------------------------
(* Mutations by the user or by the goal tools *)

\* Nothing but the program's own steps falls into a gap of microtasks.
Interruptible == UpstreamHooks \/ agent.pc \notin {"outer", "refused"}

Change(w) == /\ Interruptible /\ goal.ref < MaxChanges /\ Become(w) /\ Undisturbed

Create(max) ==
    /\ goal.phase \in {"none", "complete"}
    /\ Change(Changed([World EXCEPT !.goal.rounds = 0, !.goal.max = max], "active", TRUE))

Edit(max) ==
    /\ goal.phase \notin {"none", "corrupt"}
    /\ Change(Changed([World EXCEPT !.goal.max = max], goal.phase, goal.armed))

Pause == goal.phase = "active" /\ Change(Changed(World, "paused", FALSE))

Resume ==
    /\ goal.phase \in {"active", "paused", "blocked"} /\ ~Armed(World)
    /\ goal.rounds < goal.max
    /\ Change(Changed(World, "active", TRUE))

Complete ==
    /\ goal.phase \in {"active", "paused", "blocked"}
    /\ Change(Changed(World, "complete", FALSE))

Block == goal.phase = "active" /\ Change(Changed(World, "blocked", FALSE))

Clear ==
    /\ goal.phase \notin {"none", "corrupt"}
    /\ Change(Changed([World EXCEPT !.goal.rounds = 0], "none", FALSE))

-----------------------------------------------------------------------------
(* The inbox, and the driver's listeners on it *)

\* Mutant: a reservation is marked stale when there is none.
CompetesAlways(w) ==
    IF w.driver.on = "down" THEN w
    ELSE [w EXCEPT !.driver.competing = TRUE, !.driver.attempt.stale = TRUE]

\* A message behind a reservation, or in front of the next one.
Competes(w) ==
    IF w.driver.on = "down" THEN w
    ELSE [w EXCEPT !.driver.competing = TRUE,
                   !.driver.attempt.stale = @ \/ w.driver.attempt.phase = "queued"]

\* send with wakeup: what waits on an aborted activity opens the next turn.
Sent(w, target) ==
    LET late == w.agent.phase # "idle" /\ w.agent.aborted
    IN  IF target = "nextTurn" \/ late
        THEN Woken(Competes([w EXCEPT !.agent.nextTurn = Append(@, Human)]), late)
        ELSE Woken([w EXCEPT !.agent.nextStep = @ + 1], FALSE)

Send(target) == Interruptible /\ Disturbed /\ Become(Sent(World, target))

\* cancel: the inbox is cleared unless it is kept, then the activity aborts.
Cancelled(w, keep) ==
    LET own == \E i \in DOMAIN w.agent.nextTurn : Own(w, w.agent.nextTurn[i])
        c == IF keep THEN w
             ELSE [w EXCEPT !.agent.nextStep = 0, !.agent.nextTurn = <<>>,
                            !.agent.wake = FALSE,
                            !.driver.attempt.cancelled = @ \/ own]
    IN  [c EXCEPT !.agent.aborted = @ \/ w.agent.phase # "idle"]

Cancel(keep) ==
    /\ Interruptible /\ Counted /\ UNCHANGED maintained
    /\ stopped' = IF Attempting(World) /\ ~Idle(World) THEN goal.ref ELSE stopped
    /\ Become(Cancelled(World, keep))

\* runMaintenance: a job that holds the agent while its status stays idle.
MaintenanceStarts ==
    /\ agent.phase = "idle"
    /\ Counted /\ maintained' = TRUE /\ UNCHANGED stopped
    /\ agent' = [agent EXCEPT !.phase = "maintenance", !.aborted = FALSE, !.wake = FALSE]
    /\ UNCHANGED <<goal, driver>>

MaintenanceEnds ==
    /\ agent.phase = "maintenance"
    /\ LET w == [World EXCEPT !.agent.phase = "idle", !.agent.aborted = FALSE, !.agent.wake = FALSE]
       IN  Become(IF agent.wake /\ Pending(World) THEN Woken(w, FALSE) ELSE w)
    /\ Undisturbed

-----------------------------------------------------------------------------
(* The agent's turn, and the driver's listeners on it *)

\* Mutant: a round that entered before the cancel does not pause its goal.
QuiescedAdmitted(w) ==
    LET q == [w EXCEPT !.driver.competing = FALSE]
        p == IF w.driver.attempt.phase \in {"queued", "claimed"} /\ Armed(w)
             THEN Changed(Released(q), "paused", FALSE) ELSE q
    IN  IF w.driver.on = "down" THEN w ELSE RequestDrive(p)

\* agent/status idle: a reservation that never entered, or was cancelled,
\* pauses its goal; then the driver looks again.
Quiesced(w) ==
    LET q == [w EXCEPT !.driver.competing = FALSE]
        a == w.driver.attempt
        p == IF (a.phase \in {"queued", "claimed"} \/ a.cancelled) /\ Armed(w)
             THEN Changed(Released(q), "paused", FALSE) ELSE q
    IN  IF w.driver.on = "down" THEN w ELSE RequestDrive(p)

\* kick's finally: the phase turns idle, its listeners run, and a latched wake
\* is replayed.
WentIdle(w) ==
    LET i == Quiesced([w EXCEPT !.agent.phase = "idle", !.agent.pc = "none", !.agent.claimed = NoClaim,
                                !.agent.aborted = FALSE, !.agent.wake = FALSE])
    IN  IF w.agent.wake /\ Pending(i) THEN Woken(i, FALSE) ELSE i

\* turn/end: an abort cancels the attempt it caught, or disarms.
TurnEnded(w, reason) ==
    LET caught == w.driver.attempt.phase \in {"claimed", "admitted"}
        e == IF w.driver.on = "down" THEN w
             ELSE IF reason = "aborted" /\ caught THEN [w EXCEPT !.driver.attempt.cancelled = TRUE]
             ELSE IF reason \in {"aborted", "max-tokens", "error"} THEN Disarmed(w) ELSE w
    IN  IF reason \in {"completed", "max-tokens"} /\ Pending(e)
        THEN Claimed([e EXCEPT !.agent.aborted = FALSE, !.agent.wake = FALSE], "nextTurn")
        ELSE WentIdle(e)

Round == agent.claimed.round

ValidReservation(w) ==
    LET m == w.agent.claimed.round
    IN  /\ w.driver.on = "up" /\ Own(w, m)
        /\ w.driver.attempt.phase = "claimed" /\ ~w.driver.attempt.stale
        /\ Armed(w) /\ w.goal.ref = m.ref /\ m.round = w.goal.rounds + 1

\* restoreOtherClaimed: what was claimed beside the round is queued again.
Restored(w) == [w EXCEPT !.agent.nextStep = @ + w.agent.claimed.steers,
                         !.agent.claimed.steers = 0]
Refused(w) == [w EXCEPT !.agent.pc = "refused"]
Failed(w) == TurnEnded(w, IF w.agent.aborted THEN "aborted" ELSE "error")

\* The driver's check in front of the hooks behind it.
DriverChecks ==
    /\ agent.pc = "assembling"
    /\ Become(IF Round = Human \/ driver.on = "down" \/ ValidReservation(World)
              THEN [World EXCEPT !.agent.pc = "inner"]
              ELSE Refused(RequestDrive(Restored(
                       IF Own(World, Round) THEN Released(World) ELSE World))))
    /\ Undisturbed

\* Mutant: the decision is taken over without a second look.
HooksEnterUnchecked ==
    /\ agent.pc = "inner"
    /\ Become(IF Round = Human \/ driver.on = "down" THEN [World EXCEPT !.agent.pc = "outer"]
              ELSE IF agent.aborted THEN [Restored(World) EXCEPT !.agent.pc = "outer"]
              ELSE [World EXCEPT !.agent.pc = "outer"])
    /\ Undisturbed

\* The hooks behind the driver let the step enter: the reservation must hold
\* as before.
HooksEnter ==
    /\ agent.pc = "inner"
    /\ Become(IF Round = Human \/ driver.on = "down" THEN [World EXCEPT !.agent.pc = "outer"]
              ELSE IF agent.aborted THEN [Restored(World) EXCEPT !.agent.pc = "outer"]
              ELSE IF ValidReservation(World) THEN [World EXCEPT !.agent.pc = "outer"]
              ELSE Refused(RequestDrive(Restored(Released(World)))))
    /\ Undisturbed

\* A hook behind the driver rejects: a goal still at that revision is blocked.
HooksReject ==
    /\ agent.pc = "inner" /\ Disturbed
    /\ Become(Refused(
           IF Round = Human \/ driver.on = "down" \/ agent.aborted THEN World
           ELSE IF Armed(World) /\ goal.ref = Round.ref
                THEN Changed(Released(World), "blocked", FALSE) ELSE Released(World)))

\* A hook behind the driver throws.
HooksThrow ==
    /\ agent.pc = "inner"
    /\ IF agent.aborted THEN Undisturbed ELSE Disturbed
    /\ Become(Failed(IF Round = Human \/ driver.on = "down" \/ agent.aborted THEN World
                     ELSE RequestDrive(Released(World))))

\* Assembly, or a hook in front of the driver, throws or rejects.
ClaimDropped ==
    /\ agent.pc = "assembling"
    /\ \/ agent.aborted /\ Become(Failed(World)) /\ Undisturbed
       \/ Disturbed /\ Become(Refused(World))
       \/ ~agent.aborted /\ Disturbed /\ Become(Failed(World))

\* The loop gets a rejection: the turn ends as blocked.
StepRefused ==
    /\ agent.pc = "refused"
    /\ Become(TurnEnded(World, IF agent.aborted THEN "aborted" ELSE "blocked"))
    /\ Undisturbed

\* user/message of a round: the fold takes the next round of the active goal
\* at its revision, and refuses the log with any other.
Admitted(w) ==
    LET m == w.agent.claimed.round
        next == /\ w.goal.phase = "active" /\ m.ref = w.goal.ref
                /\ m.round = w.goal.rounds + 1 /\ m.round <= w.goal.max
        g == IF next THEN [w.goal EXCEPT !.rounds = m.round, !.durable = FALSE]
             ELSE [w.goal EXCEPT !.phase = "corrupt"]
        a == IF w.driver.attempt.id = m.id /\ w.driver.on # "down" THEN "admitted"
             ELSE w.driver.attempt.phase
    IN  [w EXCEPT !.goal = g, !.driver.attempt.phase = a,
                  !.driver.outdated = @ + w.driver.flushing, !.driver.flushing = 0]

\* The step opens with what entered; an empty batch ends its turn.
StepEnters ==
    /\ agent.pc = "outer"
    /\ Become(IF agent.aborted THEN Failed(World)
              ELSE IF Round # Human THEN Admitted([World EXCEPT !.agent.pc = "step"])
              ELSE IF agent.claimed.steers + agent.claimed.prompts > 0
                   THEN [World EXCEPT !.agent.pc = "step"]
                   ELSE WentIdle(World))
    /\ Undisturbed

\* The step is over: it is followed by steering, or its turn ends.
StepEnds ==
    /\ agent.pc = "step"
    /\ IF agent.aborted THEN Become(Failed(World)) /\ Undisturbed
       ELSE \/ agent.nextStep > 0 /\ Become(Claimed(World, "nextStep")) /\ Undisturbed
            \/ agent.nextStep = 0 /\ Become(TurnEnded(World, "completed")) /\ Undisturbed
            \/ agent.nextStep = 0 /\ Become(TurnEnded(World, "max-tokens")) /\ Disturbed
            \/ Become(Failed(World)) /\ Disturbed

-----------------------------------------------------------------------------
(* The driver's teardown and its next load *)

TeardownStarts ==
    /\ driver.on = "up" /\ Interruptible /\ Disturbed
    /\ LET w == Disarmed([World EXCEPT !.driver.on = "stopping",
                                       !.driver.attempt.stale = Attempting(World),
                                       !.driver.awaitsIdle = Attempting(World) /\ ~Idle(World)])
       IN  Become(IF Attempting(World) /\ ~Idle(World) THEN Cancelled(w, FALSE) ELSE w)

TeardownEnds ==
    /\ driver.on = "stopping" /\ ~driver.run /\ (driver.awaitsIdle => agent.phase = "idle")
    /\ driver' = [driver EXCEPT !.on = "down", !.attempt = NoAttempt, !.competing = FALSE,
                                !.needsCheckpoint = FALSE, !.requested = FALSE,
                                !.awaitsIdle = FALSE]
    /\ UNCHANGED <<goal, agent>> /\ Undisturbed

\* A driver loaded over a live agent never inherits authority. It has none of
\* its predecessor's loops.
Loads ==
    /\ driver.on = "down" /\ driver.flushing + driver.outdated + driver.settling = 0
    /\ agent.pc = "none"
    /\ Become(Disarmed([World EXCEPT !.driver.on = "up", !.driver.nested = FALSE]))
    /\ Undisturbed

-----------------------------------------------------------------------------
Mutate == \/ \E max \in 1..MaxRounds : Create(max) \/ Edit(max)
          \/ Pause \/ Resume \/ Complete \/ Block \/ Clear

User == \/ \E t \in {"nextTurn", "nextStep"} : Send(t)
        \/ \E keep \in BOOLEAN : Cancel(keep)
        \/ MaintenanceStarts \/ TeardownStarts

Loop == \/ DriverChecks \/ HooksEnter \/ HooksReject \/ HooksThrow
        \/ ClaimDropped \/ StepRefused \/ StepEnters \/ StepEnds \/ MaintenanceEnds

Drive == (\E ok \in BOOLEAN : FlushEnds(ok)) \/ LoopSettles

Next == Mutate \/ User \/ Loop \/ Drive \/ TeardownEnds \/ Loads

Spec == Init /\ [][Next]_vars

\* Hooks, steps, maintenance jobs and flushes return, and the event loop runs
\* what is due.
Fairness == /\ WF_vars(Loop) /\ WF_vars(LoopSettles) /\ WF_vars(FlushEnds(TRUE))
            /\ WF_vars(TeardownEnds)

FairSpec == Spec /\ Fairness
-----------------------------------------------------------------------------
(* Properties *)

\* Every component of the state is of its kind, and the agent is in its loop
\* exactly while its phase is running.
TypeOK ==
    /\ goal \in [phase : {"none", "active", "paused", "blocked", "complete", "corrupt"},
                 ref : Nat, armed : BOOLEAN, rounds : 0..MaxRounds, max : 1..MaxRounds,
                 durable : BOOLEAN]
    /\ agent.phase \in {"idle", "maintenance", "running"}
    /\ agent.pc \in {"assembling", "inner", "outer", "refused", "step", "none"}
    /\ (agent.phase = "running") = (agent.pc # "none")
    /\ driver.on \in {"up", "stopping", "down"}
    /\ driver.attempt.phase \in {"none", "queued", "claimed", "admitted"}
    /\ driver.attempt.phase = "none" => driver.attempt = NoAttempt
    /\ maintained \in BOOLEAN /\ disturbances \in 0..MaxDisturbances

\* A goal's log can always be replayed: the fold never meets a round that is
\* not the next one of the active goal at its revision (applyGoalEvent).
RoundsReplay == goal.phase # "corrupt"

Enters == agent.pc = "outer" /\ Round # Human /\ agent'.pc = "step"

\* While the driver is loaded, what enters is the next round of an active goal
\* whose automatic continuation is armed, whatever was edited, paused,
\* disarmed, cancelled or unloaded since the round was queued (the fence of
\* agent/pre-step). Only the failing checkpoint of a second loop (OneLoop) can
\* still disarm the goal behind that fence.
FencedRounds == [][Enters /\ driver.on # "down" =>
                        (Armed(World) \/ driver.nested) /\ goal'.phase = "active"]_vars

\* A cancel that catches a reserved round stops its goal: no round of that
\* revision enters again before somebody changes the goal (the listeners on
\* turn/end, agent/inbox/discarded and agent/status).
CancelStops == [][Enters /\ driver.on # "down" => Round.ref # stopped]_vars

Reserves == driver'.reserved > driver.reserved
PassesLive == driver.flushing + driver.outdated + driver.settling

\* Every trigger is coalesced onto one serialized loop, as the comment above
\* requestDrive says. TLC refutes it on the run's bounds: a first pass that blocks
\* the goal at its limit asks for a drive before state.run is set.
OneLoop == PassesLive <= 1

\* A round is reserved only when every change of the goal and every earlier
\* round is durable (drive's checkpoint; a second loop, which may reserve while the
\* first one awaits it, and maintenance apart).
CheckpointedFirst ==
    [][Reserves /\ ~driver.nested /\ ~maintained => goal'.durable]_vars

\* A round that enters is one somebody still wants, reserved behind all that came
\* before it, whatever changed while it was reserved, queued, claimed or rewritten.
RoundsAreCurrent == FencedRounds /\ CancelStops /\ CheckpointedFirst

\* An active, armed goal never waits on an idle agent for good: a round is
\* reserved, or the goal is blocked, paused or disarmed.
Waits == ~maintained /\ Armed(World) /\ agent.phase = "idle" /\ driver.on = "up"
KeepsGoing == Waits ~> ~Waits
=============================================================================
