------------------------------ MODULE Schedule ------------------------------
(***************************************************************************)
(* The reminders of one root agent: ScheduleRuntime, the three management   *)
(* tools, and the queue of transactions they share, over the session's log. *)
(*                                                                          *)
(* Of the log the model keeps the schedule/change events and the follow-ups *)
(* that carry reminders; a restart keeps what was stored of it.  A step is  *)
(* what runs between two awaits, so that one look at the fold and the clock *)
(* stands for the two that driveOnce takes in front of and inside its       *)
(* maintenance task.  The agent is either free, in a turn, or in a          *)
(* maintenance task: the runtime's or another one's.                        *)
(***************************************************************************)
EXTENDS Integers, SequencesExt

CONSTANTS
    MaxCalls,       \* bound: calls of the management tools at once
    Horizon,        \* the last instant a target can have
    Intervals,      \* the intervals of fixed-rate reminders
    MaxDelay,       \* the longest delay of a timer (MAX_TIMER_DELAY_MS)
    InitialLogs,    \* the logs an agent is created or resumed with
    MaxActivity,    \* bound: prompts, calls, and maintenance tasks of others
    MaxTroubles     \* bound: failing flushes and appends, clock changes, disposals, crashes

ASSUME ScheduleAssumption ==
    /\ Horizon \in Nat /\ Intervals \subseteq Nat \ {0} /\ MaxDelay \in Nat \ {0}
    /\ MaxCalls \in Nat /\ MaxActivity \in Nat /\ MaxTroubles \in Nat

VARIABLES
    now,        \* Date.now()
    log,        \* the session's events, as far as reminders are in them
    stored,     \* how many of them are durable
    runtime,    \* the ScheduleRuntime and the tail of the agent's transactions
    agent,      \* the agent's phase and its latched wake
    calls,      \* where each call stands
    confirmed,  \* how much of the log the answers of the tools rest on
    spent       \* how much of each bound is used

tools == <<calls, confirmed>>
scheduleVars == <<now, log, stored, runtime, agent, tools, spent>>

Calls == 1..MaxCalls
Off == -1       \* no timer
Drive == 0      \* the runtime's place in the queue of transactions

(***************************************************************************)
(* The fold.                                                                *)
(***************************************************************************)

Create(r) == [op |-> "create", id |-> r.id, at |-> r.at, every |-> r.every]
Delete(id) == [op |-> "delete", id |-> id, at |-> 0, every |-> 0]
Dispatch(id, at) == [op |-> "dispatch", id |-> id, at |-> at, every |-> 0]

\* The latest occurrence of a fixed-rate record by an instant.
Occurrence(r, at) == r.at + ((at - r.at) \div r.every) * r.every

\* Mutant: a fixed-rate record advances by one interval.
AdvancedByOne(r, at) == {q \in {[r EXCEPT !.at = @ + r.every]} : q.at <= Horizon}

\* What a dispatch leaves of its record: a fixed-rate one at its first target
\* behind the accepted instant, when there is one.
Advanced(r, at) ==
    {q \in {[r EXCEPT !.at = Occurrence(r, at) + r.every]} : q.at <= Horizon}

\* foldScheduleEvents: the record an event adds, and what it leaves of another.
Added(e) == IF e.op = "create" THEN {[id |-> e.id, at |-> e.at, every |-> e.every]} ELSE {}
Left(r, e) ==
    IF e.op \in {"create", "reminder"} \/ r.id # e.id THEN {r}
    ELSE IF e.op = "delete" \/ r.every = 0 THEN {} ELSE Advanced(r, e.at)

After(A, e) == Added(e) \cup UNION {Left(r, e) : r \in A}

ActiveRecords(events) ==
    LET fold[i \in 0..Len(events)] == IF i = 0 THEN {} ELSE After(fold[i - 1], events[i])
    IN  fold[Len(events)]

Seen(events) == {events[i].id : i \in {j \in DOMAIN events : events[j].op = "create"}}

(***************************************************************************)
(* What a log must be.                                                      *)
(***************************************************************************)

Events ==
    [op : {"create", "delete", "dispatch"}, id : Nat, at : 0..Horizon, every : Nat]
    \cup [op : {"reminder"}, id : {0}, run : Int, items : SUBSET [id : Nat, at : 0..Horizon]]

Reminders(events) == {i \in DOMAIN events : events[i].op = "reminder"}

\* The rules of Schedule's invariant companion for an event behind others; and a
\* reminder names only records that are active, none before its target.
Follows(events, e) ==
    LET named(id) == {r \in ActiveRecords(events) : r.id = id} IN
    CASE e.op = "create" -> e.id \notin Seen(events)
      [] e.op = "delete" -> named(e.id) # {}
      [] e.op = "dispatch" ->
            /\ named(e.id) # {}
            /\ \A r \in named(e.id) : IF r.every = 0 THEN e.at = 0 ELSE e.at >= r.at
      [] e.op = "reminder" -> \A m \in e.items : \E r \in named(m.id) : r.at <= m.at

\* Every prefix of the log folds.
Folds(events) == \A i \in DOMAIN events : Follows(SubSeq(events, 1, i - 1), events[i])

\* A dispatch is logged behind the reminder it stands for.
Backed(events) ==
    \A i \in DOMAIN events : events[i].op = "dispatch" =>
        \E j \in Reminders(events) : j < i /\ \E m \in events[j].items : m.id = events[i].id

\* In one run of the agent no occurrence of a record is queued twice.
OnceInARun(events) ==
    \A i, j \in Reminders(events) : i < j /\ events[i].run = events[j].run =>
        \A m \in events[i].items, n \in events[j].items : m.id = n.id => m.at < n.at

\* What an agent is created or resumed with was logged by earlier runs.
ASSUME InitialLogsAssumption ==
    \A events \in InitialLogs :
        /\ events \in Seq(Events) /\ Folds(events) /\ Backed(events) /\ OnceInARun(events)
        /\ \A i \in Reminders(events) : events[i].run < 0

\* allocateScheduleId
NextId ==
    LET n == Cardinality(Seen(log)) IN Min({i \in (n + 1)..(2 * n + 1) : i \notin Seen(log)})

(***************************************************************************)
(* The decision.                                                            *)
(***************************************************************************)

Due == {r \in ActiveRecords(log) : r.at <= now}
Before(r, q) == r.at < q.at \/ (r.at = q.at /\ r.id < q.id)

\* dueDecision: the earliest due one-shot, or else every due fixed-rate record.
Chosen ==
    LET shots == {r \in Due : r.every = 0} IN
    IF shots # {} THEN {r \in shots : \A q \in shots \ {r} : Before(r, q)} ELSE Due

\* One follow-up carries the reminders chosen.
Reminder(S) ==
    [op |-> "reminder", id |-> 0, run |-> spent.ends,
     items |-> {[id |-> r.id, at |-> IF r.every = 0 THEN r.at ELSE Occurrence(r, now)] : r \in S}]

\* Target and creation order.
InOrder(S) ==
    {q \in [1..Cardinality(S) -> S] :
        /\ \A r \in S : \E i \in DOMAIN q : q[i] = r
        /\ \A i, j \in DOMAIN q : i < j => Before(q[i], q[j])}

\* The reminder of the records q, and the dispatches of the first k of them.
Delivery(S, q, k) ==
    <<Reminder(S)>> \o [i \in 1..k |-> Dispatch(q[i].id, IF q[i].every = 0 THEN 0 ELSE now)]

(***************************************************************************)
(* The runtime and the queue of transactions.                               *)
(***************************************************************************)

NewOwner == [timer |-> Off, requested |-> FALSE, run |-> "none", goal |-> 0, idleWait |-> FALSE,
             stopping |-> FALSE, faulted |-> FALSE, neglected |-> FALSE, queue |-> <<>>]

\* requestDrive
RequestDrive(o) ==
    IF o.stopping \/ o.faulted THEN o
    ELSE LET c == [o EXCEPT !.timer = Off, !.neglected = FALSE] IN
         IF o.run = "none"
           THEN [c EXCEPT !.requested = FALSE, !.run = "queued", !.queue = Append(@, Drive)]
           ELSE [c EXCEPT !.requested = TRUE]

\* The transaction ends, and runRequested goes on with what was requested.
Leave(o) ==
    LET c == [o EXCEPT !.queue = Tail(@), !.goal = 0] IN
    IF o.requested /\ ~o.stopping /\ ~o.faulted
      THEN [c EXCEPT !.requested = FALSE, !.neglected = FALSE, !.run = "queued",
                     !.queue = Append(@, Drive)]
      ELSE [c EXCEPT !.run = "retiring"]

\* The transaction ends where only another trigger looks at what is due.
GiveUp(o) == Leave([o EXCEPT !.neglected = TRUE])

NoCall == [stage |-> "none", op |-> "none", id |-> 0, goal |-> 0]

ScheduleInit ==
    /\ now = 0
    /\ log \in InitialLogs /\ stored = Len(log)
    /\ runtime = RequestDrive(NewOwner)
    /\ agent = [phase |-> "idle", wake |-> FALSE]
    /\ calls = [c \in Calls |-> NoCall] /\ confirmed = 0
    /\ spent = [activity |-> 0, troubles |-> 0, ends |-> 0]

Disturbed == spent.troubles + spent.ends < MaxTroubles
Trouble == Disturbed /\ spent' = [spent EXCEPT !.troubles = @ + 1]
Ends == Disturbed /\ spent' = [spent EXCEPT !.ends = @ + 1]
Activity == spent.activity < MaxActivity /\ spent' = [spent EXCEPT !.activity = @ + 1]

\* flushSchedulePersistence resolves, or rejects.
Flushed(upto) == stored' = (IF upto > stored THEN upto ELSE stored) /\ UNCHANGED spent
FlushFails == Trouble /\ UNCHANGED stored

(***************************************************************************)
(* driveOnce.                                                               *)
(***************************************************************************)

AtHead(t) == runtime.queue # <<>> /\ Head(runtime.queue) = t
Driving(stage) == AtHead(Drive) /\ runtime.run = stage

DriveStarts ==
    /\ Driving("queued")
    /\ runtime' = IF runtime.stopping THEN Leave(runtime)
                  ELSE [runtime EXCEPT !.timer = Off, !.run = "preflight", !.goal = Len(log)]
    /\ UNCHANGED <<now, log, stored, agent, tools, spent>>

PreflightFails ==
    /\ Driving("preflight") /\ FlushFails
    /\ runtime' = GiveUp(runtime)
    /\ UNCHANGED <<now, log, agent, tools>>

\* Mutant: the runtime is not looked at again behind its preflight.
RunnableUnchecked == TRUE

\* isRunnable, behind the preflight.
Runnable == ~runtime.stopping

\* Mutant: a timer is armed for any delay.
ArmUnbounded(o) ==
    IF ActiveRecords(log) = {} THEN o
    ELSE [o EXCEPT !.timer = Min({r.at : r \in ActiveRecords(log)}) - now]

\* arm: the earliest target, as far as a timer reaches.
Arm(o) ==
    IF ActiveRecords(log) = {} THEN o
    ELSE [o EXCEPT !.timer = Min({MaxDelay, Min({r.at : r \in ActiveRecords(log)}) - now})]

\* Mutant: the end of a turn is waited for, not that of a maintenance task.
WaitForTurn(o) == [o EXCEPT !.idleWait = (agent.phase = "turn")]

\* waitForIdle
WaitForIdle(o) == [o EXCEPT !.idleWait = TRUE]

\* Nothing to do, nothing due, or an agent that is not free.
DriveRests ==
    /\ Driving("preflight") /\ Flushed(runtime.goal)
    /\ \/ ~Runnable /\ runtime' = Leave(runtime)
       \/ Runnable /\ Due = {} /\ runtime' = Leave(Arm(runtime))
       \/ Runnable /\ Due # {} /\ agent.phase # "idle" /\ runtime' = Leave(WaitForIdle(runtime))
    /\ UNCHANGED <<now, log, agent, tools>>

\* Mutant: the append is tried again by a later trigger.
FaultNot(o) == [o EXCEPT !.run = "undelivered", !.timer = Off]

\* The reminder is queued and its dispatch is not logged.
Fault(o) == [o EXCEPT !.run = "undelivered", !.faulted = TRUE, !.timer = Off]

\* The follow-up and the first k dispatches are appended.
Appends(k) == \E q \in InOrder(Chosen) : log' = log \o Delivery(Chosen, q, k)

\* The maintenance task: its follow-up, then the dispatches, are appended.  A
\* follow-up that fails leaves nothing, a dispatch that fails faults the runtime.
Delivers ==
    /\ Driving("preflight") /\ Runnable /\ Due # {} /\ agent.phase = "idle"
    /\ stored' = Max({stored, runtime.goal})
    /\ \/ /\ Appends(Cardinality(Chosen)) /\ runtime' = [runtime EXCEPT !.run = "delivered"]
          /\ agent' = [phase |-> "maintenance", wake |-> TRUE] /\ UNCHANGED spent
       \/ /\ Trouble /\ UNCHANGED log
          /\ runtime' = [runtime EXCEPT !.run = "undelivered", !.neglected = TRUE]
          /\ agent' = [phase |-> "maintenance", wake |-> FALSE]
       \/ /\ Trouble /\ \E k \in 0..(Cardinality(Chosen) - 1) : Appends(k)
          /\ runtime' = Fault(runtime)
          /\ agent' = [phase |-> "maintenance", wake |-> TRUE]
    /\ UNCHANGED <<now, tools>>

\* The phase is released, with the wake it latched.
Freed == [phase |-> IF agent.wake THEN "turn" ELSE "idle", wake |-> FALSE]

MaintenanceEnds ==
    /\ runtime.run \in {"delivered", "undelivered"} /\ agent' = Freed
    /\ runtime' = IF runtime.run = "delivered"
                  THEN [runtime EXCEPT !.run = "barrier", !.goal = Len(log)]
                  ELSE Leave(runtime)
    /\ UNCHANGED <<now, log, stored, tools, spent>>

BarrierEnds ==
    /\ Driving("barrier")
    /\ \/ Flushed(runtime.goal) /\ runtime' = Leave(RequestDrive(runtime))
       \/ FlushFails /\ runtime' = GiveUp(runtime)
    /\ UNCHANGED <<now, log, agent, tools>>

\* Mutant: what was requested meanwhile is forgotten.
RetiredForgetting == [runtime EXCEPT !.run = "none", !.requested = FALSE]

\* retire: a trigger that landed behind the loop's last look starts a new run.
Retired ==
    LET o == [runtime EXCEPT !.run = "none"] IN IF o.requested THEN RequestDrive(o) ELSE o

Retire ==
    /\ runtime.run = "retiring" /\ runtime' = Retired
    /\ UNCHANGED <<now, log, stored, agent, tools, spent>>

TimerFires ==
    /\ runtime.timer = 0 /\ runtime' = RequestDrive([runtime EXCEPT !.timer = Off])
    /\ UNCHANGED <<now, log, stored, agent, tools, spent>>

\* whenIdle, or the end of the runtime, resolves the wait.
IdleWaitEnds ==
    /\ runtime.idleWait /\ (agent.phase = "idle" \/ runtime.stopping)
    /\ runtime' = RequestDrive([runtime EXCEPT !.idleWait = FALSE])
    /\ UNCHANGED <<now, log, stored, agent, tools, spent>>

\* dispose, with the agent or with the plugin.
Dispose ==
    /\ ~runtime.stopping /\ Ends
    /\ runtime' = [runtime EXCEPT !.stopping = TRUE, !.requested = FALSE, !.timer = Off]
    /\ UNCHANGED <<now, log, stored, agent, tools>>

(***************************************************************************)
(* The management tools.                                                    *)
(***************************************************************************)

\* A call ends its transaction, with an answer that rests on n events of the log.
Answer(c, n, o) ==
    /\ calls' = [calls EXCEPT ![c] = NoCall] /\ confirmed' = Max({confirmed, n})
    /\ runtime' = [o EXCEPT !.queue = Tail(@)]

Running(c) == calls[c].stage # "none"

Call(c, op, id) ==
    /\ ~Running(c) /\ \A d \in 1..(c - 1) : Running(d)
    /\ agent.phase = "turn" /\ ~runtime.stopping /\ Activity
    /\ calls' = [calls EXCEPT ![c].stage = "queued", ![c].op = op, ![c].id = id]
    /\ runtime' = [runtime EXCEPT !.queue = Append(@, c)]
    /\ UNCHANGED <<now, log, stored, agent, confirmed>>

\* Mutant: a call does not wait for the transactions in front of it.
AnyTime(c) == \E i \in DOMAIN runtime.queue : runtime.queue[i] = c

\* runScheduleTransaction: one transaction of the agent at a time.
Turn(c) == AtHead(c)

CallStarts(c) ==
    /\ Turn(c) /\ calls[c].stage = "queued"
    /\ \/ Answer(c, 0, runtime)
       \/ /\ calls' = [calls EXCEPT ![c].stage = "preflight", ![c].goal = Len(log)]
          /\ UNCHANGED <<runtime, confirmed>>
    /\ UNCHANGED <<now, log, stored, agent, spent>>

\* The change is appended and waits for its barrier, or its append fails.
Changes(c, e) ==
    \/ /\ log' = Append(log, e) /\ runtime' = RequestDrive(runtime)
       /\ UNCHANGED <<spent, confirmed>>
       /\ calls' = [calls EXCEPT ![c].stage = "barrier", ![c].goal = Len(log) + 1]
    \/ Answer(c, 0, RequestDrive(runtime)) /\ Trouble /\ UNCHANGED log

\* The records a create may ask for.
Records(id) ==
    {[id |-> id, at |-> at, every |-> 0] : at \in (now + 1)..Horizon}
    \cup {r \in {[id |-> id, at |-> now + n, every |-> n] : n \in Intervals} : r.at <= Horizon}

\* Behind the preflight the runtime is notified, and the fold looked at: a list
\* and a missing record are told, and a call that is aborted or whose input is
\* rejected says nothing of the log.
CallPreflighted(c) ==
    LET known == \E r \in ActiveRecords(log) : r.id = calls[c].id
        says(n) == Answer(c, n, RequestDrive(runtime)) /\ UNCHANGED <<log, spent>>
    IN  /\ Turn(c) /\ calls[c].stage = "preflight"
        /\ stored' = Max({stored, calls[c].goal})
        /\ CASE calls[c].op = "list" -> says(Len(log))
             [] calls[c].op = "delete" ->
                  IF known THEN says(0) \/ Changes(c, Delete(calls[c].id)) ELSE says(Len(log))
             [] calls[c].op = "create" ->
                  says(0) \/ \E r \in Records(NextId) : Changes(c, Create(r))
        /\ UNCHANGED <<now, agent>>

Confirms(c) == Answer(c, calls[c].goal, RequestDrive(runtime))

\* Mutant: the barrier's rejection is not waited for.
ConfirmsAnyway(c) == Confirms(c) /\ (UNCHANGED <<stored, spent>> \/ FlushFails)

\* The change is confirmed behind its barrier only.
CallBarrier(c) ==
    \/ Flushed(calls[c].goal) /\ Confirms(c)
    \/ FlushFails /\ Answer(c, 0, runtime)

CallEnds(c) ==
    /\ Turn(c)
    /\ \/ calls[c].stage = "barrier" /\ CallBarrier(c)
       \/ calls[c].stage = "preflight" /\ FlushFails /\ Answer(c, 0, runtime)
    /\ UNCHANGED <<now, log, agent>>

(***************************************************************************)
(* The agent, the clock, the storage, and a restart.                        *)
(***************************************************************************)

\* A prompt opens a turn, or latches its wake behind a maintenance task.
Prompt ==
    /\ agent.phase # "turn" /\ Activity
    /\ agent' = IF agent.phase = "idle" THEN [agent EXCEPT !.phase = "turn"]
                                        ELSE [agent EXCEPT !.wake = TRUE]
    /\ UNCHANGED <<now, log, stored, runtime, tools>>

\* The agent/status listener.
Heard == IF \E i \in DOMAIN log : log[i].op # "reminder" THEN RequestDrive(runtime) ELSE runtime

\* A turn ends behind the calls of its tools.
TurnEnds ==
    /\ agent.phase = "turn" /\ \A c \in Calls : ~Running(c)
    /\ agent' = [agent EXCEPT !.phase = "idle"] /\ runtime' = Heard
    /\ UNCHANGED <<now, log, stored, tools, spent>>

OtherMaintenanceStarts ==
    /\ agent.phase = "idle" /\ Activity /\ agent' = [agent EXCEPT !.phase = "busy"]
    /\ UNCHANGED <<now, log, stored, runtime, tools>>

OtherMaintenanceEnds ==
    /\ agent.phase = "busy" /\ agent' = Freed
    /\ UNCHANGED <<now, log, stored, runtime, tools, spent>>

\* Time passes for the clock and for the timer.  Behind Horizon there is no
\* target left, and the clock stops counting.
Tick ==
    /\ now < Horizon \/ runtime.timer > 0
    /\ now' = Min({now + 1, Horizon})
    /\ runtime' = IF runtime.timer > 0 THEN [runtime EXCEPT !.timer = @ - 1] ELSE runtime
    /\ UNCHANGED <<log, stored, agent, tools, spent>>

\* The wall clock is set.
ClockIsSet ==
    /\ Trouble /\ now' \in (0..Horizon) \ {now}
    /\ UNCHANGED <<log, stored, runtime, agent, tools>>

\* A crash, or an end of the process, and the agent resumed on what was stored:
\* what the flushes confirmed, and what the write-behind stored of the rest.
Restart ==
    /\ Ends
    /\ \E n \in stored..Len(log) : log' = SubSeq(log, 1, n) /\ stored' = n
    /\ runtime' = RequestDrive(NewOwner)
    /\ agent' = [phase |-> "idle", wake |-> FALSE]
    /\ calls' = [c \in Calls |-> NoCall]
    /\ UNCHANGED <<now, confirmed>>

\* What the event loop owes the runtime and the tools.
Reactions ==
    \/ DriveStarts \/ PreflightFails \/ DriveRests \/ Delivers
    \/ MaintenanceEnds \/ BarrierEnds \/ Retire \/ TimerFires \/ IdleWaitEnds
    \/ \E c \in Calls : CallStarts(c) \/ CallPreflighted(c) \/ CallEnds(c)

ScheduleNext ==
    \/ DriveStarts \/ PreflightFails \/ DriveRests \/ Delivers
    \/ MaintenanceEnds \/ BarrierEnds \/ Retire \/ TimerFires \/ IdleWaitEnds \/ Dispose
    \/ \E c \in Calls :
         \/ Call(c, "create", 0) \/ Call(c, "list", 0)
         \/ \E id \in Seen(log) : Call(c, "delete", id)
         \/ CallStarts(c) \/ CallPreflighted(c) \/ CallEnds(c)
    \/ Prompt \/ TurnEnds \/ OtherMaintenanceStarts \/ OtherMaintenanceEnds
    \/ Tick \/ ClockIsSet \/ Restart

ScheduleSpec == ScheduleInit /\ [][ScheduleNext]_scheduleVars

(***************************************************************************)
(* Fairness: every promise reaction runs, flushes settle, a due timer fires *)
(* and time passes; turns and maintenance tasks end.                        *)
(***************************************************************************)
ScheduleFairness ==
    /\ WF_scheduleVars(Reactions) /\ WF_scheduleVars(Tick)
    /\ WF_scheduleVars(TurnEnds \/ OtherMaintenanceEnds)

ScheduleFairSpec == ScheduleSpec /\ ScheduleFairness

(***************************************************************************)
(* Properties.                                                              *)
(***************************************************************************)

\* The types; a transaction is in the queue once.
ScheduleTypeOK ==
    /\ now \in 0..Horizon /\ stored \in 0..Len(log) /\ log \in Seq(Events)
    /\ runtime.timer \in Off..MaxDelay
    /\ runtime.run \in {"none", "queued", "preflight", "delivered", "undelivered", "barrier",
                        "retiring"}
    /\ agent.phase \in {"idle", "turn", "busy", "maintenance"}
    /\ \A i, j \in DOMAIN runtime.queue : runtime.queue[i] = runtime.queue[j] => i = j

\* The log folds; what it dispatches was queued; an occurrence is queued once in
\* a run of the agent.
LogFolds == Folds(log)
DispatchesAreBacked == Backed(log)
QueuedOnce == OnceInARun(log)

\* A disposed runtime has no timer, and has queued nothing since its disposal.
StopsForGood ==
    runtime.stopping => runtime.timer = Off /\ \A i \in Reminders(log) : log[i].run < spent.ends

\* What the tools answer is durable: the changes they confirm, and all they
\* looked at when they say what there is or is not (the preflight, the barrier
\* and the queue of transactions).
AnswersAreDurable == confirmed <= stored

\* Whatever calls, turns, failures, clock changes and crashes come between: the
\* log always folds, what is dispatched was queued, an occurrence is queued once
\* in a run of the agent, although the append of its dispatch may fail, and none
\* behind the disposal; and no tool tells what a crash could take back
\* (driveOnce, requestDrive, dispose, runScheduleTransaction, the tools).
RemindersHold ==
    LogFolds /\ DispatchesAreBacked /\ QueuedOnce /\ StopsForGood /\ AnswersAreDurable

\* The runtime looks at what is due, unless a flush or a follow-up failed and
\* no trigger came since, or a dispatch could not be logged.
Attended == ~runtime.stopping /\ ~runtime.faulted /\ ~runtime.neglected

\* No wake is lost: whatever is due goes out, however timers, turns, other
\* maintenance tasks, calls and clock changes interleave with the runtime's
\* coalesced drives; and no turn waits for ever for the answer of a call.
GoesOut ==
    /\ (Attended /\ Due # {}) ~> (~Attended \/ Due = {})
    /\ agent.phase = "turn" ~> agent.phase # "turn"
=============================================================================
