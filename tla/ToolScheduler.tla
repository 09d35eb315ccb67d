--------------------------- MODULE ToolScheduler ---------------------------
(***************************************************************************)
(* The execution of the tool calls of one assistant step: executeToolCalls   *)
(* and runGroup of the agent loop, with the stages of the tool registry it    *)
(* drives.                                                                  *)
(*                                                                          *)
(* Calls are named by their place in the assistant message.  One async       *)
(* function schedules them; what runs beside it are the dispatched calls,     *)
(* the abort signal, and the registry, whose classification of a call may     *)
(* change until the call starts.  A step of the model runs from one await or  *)
(* appended event to the next.                                              *)
(***************************************************************************)
EXTENDS Naturals, Sequences, FiniteSets

CONSTANTS
    N,              \* how many calls the assistant message holds
    MaxParallel     \* ctx.agentLoop.config.maxParallelToolCalls

ASSUME BoundsAssumption == N \in Nat \ {0} /\ MaxParallel \in Nat \ {0}

Calls == 1..N

VARIABLES
    exclusive,  \* the calls the registry now classifies as exclusive
    signal,     \* signal.aborted
    pc,         \* where the scheduler stands
    next,       \* how many calls the groups before this one consumed
    mode,       \* the mode of this group
    started,    \* how many calls were started, in all groups
    committed,  \* how many results were committed, in all groups
    slots,      \* the calls whose slot is filled
    inFlight,   \* the keys of inFlight
    settled,    \* the dispatches that settled
    aborted,    \* runGroup's local aborted
    failed,     \* whether schedulerFailure is set
    invoked,    \* the calls whose body was invoked
    barred,     \* history: the calls that were exclusive when they started
    called,     \* history: the calls logged as tool/call, in order
    answered,   \* history: the calls logged as tool/result, in order
    outcome     \* how executeToolCalls settled

registry == <<settled, invoked>>
group == <<next, mode, aborted>>
log == <<called, answered>>
vars == <<exclusive, signal, pc, next, mode, started, committed, slots, inFlight,
          settled, aborted, failed, invoked, barred, called, answered, outcome>>

Stages == {"classify", "prepare", "advance", "commit", "race", "skip", "drain", "done"}

TypeOK ==
    /\ exclusive \subseteq Calls /\ signal \in BOOLEAN /\ pc \in Stages
    /\ next \in 0..N /\ mode \in {"exclusive", "parallel"}
    /\ started \in 0..N /\ committed \in 0..N
    /\ slots \subseteq Calls /\ inFlight \subseteq Calls /\ settled \subseteq Calls
    /\ aborted \in BOOLEAN /\ failed \in BOOLEAN
    /\ invoked \subseteq Calls /\ barred \subseteq Calls
    /\ called \in Seq(Calls) /\ answered \in Seq(Calls)
    /\ outcome \in {"none", "returned", "failed"}

\* The abort may have come in the listeners of the assistant message.
Init ==
    /\ exclusive \in SUBSET Calls /\ signal \in BOOLEAN /\ pc = "classify"
    /\ next = 0 /\ mode = "exclusive" /\ started = 0 /\ committed = 0
    /\ slots = {} /\ inFlight = {} /\ settled = {}
    /\ aborted = FALSE /\ failed = FALSE /\ invoked = {} /\ barred = {}
    /\ called = <<>> /\ answered = <<>> /\ outcome = "none"

(***************************************************************************)
(* Fragments of actions.                                                    *)
(***************************************************************************)

\* Mutant: a parallel group reaches past the last call.
GroupEndPast(m) == IF m = "exclusive" THEN next + 1 ELSE N + 1

\* A parallel group is the rest of the step, an exclusive one a single call.
GroupEnd(m) == IF m = "exclusive" THEN next + 1 ELSE N

\* startCall, up to the await of prepare: append tool/call.
StartCall ==
    /\ called' = Append(called, started + 1) /\ started' = started + 1
    /\ barred' = IF started + 1 \in exclusive THEN barred \cup {started + 1} ELSE barred
    /\ pc' = "prepare" /\ UNCHANGED <<next, outcome>>

\* Once nothing is in flight the group ends: with the skipping of what an abort
\* left, with the caller's next group, or by the assertion that nothing
\* started is uncommitted.
EndGroup(stop) ==
    /\ IF inFlight # {} THEN pc' = "race" /\ UNCHANGED <<next, outcome>>
       ELSE IF stop THEN pc' = "skip" /\ UNCHANGED <<next, outcome>>
       ELSE IF committed # started THEN pc' = "done" /\ outcome' = "failed" /\ UNCHANGED next
       ELSE pc' = "classify" /\ next' = started /\ UNCHANGED outcome
    /\ UNCHANGED <<called, started, barred>>

\* Mutant: later calls are not classified again.
NeverBarrier(m) == FALSE

\* A later call of a parallel group that has become exclusive waits for the
\* next group.
Barrier(m) == started > next /\ m = "parallel" /\ started + 1 \in exclusive

\* fillPool, up to the next call it starts, then what runGroup does when the
\* pool takes no more.
Fill(stop, m) ==
    IF ~stop /\ started < GroupEnd(m) /\ Cardinality(inFlight) < MaxParallel /\ ~Barrier(m)
      THEN StartCall
      ELSE EndGroup(stop)

\* throwSchedulerFailure, or any throw inside runGroup: its catch drains.
Throw == pc' = "drain" /\ UNCHANGED outcome

(***************************************************************************)
(* What runs beside the scheduler.                                          *)
(***************************************************************************)

Abort ==
    /\ ~signal /\ outcome = "none" /\ signal' = TRUE
    /\ UNCHANGED <<exclusive, pc, group, started, committed, slots, inFlight, registry,
                   failed, barred, log, outcome>>

\* A registration changes the classification of a call that has not started.
Reclassify(i) ==
    /\ i > started /\ outcome = "none"
    /\ exclusive' = IF i \in exclusive THEN exclusive \ {i} ELSE exclusive \cup {i}
    /\ UNCHANGED <<signal, pc, group, started, committed, slots, inFlight, registry,
                   failed, barred, log, outcome>>

\* dispatchToolBody invokes the body of a call whose signal is not aborted.
BodyStarts(i) ==
    /\ i \in inFlight \ (settled \cup invoked) /\ ~signal
    /\ invoked' = invoked \cup {i}
    /\ UNCHANGED <<exclusive, signal, pc, group, started, committed, slots, inFlight,
                   settled, failed, barred, log, outcome>>

\* A dispatch resolves, with or without having invoked the body.
DispatchSettles(i) ==
    /\ i \in inFlight \ settled
    /\ settled' = settled \cup {i} /\ slots' = slots \cup {i}
    /\ UNCHANGED <<exclusive, signal, pc, group, started, committed, inFlight,
                   failed, invoked, barred, log, outcome>>

\* A dispatch rejects.
DispatchRejects(i) ==
    /\ i \in inFlight \ settled
    /\ settled' = settled \cup {i} /\ failed' = TRUE
    /\ UNCHANGED <<exclusive, signal, pc, group, started, committed, slots, inFlight,
                   invoked, barred, log, outcome>>

(***************************************************************************)
(* The scheduler.                                                           *)
(***************************************************************************)

\* executeToolCalls: classify the next call, and open its group.
Classify ==
    /\ pc = "classify"
    /\ IF next = N
         THEN /\ pc' = "done" /\ outcome' = "returned"
              /\ UNCHANGED <<mode, aborted, called, started, barred, next>>
         ELSE /\ mode' = IF next + 1 \in exclusive THEN "exclusive" ELSE "parallel"
              /\ aborted' = signal
              /\ Fill(aborted', mode')
    /\ UNCHANGED <<exclusive, signal, committed, slots, inFlight, registry, failed, answered>>

\* prepare resolves: dispatch the call, or fill its slot.
PrepareSettles(dispatches) ==
    /\ pc = "prepare"
    /\ IF failed THEN Throw /\ UNCHANGED <<inFlight, slots>>
       ELSE /\ pc' = "advance" /\ UNCHANGED outcome
            /\ IF dispatches THEN inFlight' = inFlight \cup {started} /\ UNCHANGED slots
                             ELSE slots' = slots \cup {started} /\ UNCHANGED inFlight
    /\ UNCHANGED <<exclusive, signal, group, started, committed, registry, failed,
                   barred, log>>

\* prepare rejects.
PrepareFails ==
    /\ pc = "prepare" /\ failed' = TRUE /\ Throw
    /\ UNCHANGED <<exclusive, signal, group, started, committed, slots, inFlight, registry,
                   barred, log>>

\* Mutant: a slot is committed whether or not it is filled.
AnyReady == committed < started

\* commitReady commits only the next slot in model order.
Ready == committed + 1 \in slots

\* Mutant: the signal is looked at only when a group opens.
StaleAbort == aborted

\* The signal is looked at after every round of commits.
NoticedAbort == aborted \/ signal

\* Between two awaits: commit the next ready result; when there is none leave
\* by a failure, or look at the signal and refill the pool.
Advance ==
    /\ pc = "advance"
    /\ IF Ready
         THEN pc' = "commit" /\ UNCHANGED <<aborted, called, started, barred, next, outcome>>
       ELSE IF failed
         THEN Throw /\ UNCHANGED <<aborted, called, started, barred, next>>
       ELSE aborted' = NoticedAbort /\ Fill(aborted', mode)
    /\ UNCHANGED <<exclusive, signal, mode, committed, slots, inFlight, registry, failed,
                   answered>>

\* finalize, or finish: append tool/result and accept its contexts.
CommitResult ==
    /\ pc = "commit" /\ pc' = "advance"
    /\ answered' = Append(answered, committed + 1) /\ committed' = committed + 1
    /\ UNCHANGED <<exclusive, signal, group, started, slots, inFlight, registry, failed,
                   barred, called, outcome>>

\* finalize throws, or the inbox does not accept a context of a result that was
\* appended.
CommitFails ==
    /\ pc = "commit" /\ failed' = TRUE /\ Throw
    /\ answered' \in {answered, Append(answered, committed + 1)}
    /\ UNCHANGED <<exclusive, signal, group, started, committed, slots, inFlight, registry,
                   barred, called>>

\* Mutant: the winner of a race stays in the pool.
WinnerStays(i) == inFlight

\* inFlight.delete(settledIndex)
WithoutWinner(i) == inFlight \ {i}

\* Promise.race over the calls in flight.
RaceSettles(i) ==
    /\ pc = "race" /\ i \in inFlight \cap settled
    /\ inFlight' = WithoutWinner(i)
    /\ IF failed THEN Throw ELSE pc' = "advance" /\ UNCHANGED outcome
    /\ UNCHANGED <<exclusive, signal, group, started, committed, slots, registry, failed,
                   barred, log>>

\* Promise.allSettled in the catch, and the rethrow.
Drained ==
    /\ pc = "drain" /\ inFlight \subseteq settled
    /\ pc' = "done" /\ outcome' = "failed"
    /\ UNCHANGED <<exclusive, signal, group, started, committed, slots, inFlight, registry,
                   failed, barred, log>>

\* Mutant: the calls an abort left unstarted get no result.
SkipSilently ==
    /\ pc = "skip" /\ pc' = "done" /\ outcome' = "returned"
    /\ UNCHANGED <<exclusive, signal, group, started, committed, slots, inFlight, registry,
                   failed, barred, log>>

\* appendSkippedToolCall for every call an abort left unstarted.
Skip ==
    /\ pc = "skip"
    /\ IF Len(answered) = N
         THEN pc' = "done" /\ outcome' = "returned" /\ UNCHANGED log
       ELSE /\ UNCHANGED <<pc, outcome>>
            /\ IF Len(called) = Len(answered)
                 THEN called' = Append(called, Len(called) + 1) /\ UNCHANGED answered
                 ELSE answered' = Append(answered, Len(answered) + 1) /\ UNCHANGED called
    /\ UNCHANGED <<exclusive, signal, group, started, committed, slots, inFlight, registry,
                   failed, barred>>

(***************************************************************************)
(* The specification.                                                       *)
(***************************************************************************)

Scheduler ==
    \/ Classify
    \/ \E dispatches \in BOOLEAN : PrepareSettles(dispatches)
    \/ PrepareFails \/ Advance \/ CommitResult \/ CommitFails
    \/ \E i \in Calls : RaceSettles(i)
    \/ Drained \/ Skip

Dispatch(i) == DispatchSettles(i) \/ DispatchRejects(i)

Next ==
    \/ Scheduler
    \/ \E i \in Calls : Reclassify(i) \/ BodyStarts(i) \/ Dispatch(i)
    \/ Abort

Spec == Init /\ [][Next]_vars

\* The event loop runs what is due; every hook and every tool body settles.
Fairness == WF_vars(Scheduler) /\ \A i \in Calls : WF_vars(Dispatch(i))

FairSpec == Spec /\ Fairness

(***************************************************************************)
(* Properties.                                                              *)
(***************************************************************************)

\* The calls whose bodies run.
Running == invoked \ settled

\* A call that was exclusive when it started runs while nothing else does, and
\* the pool stays within its limit, whatever the registry changes meanwhile
\* (the barrier in fillPool, and the group that drains before it returns).
BarriersHold ==
    /\ Cardinality(Running) <= MaxParallel
    /\ \A i \in Running \cap barred : Running = {i}

\* No result is made up: what was answered was settled, or skipped behind an
\* abort without having been started (commitReady, appendSkippedToolCall).
ResultsEarned ==
    \A i \in 1..Len(answered) : i \in slots \/ (aborted /\ i > started)

\* Execution settles, also by a failure, only when no body runs any more.
QuietAtEnd == outcome # "none" => Running = {}

\* A failure neither makes results up for what did not settle, nor leaves it
\* running (the drain of runGroup against commitReady).
FailuresDrain == ResultsEarned /\ QuietAtEnd

\* "uncommitted settled calls" is unreachable: execution rejects only with a
\* failure that was recorded.
RejectsForCause == outcome = "failed" => failed

\* No call starts once the signal is aborted, however the abort falls between
\* commits, races and hooks.
AbortStartsNoCall == [][started' # started => ~signal]_vars

\* A group keeps its rules however its calls settle, fail or are reclassified
\* while others run, and wherever the abort falls.
GroupsHold == [](BarriersHold /\ FailuresDrain) /\ AbortStartsNoCall

\* The log the scheduler writes is that of OrderedCalls.
Promise == INSTANCE OrderedCalls
ImplementsOrderedCalls == Promise!Spec

\* Execution settles.
Settles == <>(outcome # "none")
=============================================================================
