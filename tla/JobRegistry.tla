---------------------------- MODULE JobRegistry ----------------------------
(***************************************************************************)
(* The registry of background jobs (LocalJobRegistry): start, read, kill,    *)
(* wait, settlement, and the disposal of an owner and of the service, with   *)
(* the completion notice of tool-jobs.                                       *)
(*                                                                          *)
(* A producer is the work of a job.  Its done promise settles when it has    *)
(* released its resources, and the registry hears of it by a reaction of its *)
(* own.  A settlement runs to its end without interruption: it marks the job *)
(* reported if a wait counts, releases the waits and tells the listeners.    *)
(***************************************************************************)
EXTENDS Naturals, FiniteSets

CONSTANTS
    Jobs,       \* the jobs producers may start, each once
    Owners,     \* the agents that own jobs
    Nobody,     \* the owner of an unowned job
    Waits,      \* the wait calls
    Limit       \* maxConcurrentJobsPerOwner

ASSUME BoundsAssumption ==
    /\ IsFiniteSet(Jobs) /\ Limit \in Nat \ {0} /\ Nobody \notin Owners

VARIABLES
    status,     \* job.status; "none" is not started, "dropped" is deleted from the store
    owner,      \* job.owner
    producer,   \* "working", "released" its resources, or "heard" of by the registry
    reported,   \* job.reported
    wait,       \* where each wait call stands
    awaited,    \* the jobs it may be waiting for: {} before the call
    scope,      \* where the scope of each owner stands
    cleanups,   \* the keys of ownerCleanups
    service,    \* "up", "draining" from disposeAll on, "down"
    orphaned,   \* history: jobs forced to failed because their cancel threw
    excused,    \* history: jobs a kill or a teardown cancelled
    told,       \* history: jobs whose terminal state a read, kill or wait returned
    notices     \* history: how many completion notices each job made

jobs == <<status, owner, producer, reported>>
waits == <<wait, awaited>>
lifecycles == <<scope, cleanups, service>>
history == <<orphaned, excused, told, notices>>
vars == <<jobs, waits, lifecycles, history>>

Terminal(j) == status[j] \in {"finished", "failed", "dropped"}
Stored(j) == status[j] \notin {"none", "dropped"}
Live(j) == status[j] \in {"running", "stopping"}
OwnedBy(o) == {j \in Jobs : owner[j] = o /\ status[j] # "none"}

TypeOK ==
    /\ status \in [Jobs -> {"none", "running", "stopping", "finished", "failed", "dropped"}]
    /\ owner \in [Jobs -> Owners \cup {Nobody}]
    /\ producer \in [Jobs -> {"none", "working", "released", "heard"}]
    /\ reported \in [Jobs -> BOOLEAN]
    /\ wait \in [Waits -> {"none", "waiting", "timedOut", "released", "rejected", "returned"}]
    /\ awaited \in [Waits -> SUBSET Jobs]
    /\ scope \in [Owners -> {"active", "unloading", "cleaning", "gone"}]
    /\ cleanups \subseteq Owners
    /\ service \in {"up", "draining", "down"}
    /\ orphaned \subseteq Jobs /\ excused \subseteq Jobs /\ told \subseteq Jobs
    /\ notices \in [Jobs -> Nat]

Init ==
    /\ status = [j \in Jobs |-> "none"] /\ owner = [j \in Jobs |-> Nobody]
    /\ producer = [j \in Jobs |-> "none"] /\ reported = [j \in Jobs |-> FALSE]
    /\ wait = [w \in Waits |-> "none"] /\ awaited = [w \in Waits |-> {}]
    /\ scope = [o \in Owners |-> "active"] /\ cleanups = {} /\ service = "up"
    /\ orphaned = {} /\ excused = {} /\ told = {} /\ notices = [j \in Jobs |-> 0]

(***************************************************************************)
(* Start.                                                                   *)
(***************************************************************************)

\* Mutant: a job that is stopping has given up its place.
ActiveRunning(o) == {j \in OwnedBy(o) : status[j] = "running"}

\* The records activeTaskCount counts.
Active(o) == {j \in OwnedBy(o) : Live(j)}

\* The controllers of the registry's dependents serve its owners while it is up.
\* The owner's scope takes the cleanup effect, or holds it already.
Admitted(o) ==
    /\ service = "up"
    /\ o \in Owners \ cleanups => scope[o] = "active"

\* Mutant: the cleanup is attached also for a job that has no owner.
CleanupForAll(o) == cleanups' = cleanups \cup {o}

\* ensureOwnerCleanup
EnsureOwnerCleanup(o) == cleanups' = cleanups \cup ({o} \cap Owners)

Start(j, o) ==
    /\ status[j] = "none" /\ Admitted(o) /\ Cardinality(Active(o)) < Limit
    /\ EnsureOwnerCleanup(o)
    /\ status' = [status EXCEPT ![j] = "running"] /\ owner' = [owner EXCEPT ![j] = o]
    /\ producer' = [producer EXCEPT ![j] = "working"]
    /\ UNCHANGED <<reported, waits, scope, service, history>>

\* The limit is reached, or the producer's starter throws.
StartFails(o) ==
    /\ Admitted(o) /\ EnsureOwnerCleanup(o)
    /\ UNCHANGED <<jobs, waits, scope, service, history>>

(***************************************************************************)
(* Settlement.                                                              *)
(***************************************************************************)

\* Mutant: an aborted wait counts until its function returns.
WaitedByRejected(j) ==
    \E w \in Waits : j \in awaited[w] /\ wait[w] \in {"waiting", "timedOut", "rejected"}

\* Mutant: a settlement does not look at the waits.
WaitedNever(j) == FALSE

\* job.waiters > 0, for a job that has not settled.
Waited(j) == \E w \in Waits : j \in awaited[w] /\ wait[w] \in {"waiting", "timedOut"}

\* Every wait for a job of S is resolved.
ReleaseWaits(S) ==
    wait' = [w \in Waits |-> IF wait[w] = "waiting" /\ awaited[w] \cap S # {}
                               THEN "released" ELSE wait[w]]

\* The listener of tool-jobs, for a listening registry.
Notify(S, listening) ==
    notices' = [j \in Jobs |->
        IF j \in S /\ listening /\ ~reported'[j] /\ owner[j] # Nobody
          THEN notices[j] + 1 ELSE notices[j]]

\* settle, for each job of S: none of them has settled before.  claimed are
\* the jobs whose cancel claims the report.
Settle(S, claimed, listening) ==
    /\ reported' = [j \in Jobs |-> reported[j] \/ j \in claimed \/ (j \in S /\ Waited(j))]
    /\ ReleaseWaits(S) /\ Notify(S, listening)

\* The producer has released its resources: done settles.
Release(j) ==
    /\ producer[j] = "working" /\ producer' = [producer EXCEPT ![j] = "released"]
    /\ UNCHANGED <<status, owner, reported, waits, lifecycles, history>>

\* Mutant: the last outcome wins.
Unsettled(j) == status[j] # "none"

\* The first terminal outcome wins.
FirstOutcome(j) == ~Terminal(j)

\* The reaction to done.
HearDone(j) ==
    /\ producer[j] = "released" /\ producer' = [producer EXCEPT ![j] = "heard"]
    /\ IF FirstOutcome(j)
         THEN /\ status' = [status EXCEPT ![j] = "finished"]
              /\ Settle({j}, {}, service = "up")
         ELSE UNCHANGED <<status, reported, wait, notices>>
    /\ UNCHANGED <<owner, awaited, lifecycles, orphaned, excused, told>>

(***************************************************************************)
(* Read, kill, wait.                                                        *)
(***************************************************************************)

\* A terminal state is returned to a caller.
Tell(j) == reported' = [reported EXCEPT ![j] = TRUE] /\ told' = told \cup {j}

\* read; a read of a live job changes nothing here.
Read(j) ==
    /\ Stored(j) /\ Terminal(j) /\ Tell(j)
    /\ UNCHANGED <<status, owner, producer, waits, lifecycles, orphaned, excused, notices>>

\* kill of a live job whose cancel returns; if it throws, nothing changes.  A
\* job that has finished is told like a read tells it.
Kill(j) ==
    /\ Live(j) /\ status' = [status EXCEPT ![j] = "stopping"]
    /\ reported' = [reported EXCEPT ![j] = TRUE] /\ excused' = excused \cup {j}
    /\ UNCHANGED <<owner, producer, waits, lifecycles, orphaned, told, notices>>

\* wait: a terminal job is returned at once.
Wait(w, j) ==
    /\ wait[w] = "none" /\ Stored(j) /\ awaited' = [awaited EXCEPT ![w] = {j}]
    /\ IF Terminal(j) THEN wait' = [wait EXCEPT ![w] = "returned"] /\ Tell(j)
                      ELSE wait' = [wait EXCEPT ![w] = "waiting"] /\ UNCHANGED <<reported, told>>
    /\ UNCHANGED <<status, owner, producer, lifecycles, orphaned, excused, notices>>

\* onAbort with the deadline's reason: the wait counts until its function returns.
TimeOut(w) ==
    /\ wait[w] = "waiting" /\ wait' = [wait EXCEPT ![w] = "timedOut"]
    /\ UNCHANGED <<jobs, awaited, lifecycles, history>>

\* onAbort with the caller's reason: the wait stops counting at once.
Abort(w) ==
    /\ wait[w] = "waiting" /\ wait' = [wait EXCEPT ![w] = "rejected"]
    /\ UNCHANGED <<jobs, awaited, lifecycles, history>>

\* The function of a resolved wait returns what the job is by then.
Return(w) ==
    /\ wait[w] \in {"timedOut", "released"} /\ wait' = [wait EXCEPT ![w] = "returned"]
    /\ LET finished == {j \in awaited[w] : Terminal(j)}
       IN  /\ reported' = [j \in Jobs |-> reported[j] \/ j \in finished]
           /\ told' = told \cup finished
    /\ UNCHANGED <<status, owner, producer, awaited, lifecycles, orphaned, excused, notices>>

(***************************************************************************)
(* Disposal.  No job starts for a scope that is cleaning or a service that   *)
(* drains, so the jobs a disposal captured are the jobs it finds later.      *)
(***************************************************************************)

\* Mutant: the report is claimed behind the cancel, if it returned.
ClaimedReturned(S, throwing) == S \ throwing

\* Whose report a teardown claims: it decides before it calls the producer.
Claimed(S, throwing) == S

\* Mutant: a throwing cancel is only logged.
ForcedNone(throwing) == {}

\* A throwing cancel forces its record to failed.
Forced(throwing) == throwing

\* cancelForTeardown of the live jobs of S; cancel throws for some of them.
CancelForTeardown(S, throwing, listening) ==
    LET live == {j \in S : Live(j)} IN
    /\ throwing \subseteq live
    /\ status' = [j \in Jobs |-> IF j \in Forced(throwing) THEN "failed"
                                 ELSE IF j \in live \ throwing THEN "stopping" ELSE status[j]]
    /\ orphaned' = orphaned \cup Forced(throwing) /\ excused' = excused \cup live
    /\ Settle(Forced(throwing), Claimed(live, throwing), listening)
    /\ UNCHANGED <<owner, producer, awaited, told>>

\* The owner's agent is disposed: its scope takes no new effect.
Unload(o) ==
    /\ scope[o] = "active" /\ scope' = [scope EXCEPT ![o] = "unloading"]
    /\ UNCHANGED <<jobs, waits, cleanups, service, history>>

\* The cleanup effect runs: disposeOwned up to its await.
Cleanup(o, throwing) ==
    /\ scope[o] = "unloading" /\ o \in cleanups
    /\ scope' = [scope EXCEPT ![o] = "cleaning"] /\ cleanups' = cleanups \ {o}
    /\ CancelForTeardown(OwnedBy(o), throwing, service = "up")
    /\ UNCHANGED service

\* Mutant: the jobs that were stopping already are not awaited.
QuietButStopping(S) == \A j \in S : status[j] # "running"

\* await Promise.all(... settled)
Quiet(S) == \A j \in S : Terminal(j)

\* disposeOwned behind its await.
CleanupDone(o) ==
    /\ scope[o] = "cleaning" /\ Quiet(OwnedBy(o))
    /\ scope' = [scope EXCEPT ![o] = "gone"]
    /\ status' = [j \in Jobs |-> IF j \in OwnedBy(o) THEN "dropped" ELSE status[j]]
    /\ UNCHANGED <<owner, producer, reported, waits, cleanups, service, history>>

\* The scope of an owner without a cleanup.
Unloaded(o) ==
    /\ scope[o] = "unloading" /\ o \notin cleanups
    /\ scope' = [scope EXCEPT ![o] = "gone"]
    /\ UNCHANGED <<jobs, waits, cleanups, service, history>>

\* disposeAll up to its await; its listeners are closed first.
CloseService(throwing) ==
    /\ service = "up" /\ service' = "draining"
    /\ CancelForTeardown(Jobs, throwing, FALSE)
    /\ UNCHANGED <<scope, cleanups>>

\* disposeAll behind its await: clear the store, detach the cleanups, which
\* find nothing to do.
ServiceDown ==
    /\ service = "draining" /\ Quiet({j \in Jobs : Stored(j)})
    /\ service' = "down" /\ cleanups' = {}
    /\ status' = [j \in Jobs |-> IF Stored(j) THEN "dropped" ELSE status[j]]
    /\ UNCHANGED <<owner, producer, reported, waits, scope, history>>

(***************************************************************************)
(* The specification.                                                       *)
(***************************************************************************)

Job(j) ==
    \/ \E o \in Owners \cup {Nobody} : Start(j, o)
    \/ Release(j) \/ HearDone(j) \/ Read(j) \/ Kill(j)
WaitCall(w) == (\E j \in Jobs : Wait(w, j)) \/ TimeOut(w) \/ Abort(w) \/ Return(w)
Owner(o) ==
    \/ StartFails(o) \/ Unload(o) \/ (\E throwing \in SUBSET Jobs : Cleanup(o, throwing))
    \/ CleanupDone(o) \/ Unloaded(o)

Next ==
    \/ \E j \in Jobs : Job(j)
    \/ \E w \in Waits : WaitCall(w)
    \/ \E o \in Owners : Owner(o)
    \/ \E throwing \in SUBSET Jobs : CloseService(throwing)
    \/ ServiceDown

Spec == Init /\ [][Next]_vars

(***************************************************************************)
(* Fairness: the event loop runs what is due, and a producer whose cancel    *)
(* returned settles ("must ... eventually settle done").  Nobody is obliged  *)
(* to start, kill, wait, abort or dispose, and no wait to time out.          *)
(***************************************************************************)
Obeys(j) == status[j] = "stopping" /\ Release(j)

Fairness ==
    /\ \A j \in Jobs : WF_vars(Obeys(j)) /\ WF_vars(HearDone(j))
    /\ \A w \in Waits : WF_vars(Return(w))
    /\ \A o \in Owners : /\ WF_vars(\E throwing \in SUBSET Jobs : Cleanup(o, throwing))
                         /\ WF_vars(CleanupDone(o)) /\ WF_vars(Unloaded(o))
    /\ WF_vars(ServiceDown)

FairSpec == Spec /\ Fairness

(***************************************************************************)
(* Properties.                                                              *)
(***************************************************************************)

\* A completion is never swallowed: when an owned job has settled and nobody
\* cancelled it, a notice was sent, or its terminal state was returned, or a
\* wait that has been resolved is about to return it.  In particular a notice
\* suppressed for a wait is never followed by that wait's rejection (settle,
\* the uncounting in onAbort).
CompletionTold ==
    \A j \in Jobs : Terminal(j) /\ owner[j] # Nobody /\ j \notin excused /\ service = "up" =>
        \/ notices[j] > 0 \/ j \in told
        \/ \E w \in Waits : j \in awaited[w] /\ wait[w] \in {"timedOut", "released"}

\* A completion is noticed once, and not at all when the settlement answered a
\* wait ("so completion reporters do not duplicate notices").
NoticedOnce ==
    \A j \in Jobs :
        /\ notices[j] <= 1
        /\ notices[j] > 0 => \A w \in Waits : j \in awaited[w] => wait[w] # "released"

\* A completion reaches its owner, and reaches it once, by a notice or by the
\* wait it answered.
ToldOnce == CompletionTold /\ NoticedOnce

\* The work of an owner stays within its limit, not only the records that say
\* so: a place is given up when the producer has released its resources, and
\* not when it was asked to (activeTaskCount).
WorkWithinLimit ==
    \A o \in Owners \cup {Nobody} :
        Cardinality({j \in OwnedBy(o) : producer[j] = "working"} \ orphaned) <= Limit

\* A disposed owner and a disposed service leave no work behind, but for the
\* orphans they reported (disposeOwned, disposeAll).
DisposalQuiet ==
    \A j \in Jobs : producer[j] = "working" /\ j \notin orphaned =>
        service # "down" /\ (owner[j] \in Owners => scope[owner[j]] # "gone")

\* Work is accounted for while it lasts, not only while its record says so: in
\* its owner's limit, and in the disposals that must await it.
WorkAccounted == WorkWithinLimit /\ DisposalQuiet

\* The first terminal record stays, until it is dropped: no late outcome, kill
\* or second disposal replaces it (settle, kill, cancelForTeardown).
OutcomeStays ==
    [][\A j \in Jobs : Terminal(j) => status'[j] \in {status[j], "dropped"}]_vars

\* No notice reaches an owner that is being torn down, also when its job's
\* cancel throws ("a throwing cancel must not be the one path that announces
\* an unreported completion into a disposing owner").
TeardownSilent ==
    [][\A j \in Jobs : notices'[j] # notices[j] =>
         service' = "up" /\ scope'[owner[j]] \in {"active", "unloading"}]_vars

\* What a teardown forces is final and unheard: no late outcome replaces it,
\* and the owner being disposed is not told (cancelForTeardown against settle).
TeardownIsFinal == OutcomeStays /\ TeardownSilent

\* The disposals of an owner and of the service end, whatever their jobs'
\* cancels do ("force-failed to avoid teardown deadlock").
DisposalsEnd ==
    /\ \A o \in Owners : scope[o] = "unloading" ~> scope[o] = "gone"
    /\ service = "draining" ~> service = "down"
=============================================================================
