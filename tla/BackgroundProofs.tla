-------------------------- MODULE BackgroundProofs --------------------------
(***************************************************************************)
(* Proofs about what goes on beside an agent's turns: JobRegistry, for every *)
(* set of jobs, owners and waits and every limit, and Schedule, for every    *)
(* log an agent is resumed on, every horizon, intervals and delay, and any   *)
(* number of calls, activities and troubles.                                 *)
(***************************************************************************)
EXTENDS JobRegistry, Schedule, FiniteSetTheorems, SequenceTheorems, WellFoundedInduction, TLAPS

(***************************************************************************)
(* PART ONE.  JobRegistry.                                                  *)
(***************************************************************************)

(***************************************************************************)
(* The inductive invariant.                                                 *)
(***************************************************************************)

\* What a record says of its producer and of who has heard of it.
RecordInv ==
    \A j \in Jobs :
        /\ Live(j) => producer[j] \in {"working", "released"}
        /\ status[j] = "none" => producer[j] = "none"
        /\ Terminal(j) => producer[j] = "heard" \/ j \in orphaned
        /\ Live(j) /\ reported[j] => j \in excused
        /\ status[j] = "none" => ~reported[j]
        /\ ~Terminal(j) => notices[j] = 0
        /\ notices[j] <= 1

\* A wait is for one job, and is released by its settlement and by nothing else.
WaitInv ==
    \A w \in Waits : \A j \in awaited[w] :
        /\ awaited[w] = {j} /\ status[j] # "none"
        /\ wait[w] = "waiting" => Live(j)
        /\ wait[w] = "released" => Terminal(j)

\* A job runs only where a disposal will find it, has claimed it, or has not
\* passed yet.
LifecycleInv ==
    /\ \A o \in cleanups : scope[o] \in {"active", "unloading"}
    /\ \A j \in Jobs : Live(j) =>
        /\ service # "down"
        /\ owner[j] \in Owners =>
             /\ scope[owner[j]] # "gone"
             /\ scope[owner[j]] = "cleaning" => reported[j]
             /\ scope[owner[j]] # "cleaning" => owner[j] \in cleanups

\* The limit holds for the records that count.
LimitInv == \A o \in Owners \cup {Nobody} : Cardinality(Active(o)) <= Limit

IInv == TypeOK /\ RecordInv /\ WaitInv /\ LifecycleInv /\ CompletionTold /\ NoticedOnce

(***************************************************************************)
(* The teardown, which two actions share.                                   *)
(***************************************************************************)

\* A teardown claims the live jobs it cancels, forces those whose cancel throws,
\* and sends no notice.
TornDown(S, throwing) ==
    /\ \A j \in throwing : j \in S /\ Live(j)
    /\ status' \in [Jobs -> {"none", "running", "stopping", "finished", "failed", "dropped"}]
    /\ \A j \in Jobs : status'[j] =
         IF j \in throwing THEN "failed"
         ELSE IF j \in S /\ Live(j) THEN "stopping" ELSE status[j]
    /\ reported' \in [Jobs -> BOOLEAN]
    /\ \A j \in Jobs : reported'[j] <=> reported[j] \/ (j \in S /\ Live(j))
    /\ wait' \in [Waits -> {"none", "waiting", "timedOut", "released", "rejected", "returned"}]
    /\ \A w \in Waits :
         IF wait[w] = "waiting" /\ awaited[w] \cap throwing # {}
           THEN wait'[w] = "released" ELSE wait'[w] = wait[w]
    /\ notices' = notices
    /\ orphaned' = orphaned \cup throwing
    /\ excused' \subseteq Jobs /\ excused \subseteq excused'
    /\ \A j \in S : Live(j) => j \in excused'
    /\ UNCHANGED <<owner, producer, awaited, told>>

\* That is what cancelForTeardown does.
LEMMA TeardownFacts ==
    ASSUME TypeOK, NEW S \in SUBSET Jobs, NEW throwing \in SUBSET Jobs,
           NEW listening \in BOOLEAN, CancelForTeardown(S, throwing, listening)
    PROVE  TornDown(S, throwing)
<1> DEFINE live == {j \in S : Live(j)}
<1>1. /\ throwing \subseteq live /\ Settle(throwing, live, listening)
      /\ status' = [j \in Jobs |-> IF j \in throwing THEN "failed"
                                   ELSE IF j \in live \ throwing THEN "stopping" ELSE status[j]]
      /\ orphaned' = orphaned \cup throwing /\ excused' = excused \cup live
      /\ UNCHANGED <<owner, producer, awaited, told>>
  BY DEF CancelForTeardown, Forced, Claimed
<1>2. /\ reported' \in [Jobs -> BOOLEAN]
      /\ \A j \in Jobs : reported'[j] <=> reported[j] \/ j \in live \/ (j \in throwing /\ Waited(j))
  BY <1>1 DEF Settle, TypeOK
<1>3. /\ wait' \in [Waits -> {"none", "waiting", "timedOut", "released", "rejected", "returned"}]
      /\ \A w \in Waits :
           IF wait[w] = "waiting" /\ awaited[w] \cap throwing # {}
             THEN wait'[w] = "released" ELSE wait'[w] = wait[w]
  BY <1>1 DEF Settle, ReleaseWaits, TypeOK
<1>4. notices' = notices
  <2>1. \A j \in throwing : reported'[j] BY <1>1, <1>2
  <2>2. notices' = [j \in Jobs |-> notices[j]] BY <1>1, <2>1 DEF Settle, Notify
  <2> QED BY <2>2 DEF TypeOK
<1> QED BY <1>1, <1>2, <1>3, <1>4 DEF TypeOK, TornDown

(***************************************************************************)
(* The steps.                                                               *)
(***************************************************************************)

\* Types hold of a settlement's waits and notices.
LEMMA SettleTypes ==
    ASSUME TypeOK, NEW j \in Jobs, HearDone(j)
    PROVE  TypeOK'
<1> USE DEF HearDone
<1>1. CASE FirstOutcome(j)
  <2> USE <1>1 DEF Settle, TypeOK
  <2>1. reported' \in [Jobs -> BOOLEAN]
    <3>1. reported' = [i \in Jobs |-> reported[i] \/ i \in {} \/ (i \in {j} /\ Waited(i))]
      OBVIOUS
    <3> QED BY ONLY <3>1
  <2>2. wait' \in [Waits -> {"none", "waiting", "timedOut", "released", "rejected", "returned"}]
    BY DEF ReleaseWaits
  <2>3. notices' \in [Jobs -> Nat] BY DEF Notify
  <2>4. /\ status' \in [Jobs -> {"none", "running", "stopping", "finished", "failed", "dropped"}]
        /\ producer' \in [Jobs -> {"none", "working", "released", "heard"}]
    OBVIOUS
  <2> QED BY <2>1, <2>2, <2>3, <2>4 DEF lifecycles
<1>2. CASE ~FirstOutcome(j)
  BY <1>2 DEF TypeOK, lifecycles
<1> QED BY <1>1, <1>2

\* A settlement notices a job that no wait counts for, and releases the others.
LEMMA SettleNotices ==
    ASSUME IInv, NEW j \in Jobs, HearDone(j)
    PROVE  NoticedOnce'
<1> USE DEF IInv, HearDone
<1>1. CASE FirstOutcome(j)
  <2> USE <1>1 DEF Settle, FirstOutcome, Terminal
  <2>1. (Waited(j) => reported'[j]) /\ awaited' = awaited
    BY DEF TypeOK
  <2>2. \A w \in Waits : wait'[w] = "released" =>
          wait[w] = "released" \/ (wait[w] = "waiting" /\ j \in awaited[w])
    BY DEF ReleaseWaits
  <2>3. /\ \A i \in Jobs : i # j => notices'[i] = notices[i]
        /\ notices'[j] = notices[j] \/ (notices'[j] = notices[j] + 1 /\ ~reported'[j])
    BY DEF Notify, TypeOK
  <2>4. notices[j] = 0 BY DEF RecordInv, TypeOK
  <2>5. \A i \in Jobs : notices'[i] <= 1 BY <2>3, <2>4 DEF NoticedOnce
  <2>6. ASSUME NEW i \in Jobs, notices'[i] > 0, NEW w \in Waits, i \in awaited[w], wait'[w] = "released"
        PROVE  FALSE
    <3>1. CASE i = j
      <4>1. ~Waited(j) BY <2>1, <2>3, <2>4, <2>6, <3>1
      <4>2. wait[w] # "waiting" BY <2>6, <3>1, <4>1 DEF Waited
      <4>3. wait[w] = "released" BY <2>2, <2>6, <4>2
      <4> QED BY <2>6, <3>1, <4>3 DEF WaitInv
    <3>2. CASE i # j
      BY <2>2, <2>3, <2>6, <3>2 DEF WaitInv, NoticedOnce, TypeOK
    <3> QED BY <3>1, <3>2
  <2> QED BY <2>1, <2>5, <2>6 DEF NoticedOnce
<1>2. CASE ~FirstOutcome(j)
  BY <1>2 DEF NoticedOnce
<1> QED BY <1>1, <1>2

\* Every step keeps the invariant.
LEMMA InvStep ==
    ASSUME IInv, [Next]_vars
    PROVE  IInv'
<1> USE BoundsAssumption DEF IInv, jobs, waits, lifecycles, history, Terminal, Live
<1>1. ASSUME NEW j \in Jobs, NEW o \in Owners \cup {Nobody}, Start(j, o) PROVE IInv'
  <2>1. TypeOK' BY <1>1 DEF Start, EnsureOwnerCleanup, TypeOK
  <2>2. RecordInv' BY <1>1 DEF Start, TypeOK, RecordInv
  <2>3. WaitInv' BY <1>1 DEF Start, WaitInv
  <2>4. LifecycleInv' BY <1>1 DEF Start, Admitted, EnsureOwnerCleanup, TypeOK, LifecycleInv
  <2>5. CompletionTold' BY <1>1 DEF Start, CompletionTold
  <2>6. NoticedOnce' BY <1>1 DEF Start, NoticedOnce
  <2> QED BY <2>1, <2>2, <2>3, <2>4, <2>5, <2>6
<1>2. ASSUME NEW o \in Owners, StartFails(o) PROVE IInv'
  <2>1. TypeOK' BY <1>2 DEF StartFails, EnsureOwnerCleanup, TypeOK
  <2>2. RecordInv' BY <1>2 DEF StartFails, RecordInv
  <2>3. WaitInv' BY <1>2 DEF StartFails, WaitInv
  <2>4. LifecycleInv' BY <1>2 DEF StartFails, Admitted, EnsureOwnerCleanup, LifecycleInv
  <2>5. CompletionTold' BY <1>2 DEF StartFails, CompletionTold
  <2>6. NoticedOnce' BY <1>2 DEF StartFails, NoticedOnce
  <2> QED BY <2>1, <2>2, <2>3, <2>4, <2>5, <2>6
<1>3. ASSUME NEW j \in Jobs, Release(j) PROVE IInv'
  <2>1. TypeOK' BY <1>3 DEF Release, TypeOK
  <2>2. RecordInv' BY <1>3 DEF Release, RecordInv
  <2>3. WaitInv' BY <1>3 DEF Release, WaitInv
  <2>4. LifecycleInv' BY <1>3 DEF Release, LifecycleInv
  <2>5. CompletionTold' BY <1>3 DEF Release, CompletionTold
  <2>6. NoticedOnce' BY <1>3 DEF Release, NoticedOnce
  <2> QED BY <2>1, <2>2, <2>3, <2>4, <2>5, <2>6
<1>4. ASSUME NEW j \in Jobs, HearDone(j) PROVE IInv'
  <2>1. TypeOK' BY <1>4, SettleTypes
  <2>2. RecordInv' BY <1>4 DEF HearDone, FirstOutcome, Settle, Notify, TypeOK, RecordInv
  <2>3. WaitInv' BY <1>4 DEF HearDone, Settle, ReleaseWaits, TypeOK, WaitInv
  <2>4. LifecycleInv' BY <1>4 DEF HearDone, Settle, TypeOK, LifecycleInv
  <2>5. CompletionTold' BY <1>4 DEF HearDone, Settle, Waited, ReleaseWaits, Notify, TypeOK, CompletionTold, RecordInv
  <2>6. NoticedOnce' BY <1>4, SettleNotices
  <2> QED BY <2>1, <2>2, <2>3, <2>4, <2>5, <2>6
<1>5. ASSUME NEW j \in Jobs, Read(j) PROVE IInv'
  <2>1. TypeOK' BY <1>5 DEF Read, Tell, TypeOK
  <2>2. RecordInv' BY <1>5 DEF Read, Tell, RecordInv
  <2>3. WaitInv' BY <1>5 DEF Read, WaitInv
  <2>4. LifecycleInv' BY <1>5 DEF Read, Tell, LifecycleInv
  <2>5. CompletionTold' BY <1>5 DEF Read, Tell, CompletionTold
  <2>6. NoticedOnce' BY <1>5 DEF Read, NoticedOnce
  <2> QED BY <2>1, <2>2, <2>3, <2>4, <2>5, <2>6
<1>6. ASSUME NEW j \in Jobs, Kill(j) PROVE IInv'
  <2>1. TypeOK' BY <1>6 DEF Kill, TypeOK
  <2>2. RecordInv' BY <1>6 DEF Kill, RecordInv
  <2>3. WaitInv' BY <1>6 DEF Kill, WaitInv
  <2>4. LifecycleInv' BY <1>6 DEF Kill, LifecycleInv
  <2>5. CompletionTold' BY <1>6 DEF Kill, CompletionTold
  <2>6. NoticedOnce' BY <1>6 DEF Kill, NoticedOnce
  <2> QED BY <2>1, <2>2, <2>3, <2>4, <2>5, <2>6
<1>7. ASSUME NEW w \in Waits, NEW j \in Jobs, Wait(w, j) PROVE IInv'
  <2>1. TypeOK'
    <3>1. awaited' \in [Waits -> SUBSET Jobs] BY <1>7 DEF Wait, TypeOK
    <3>2. wait' \in [Waits -> {"none", "waiting", "timedOut", "released", "rejected", "returned"}]
      BY <1>7 DEF Wait, TypeOK
    <3>3. reported' \in [Jobs -> BOOLEAN] /\ told' \subseteq Jobs
      BY <1>7 DEF Wait, Tell, TypeOK
    <3> QED BY <1>7, <3>1, <3>2, <3>3 DEF Wait, TypeOK
  <2>2. RecordInv' BY <1>7 DEF Wait, Tell, TypeOK, RecordInv
  <2>3. WaitInv' BY <1>7 DEF Wait, Stored, TypeOK, WaitInv
  <2>4. LifecycleInv' BY <1>7 DEF Wait, Tell, TypeOK, LifecycleInv
  <2>5. CompletionTold' BY <1>7 DEF Wait, Tell, TypeOK, CompletionTold
  <2>6. NoticedOnce' BY <1>7 DEF Wait, TypeOK, NoticedOnce
  <2> QED BY <2>1, <2>2, <2>3, <2>4, <2>5, <2>6
<1>8. ASSUME NEW w \in Waits, TimeOut(w) PROVE IInv'
  <2>1. TypeOK' BY <1>8 DEF TimeOut, TypeOK
  <2>2. RecordInv' BY <1>8 DEF TimeOut, RecordInv
  <2>3. WaitInv' BY <1>8 DEF TimeOut, WaitInv
  <2>4. LifecycleInv' BY <1>8 DEF TimeOut, LifecycleInv
  <2>5. CompletionTold' BY <1>8 DEF TimeOut, CompletionTold
  <2>6. NoticedOnce' BY <1>8 DEF TimeOut, NoticedOnce
  <2> QED BY <2>1, <2>2, <2>3, <2>4, <2>5, <2>6
<1>9. ASSUME NEW w \in Waits, Abort(w) PROVE IInv'
  <2>1. TypeOK' BY <1>9 DEF Abort, TypeOK
  <2>2. RecordInv' BY <1>9 DEF Abort, RecordInv
  <2>3. WaitInv' BY <1>9 DEF Abort, WaitInv
  <2>4. LifecycleInv' BY <1>9 DEF Abort, LifecycleInv
  <2>5. CompletionTold' BY <1>9 DEF Abort, CompletionTold
  <2>6. NoticedOnce' BY <1>9 DEF Abort, NoticedOnce
  <2> QED BY <2>1, <2>2, <2>3, <2>4, <2>5, <2>6
<1>10. ASSUME NEW w \in Waits, Return(w) PROVE IInv'
  <2>1. TypeOK' BY <1>10 DEF Return, TypeOK
  <2>2. RecordInv' BY <1>10 DEF Return, RecordInv
  <2>3. WaitInv' BY <1>10 DEF Return, WaitInv
  <2>4. LifecycleInv' BY <1>10 DEF Return, LifecycleInv
  <2>5. CompletionTold' BY <1>10 DEF Return, CompletionTold
  <2>6. NoticedOnce' BY <1>10 DEF Return, NoticedOnce
  <2> QED BY <2>1, <2>2, <2>3, <2>4, <2>5, <2>6
<1>11. ASSUME NEW o \in Owners, Unload(o) PROVE IInv'
  <2>1. TypeOK' BY <1>11 DEF Unload, TypeOK
  <2>2. RecordInv' BY <1>11 DEF Unload, RecordInv
  <2>3. WaitInv' BY <1>11 DEF Unload, WaitInv
  <2>4. LifecycleInv' BY <1>11 DEF Unload, LifecycleInv
  <2>5. CompletionTold' BY <1>11 DEF Unload, CompletionTold
  <2>6. NoticedOnce' BY <1>11 DEF Unload, NoticedOnce
  <2> QED BY <2>1, <2>2, <2>3, <2>4, <2>5, <2>6
<1>12. ASSUME NEW o \in Owners, NEW throwing \in SUBSET Jobs, Cleanup(o, throwing) PROVE IInv'
  <2>1. TornDown(OwnedBy(o), throwing)
    BY <1>12, TeardownFacts DEF Cleanup, OwnedBy, TypeOK
  <2>2. TypeOK' BY <1>12, <2>1 DEF Cleanup, TornDown, TypeOK
  <2>3. RecordInv' BY <1>12, <2>1 DEF TornDown, RecordInv
  <2>4. WaitInv' BY <1>12, <2>1 DEF TornDown, TypeOK, WaitInv
  <2>5. LifecycleInv' BY <1>12, <2>1 DEF Cleanup, TornDown, OwnedBy, TypeOK, LifecycleInv
  <2>6. CompletionTold' BY <1>12, <2>1 DEF Cleanup, TornDown, CompletionTold
  <2>7. NoticedOnce' BY <1>12, <2>1 DEF TornDown, NoticedOnce, RecordInv, WaitInv
  <2> QED BY <2>2, <2>3, <2>4, <2>5, <2>6, <2>7
<1>13. ASSUME NEW o \in Owners, CleanupDone(o) PROVE IInv'
  <2>1. TypeOK' BY <1>13 DEF CleanupDone, TypeOK
  <2>2. RecordInv' BY <1>13 DEF CleanupDone, Quiet, RecordInv
  <2>3. WaitInv' BY <1>13 DEF CleanupDone, Quiet, TypeOK, WaitInv
  <2>4. LifecycleInv' BY <1>13 DEF CleanupDone, OwnedBy, LifecycleInv
  <2>5. CompletionTold' BY <1>13 DEF CleanupDone, OwnedBy, TypeOK, CompletionTold, RecordInv, LifecycleInv
  <2>6. NoticedOnce' BY <1>13 DEF CleanupDone, NoticedOnce
  <2> QED BY <2>1, <2>2, <2>3, <2>4, <2>5, <2>6
<1>14. ASSUME NEW o \in Owners, Unloaded(o) PROVE IInv'
  <2>1. TypeOK' BY <1>14 DEF Unloaded, TypeOK
  <2>2. RecordInv' BY <1>14 DEF Unloaded, RecordInv
  <2>3. WaitInv' BY <1>14 DEF Unloaded, WaitInv
  <2>4. LifecycleInv' BY <1>14 DEF Unloaded, LifecycleInv
  <2>5. CompletionTold' BY <1>14 DEF Unloaded, CompletionTold
  <2>6. NoticedOnce' BY <1>14 DEF Unloaded, NoticedOnce
  <2> QED BY <2>1, <2>2, <2>3, <2>4, <2>5, <2>6
<1>15. ASSUME NEW throwing \in SUBSET Jobs, CloseService(throwing) PROVE IInv'
  <2>1. TornDown(Jobs, throwing)
    BY <1>15, TeardownFacts DEF CloseService, OwnedBy, TypeOK
  <2>2. TypeOK' BY <1>15, <2>1 DEF CloseService, TornDown, TypeOK
  <2>3. RecordInv' BY <1>15, <2>1 DEF TornDown, RecordInv
  <2>4. WaitInv' BY <1>15, <2>1 DEF TornDown, TypeOK, WaitInv
  <2>5. LifecycleInv' BY <1>15, <2>1 DEF CloseService, TornDown, LifecycleInv
  <2>6. CompletionTold' BY <1>15, <2>1 DEF CloseService, CompletionTold
  <2>7. NoticedOnce' BY <1>15, <2>1 DEF TornDown, NoticedOnce, RecordInv, WaitInv
  <2> QED BY <2>2, <2>3, <2>4, <2>5, <2>6, <2>7
<1>16. CASE ServiceDown
  <2>1. TypeOK' BY <1>16 DEF ServiceDown, TypeOK
  <2>2. RecordInv' BY <1>16 DEF ServiceDown, Quiet, RecordInv
  <2>3. WaitInv' BY <1>16 DEF ServiceDown, Quiet, TypeOK, WaitInv
  <2>4. LifecycleInv' BY <1>16 DEF ServiceDown, Stored, LifecycleInv
  <2>5. CompletionTold' BY <1>16 DEF ServiceDown, CompletionTold
  <2>6. NoticedOnce' BY <1>16 DEF ServiceDown, NoticedOnce
  <2> QED BY <2>1, <2>2, <2>3, <2>4, <2>5, <2>6
<1>17. CASE UNCHANGED vars
  BY <1>17 DEF vars, TypeOK, RecordInv, WaitInv, LifecycleInv, CompletionTold, NoticedOnce
<1> QED
  BY <1>1, <1>2, <1>3, <1>4, <1>5, <1>6, <1>7, <1>8, <1>9, <1>10, <1>11, <1>12,
     <1>13, <1>14, <1>15, <1>16, <1>17
  DEF Next, Job, WaitCall, Owner

\* The invariant holds at the start.
LEMMA InvInit ==
    ASSUME Init
    PROVE  IInv
<1> USE DEF Init, Terminal, Live
<1>1. TypeOK BY DEF TypeOK
<1>2. RecordInv /\ WaitInv /\ LifecycleInv BY DEF RecordInv, WaitInv, LifecycleInv
<1>3. CompletionTold /\ NoticedOnce BY DEF CompletionTold, NoticedOnce
<1> QED BY <1>1, <1>2, <1>3 DEF IInv

\* It holds in every reachable state.
THEOREM Invariant == Spec => []IInv
<1> QED BY InvInit, InvStep, PTL DEF Spec

(***************************************************************************)
(* What a step does to one record.                                          *)
(***************************************************************************)

\* A record is started, changes while it is live, and is dropped when it is
\* terminal.
LEMMA RecordStep ==
    ASSUME IInv, [Next]_vars, NEW j \in Jobs
    PROVE  \/ \E o \in Owners \cup {Nobody} : Start(j, o)
           \/ /\ owner'[j] = owner[j]
              /\ \/ status'[j] = status[j] \/ Live(j)
                 \/ Terminal(j) /\ status'[j] = "dropped"
<1> USE DEF IInv, TypeOK, jobs, waits, lifecycles, history, Terminal, Live
<1>1. ASSUME NEW k \in Jobs, NEW o \in Owners \cup {Nobody}, k # j, Start(k, o)
      PROVE  status'[j] = status[j] /\ owner'[j] = owner[j]
  BY <1>1 DEF Start
<1>2. ASSUME NEW k \in Jobs, Release(k) \/ HearDone(k) \/ Read(k) \/ Kill(k)
      PROVE  owner'[j] = owner[j] /\ (status'[j] = status[j] \/ Live(j))
  BY <1>2 DEF Release, HearDone, FirstOutcome, Read, Kill, RecordInv
<1>3. ASSUME NEW w \in Waits, WaitCall(w)
      PROVE  status'[j] = status[j] /\ owner'[j] = owner[j]
  BY <1>3 DEF WaitCall, Wait, TimeOut, Abort, Return
<1>4. ASSUME NEW o \in Owners, StartFails(o) \/ Unload(o) \/ Unloaded(o)
      PROVE  status'[j] = status[j] /\ owner'[j] = owner[j]
  BY <1>4 DEF StartFails, Unload, Unloaded
<1>5. ASSUME NEW o \in Owners, NEW throwing \in SUBSET Jobs, Cleanup(o, throwing)
      PROVE  owner'[j] = owner[j] /\ (status'[j] = status[j] \/ Live(j))
  <2>1. TornDown(OwnedBy(o), throwing) BY <1>5, TeardownFacts DEF Cleanup, OwnedBy
  <2> QED BY <2>1 DEF TornDown
<1>6. ASSUME NEW o \in Owners, CleanupDone(o)
      PROVE  /\ owner'[j] = owner[j]
             /\ status'[j] = status[j] \/ (Terminal(j) /\ status'[j] = "dropped")
  BY <1>6 DEF CleanupDone, Quiet
<1>7. ASSUME NEW throwing \in SUBSET Jobs, CloseService(throwing)
      PROVE  owner'[j] = owner[j] /\ (status'[j] = status[j] \/ Live(j))
  <2>1. TornDown(Jobs, throwing) BY <1>7, TeardownFacts DEF CloseService
  <2> QED BY <2>1 DEF TornDown
<1>8. CASE ServiceDown
  BY <1>8 DEF ServiceDown, Quiet, Stored
<1>9. CASE UNCHANGED vars
  BY <1>9 DEF vars
<1> QED BY <1>1, <1>2, <1>3, <1>4, <1>5, <1>6, <1>7, <1>8, <1>9 DEF Next, Job, Owner

(***************************************************************************)
(* The limit.                                                               *)
(***************************************************************************)

\* A start adds one to the active records of its owner, which were below the
\* limit; no other step adds any.
LEMMA ActiveGrows ==
    ASSUME IInv, [Next]_vars, NEW p \in Owners \cup {Nobody}
    PROVE  \/ Active(p)' \subseteq Active(p)
           \/ /\ Cardinality(Active(p)) < Limit
              /\ \E j \in Jobs : Active(p)' = Active(p) \cup {j} /\ j \notin Active(p)
<1> USE DEF IInv, Active, OwnedBy, Terminal, Live
<1>1. ASSUME NEW j \in Jobs, Start(j, p)
      PROVE  /\ Cardinality(Active(p)) < Limit
             /\ Active(p)' = Active(p) \cup {j} /\ j \notin Active(p)
  BY <1>1 DEF Start, TypeOK
<1>2. ASSUME \A j \in Jobs : ~Start(j, p)
      PROVE  Active(p)' \subseteq Active(p)
  <2> SUFFICES ASSUME NEW j \in Jobs, j \in Active(p)'
               PROVE  j \in Active(p)
    OBVIOUS
  <2>1. \A o \in Owners \cup {Nobody} : Start(j, o) => owner'[j] = o
    BY DEF Start, TypeOK
  <2> QED BY <1>2, <2>1, RecordStep
<1> QED BY <1>1, <1>2

\* The records that count stay within the limit.
LEMMA LimitStep ==
    ASSUME IInv, LimitInv, [Next]_vars
    PROVE  LimitInv'
<1> SUFFICES ASSUME NEW p \in Owners \cup {Nobody}
             PROVE  Cardinality(Active(p)') <= Limit
  BY DEF LimitInv
<1>1. Active(p) \subseteq Jobs BY DEF Active, OwnedBy
<1>2. IsFiniteSet(Active(p)) /\ Cardinality(Active(p)) \in Nat
  BY <1>1, BoundsAssumption, FS_Subset, FS_CardinalityType
<1>3. CASE Active(p)' \subseteq Active(p)
  <2>1. /\ Cardinality(Active(p)') <= Cardinality(Active(p)) /\ Cardinality(Active(p)') \in Nat
    BY <1>2, <1>3, FS_Subset, FS_CardinalityType
  <2> QED BY <1>2, <2>1, BoundsAssumption DEF LimitInv
<1>4. ASSUME Cardinality(Active(p)) < Limit, NEW j \in Jobs,
             Active(p)' = Active(p) \cup {j}, j \notin Active(p)
      PROVE  Cardinality(Active(p)') <= Limit
  <2>1. Cardinality(Active(p)') = Cardinality(Active(p)) + 1
    BY <1>2, <1>4, FS_AddElement
  <2> QED BY <1>2, <1>4, <2>1, BoundsAssumption
<1> QED BY <1>3, <1>4, ActiveGrows

\* Nothing is active at the start.
LEMMA LimitInit ==
    ASSUME Init
    PROVE  LimitInv
<1>1. \A o \in Owners \cup {Nobody} : Active(o) = {}
  BY DEF Init, Active, OwnedBy
<1>2. Cardinality({}) = 0 BY FS_EmptySet
<1> QED BY <1>1, <1>2, BoundsAssumption DEF LimitInv

\* Work that is not orphaned has a record that counts.
LEMMA WorkCounts ==
    ASSUME IInv, LimitInv
    PROVE  WorkWithinLimit
<1> SUFFICES ASSUME NEW o \in Owners \cup {Nobody}
             PROVE  Cardinality({j \in OwnedBy(o) : producer[j] = "working"} \ orphaned) <= Limit
  BY DEF WorkWithinLimit
<1> DEFINE working == {j \in OwnedBy(o) : producer[j] = "working"} \ orphaned
<1>1. working \subseteq Active(o)
  BY DEF IInv, TypeOK, RecordInv, OwnedBy, Active, Terminal, Live
<1>2. IsFiniteSet(Active(o)) /\ Cardinality(Active(o)) \in Nat
  <2>1. Active(o) \subseteq Jobs BY DEF Active, OwnedBy
  <2> QED BY <2>1, BoundsAssumption, FS_Subset, FS_CardinalityType
<1>3. Cardinality(working) <= Cardinality(Active(o)) /\ Cardinality(working) \in Nat
  <2> HIDE DEF working
  <2> QED BY <1>1, <1>2, FS_Subset, FS_CardinalityType
<1>4. Cardinality(Active(o)) <= Limit BY DEF LimitInv
<1> QED BY <1>2, <1>3, <1>4, BoundsAssumption

(***************************************************************************)
(* The theorems.                                                            *)
(***************************************************************************)

\* The state of the registry is well typed.
THEOREM TypeCorrect == Spec => []TypeOK
<1> QED BY Invariant, PTL DEF IInv

\* No completion is swallowed, however settlement, timeout and abort of a wait
\* interleave.
THEOREM NoneSwallowed == Spec => []CompletionTold
<1> QED BY Invariant, PTL DEF IInv

\* No completion is noticed twice, or beside the wait it answered.
THEOREM NoneRepeated == Spec => []NoticedOnce
<1> QED BY Invariant, PTL DEF IInv

\* The limit of an owner holds for the work of its jobs.
THEOREM WorkBounded == Spec => []WorkWithinLimit
<1>1. Spec => []LimitInv
  <2>1. IInv /\ IInv' /\ LimitInv /\ [Next]_vars => LimitInv' BY LimitStep
  <2> QED BY <2>1, LimitInit, Invariant, PTL DEF Spec
<1> QED BY <1>1, Invariant, WorkCounts, PTL

\* A disposal that has ended left no work behind but the orphans it reported.
THEOREM NothingLeft == Spec => []DisposalQuiet
<1>1. IInv => DisposalQuiet
  BY DEF IInv, TypeOK, RecordInv, LifecycleInv, DisposalQuiet, Terminal, Live
<1> QED BY <1>1, Invariant, PTL

\* The first terminal record of a job stays until it is dropped.
THEOREM FirstWins == Spec => OutcomeStays
<1>1. IInv /\ [Next]_vars => [\A j \in Jobs : Terminal(j) => status'[j] \in {status[j], "dropped"}]_vars
  <2> SUFFICES ASSUME IInv, [Next]_vars, NEW j \in Jobs, Terminal(j)
               PROVE  status'[j] \in {status[j], "dropped"}
    OBVIOUS
  <2>1. ~Live(j) /\ \A o \in Owners \cup {Nobody} : ~Start(j, o)
    BY DEF Start, Terminal, Live
  <2> QED BY <2>1, RecordStep
<1> QED BY <1>1, Invariant, PTL DEF Spec, OutcomeStays

\* No notice reaches an owner whose disposal has begun to cancel its jobs.
THEOREM NoneWhileDisposing == Spec => TeardownSilent
<1> DEFINE Silent == \A j \in Jobs : notices'[j] # notices[j] =>
                       service' = "up" /\ scope'[owner[j]] \in {"active", "unloading"}
<1>1. IInv /\ [Next]_vars => [Silent]_vars
  <2> SUFFICES ASSUME IInv, [Next]_vars PROVE Silent
    OBVIOUS
  <2> USE DEF IInv, jobs, waits, lifecycles, history
  <2>1. ASSUME NEW j \in Jobs, HearDone(j) PROVE Silent
    <3>1. ASSUME NEW i \in Jobs, notices'[i] # notices[i]
          PROVE  /\ i = j /\ FirstOutcome(j) /\ service = "up"
                 /\ ~reported'[j] /\ owner[j] \in Owners
      BY <2>1, <3>1 DEF HearDone, Settle, Notify, TypeOK
    <3>2. reported[j] /\ FirstOutcome(j) => reported'[j]
      BY <2>1 DEF HearDone, Settle, TypeOK
    <3>3. scope' = scope /\ service' = service BY <2>1 DEF HearDone
    <3>4. FirstOutcome(j) => Live(j)
      BY <2>1 DEF HearDone, FirstOutcome, TypeOK, RecordInv, Terminal, Live
    <3> QED BY <3>1, <3>2, <3>3, <3>4 DEF LifecycleInv, TypeOK
  <2>2. ASSUME NEW j \in Jobs, NEW o \in Owners \cup {Nobody}, Start(j, o) PROVE UNCHANGED notices
    BY <2>2 DEF Start
  <2>3. ASSUME NEW j \in Jobs, Release(j) \/ Read(j) \/ Kill(j) PROVE UNCHANGED notices
    BY <2>3 DEF Release, Read, Kill
  <2>4. ASSUME NEW w \in Waits, WaitCall(w) PROVE UNCHANGED notices
    BY <2>4 DEF WaitCall, Wait, TimeOut, Abort, Return
  <2>5. ASSUME NEW o \in Owners, StartFails(o) \/ Unload(o) \/ CleanupDone(o) \/ Unloaded(o)
        PROVE  UNCHANGED notices
    BY <2>5 DEF StartFails, Unload, CleanupDone, Unloaded
  <2>6. ASSUME NEW o \in Owners, NEW throwing \in SUBSET Jobs, Cleanup(o, throwing)
        PROVE  UNCHANGED notices
    <3>1. TornDown(OwnedBy(o), throwing) BY <2>6, TeardownFacts DEF Cleanup, OwnedBy, TypeOK
    <3> QED BY <3>1 DEF TornDown
  <2>7. ASSUME NEW throwing \in SUBSET Jobs, CloseService(throwing) PROVE UNCHANGED notices
    <3>1. TornDown(Jobs, throwing) BY <2>7, TeardownFacts DEF CloseService, TypeOK
    <3> QED BY <3>1 DEF TornDown
  <2>8. CASE ServiceDown \/ UNCHANGED vars
    BY <2>8 DEF ServiceDown, vars
  <2> QED BY <2>1, <2>2, <2>3, <2>4, <2>5, <2>6, <2>7, <2>8 DEF Next, Job, Owner
<1> QED BY <1>1, Invariant, PTL DEF Spec, TeardownSilent

\* What a teardown forces is final and unheard.
THEOREM TeardownFinal == Spec => TeardownIsFinal
  BY FirstWins, NoneWhileDisposing DEF TeardownIsFinal

\* A completion reaches its owner, and once.
THEOREM ToldExactly == Spec => []ToldOnce
<1>1. CompletionTold /\ NoticedOnce => ToldOnce BY DEF ToldOnce
<1> QED BY <1>1, NoneSwallowed, NoneRepeated, PTL

\* Work is counted in its owner's limit, and no disposal ends before it.
THEOREM WorkCounted == Spec => []WorkAccounted
<1>1. WorkWithinLimit /\ DisposalQuiet => WorkAccounted BY DEF WorkAccounted
<1> QED BY <1>1, WorkBounded, NothingLeft, PTL

(***************************************************************************)
(* PART TWO.  Schedule.                                                     *)
(***************************************************************************)

(***************************************************************************)
(* Induction over numbers, folds and sequences.                             *)
(***************************************************************************)

\* Every nonempty set of numbers has a least member.
LEMMA LeastNumber ==
    ASSUME NEW S \in SUBSET Nat, S # {}
    PROVE  \E x \in S : \A y \in S : x <= y
<1> DEFINE R == OpToRel(<, Nat)
<1>1. IsWellFoundedOn(R, Nat)
  BY NatLessThanWellFounded
<1>2. \A x, y \in Nat : y < x => <<y, x>> \in R
  BY DEF OpToRel
<1> HIDE DEF R
<1>3. PICK x \in S : \A y \in S : ~ (<<y, x>> \in R)
  BY <1>1, WFMin
<1>4. \A y \in S : x <= y
  <2> TAKE y \in S
  <2>1. x \in Nat /\ y \in Nat /\ ~(y < x)
    BY <1>2, <1>3
  <2> QED
    BY <2>1
<1> QED
  BY <1>4

\* Induction up to a number, over the set of numbers a statement holds of.
LEMMA UpTo ==
    ASSUME NEW N \in Nat, NEW S,
           0 \in S, \A n \in 0..(N - 1) : n \in S => n + 1 \in S
    PROVE  \A n \in 0..N : n \in S
<1> SUFFICES ASSUME \E n \in 0..N : n \notin S PROVE FALSE
  OBVIOUS
<1> DEFINE Bad == {n \in 0..N : n \notin S}
<1>1. Bad \in SUBSET Nat /\ Bad # {}
  OBVIOUS
<1>2. PICK x \in Bad : \A y \in Bad : x <= y
  BY <1>1, LeastNumber
<1>3. x \in 0..N /\ x \notin S /\ x # 0
  BY <1>2
<1>4. x - 1 \in 0..(N - 1) /\ x - 1 \in 0..N /\ ~(x <= x - 1) /\ (x - 1) + 1 = x
  BY <1>3
<1>5. x - 1 \in S
  BY <1>2, <1>4
<1> QED
  BY <1>3, <1>4, <1>5

\* A function that starts at a and steps by G.
Steps(f, N, a, G) == f[0] = a /\ \A n \in 1..N : f[n] = G[<<f[n - 1], n>>]

\* A function on 0..N may be defined by its first value and a step from each
\* value to the next one.
LEMMA FoldExists ==
    ASSUME NEW T, NEW N \in Nat, NEW a \in T, NEW G \in [T \X (1..N) -> T]
    PROVE  \E f \in [0..N -> T] : Steps(f, N, a, G)
<1> DEFINE Is(f, k) == Steps(f, k, a, G)
           S == {k \in 0..N : \E f \in [0..N -> T] : Is(f, k)}
<1>0. \A k \in 0..N : k \in S <=> \E f \in [0..N -> T] : Is(f, k)
  OBVIOUS
<1> HIDE DEF S
<1>1. 0 \in S
  <2> DEFINE f == [n \in 0..N |-> a]
  <2>1. f \in [0..N -> T] /\ f[0] = a
    OBVIOUS
  <2>2. Is(f, 0)
    BY <2>1 DEF Steps
  <2> HIDE DEF f, Is
  <2>3. 0 \in 0..N
    OBVIOUS
  <2> QED
    BY <1>0, <2>1, <2>2, <2>3
<1>2. \A k \in 0..(N - 1) : k \in S => k + 1 \in S
  <2> SUFFICES ASSUME NEW k \in 0..(N - 1), k \in S PROVE k + 1 \in S
    OBVIOUS
  <2>2. k + 1 \in 1..N /\ k \in 0..N /\ k + 1 \in 0..N /\ 0 \in 0..N /\ k + 1 # 0
    OBVIOUS
  <2>1. PICK f \in [0..N -> T] : Is(f, k)
    <3> HIDE DEF Is
    <3> QED
      BY <1>0, <2>2
  <2> DEFINE v == G[<<f[k], k + 1>>]
             g == [f EXCEPT ![k + 1] = v]
  <2>3. f[k] \in T /\ <<f[k], k + 1>> \in T \X (1..N)
    BY <2>2
  <2>4. v \in T
    BY <2>3
  <2> HIDE DEF v
  <2>5. g \in [0..N -> T]
    BY <2>4
  <2>6. g[0] = a
    BY <2>1, <2>2 DEF Steps
  <2>8. g[k + 1] = v /\ \A n \in 0..N : n # k + 1 => g[n] = f[n]
    BY <2>2
  <2> HIDE DEF g
  <2>7. ASSUME NEW n \in 1..(k + 1) PROVE g[n] = G[<<g[n - 1], n>>]
    <3>1. n - 1 \in 0..N /\ n - 1 # k + 1 /\ n \in 0..N
      BY <2>2
    <3>2. g[n - 1] = f[n - 1]
      BY <3>1, <2>8
    <3>3. CASE n = k + 1
      <4>1. n - 1 = k
        BY <3>3
      <4> QED
        BY <3>2, <3>3, <4>1, <2>8 DEF v
    <3>4. CASE n # k + 1
      <4>1. n \in 1..k
        BY <3>4
      <4> QED
        BY <4>1, <3>1, <3>2, <3>4, <2>8, <2>1 DEF Steps
    <3> QED
      BY <3>3, <3>4
  <2>9. Is(g, k + 1)
    BY <2>6, <2>7 DEF Steps
  <2> HIDE DEF Is
  <2> QED
    BY <1>0, <2>2, <2>5, <2>9
<1>3. \A n \in 0..N : n \in S
  BY <1>1, <1>2, UpTo
<1>4. N \in 0..N
  OBVIOUS
<1>5. \E f \in [0..N -> T] : Is(f, N)
  <2> HIDE DEF Is
  <2> QED
    BY <1>0, <1>3, <1>4
<1> QED
  BY <1>5

\* Two functions that start alike and step alike agree.
StepAlike(f, g, N) == f[0] = g[0] /\ \A n \in 1..N : f[n - 1] = g[n - 1] => f[n] = g[n]
Agree(f, g, N) == \A n \in 0..N : f[n] = g[n]

\* Two folds that start alike and step alike agree everywhere.
LEMMA FoldUnique ==
    ASSUME NEW N \in Nat, NEW f, NEW g, StepAlike(f, g, N)
    PROVE  Agree(f, g, N)
<1> DEFINE S == {n \in 0..N : f[n] = g[n]}
<1>1. 0 \in S
  BY DEF StepAlike
<1>2. \A n \in 0..(N - 1) : n \in S => n + 1 \in S
  <2> SUFFICES ASSUME NEW n \in 0..(N - 1), n \in S PROVE n + 1 \in S
    OBVIOUS
  <2>1. n + 1 \in 1..N /\ n + 1 \in 0..N /\ (n + 1) - 1 = n /\ f[n] = g[n]
    OBVIOUS
  <2> QED
    BY <2>1 DEF StepAlike
<1> HIDE DEF S
<1>3. \A n \in 0..N : n \in S
  BY <1>1, <1>2, UpTo
<1> QED
  BY <1>3 DEF S, Agree

\* Min of a nonempty set of numbers is its least member.
LEMMA LeastIs ==
    ASSUME NEW S \in SUBSET Nat, S # {}
    PROVE  Min(S) \in S /\ \A y \in S : Min(S) <= y
<1>1. \E x \in S : \A y \in S : x <= y
  BY LeastNumber
<1> QED
  BY <1>1 DEF Min

\* A quotient times its divisor is as near below as a multiple comes.
LEMMA Division ==
    ASSUME NEW a \in Int, NEW b \in Nat, b # 0
    PROVE  /\ a \div b \in Int /\ (a \div b) * b \in Int
           /\ (a \div b) * b <= a /\ a < (a \div b) * b + b
<1>1. a \div b \in Int
  OBVIOUS
<1>2. (a \div b) * b \in Int
  BY <1>1
<1>3. (a \div b) * b <= a
  OBVIOUS
<1>4. a < (a \div b) * b + b
  OBVIOUS
<1> QED
  BY <1>1, <1>2, <1>3, <1>4

\* The larger of two numbers is one of them, and no smaller than either.
LEMMA LargerIs ==
    ASSUME NEW a \in Nat, NEW b \in Nat
    PROVE  Max({a, b}) \in {a, b} /\ a <= Max({a, b}) /\ b <= Max({a, b})
<1>1. \E x \in {a, b} : \A y \in {a, b} : x >= y
  <2>1. CASE a <= b
    BY <2>1
  <2>2. CASE b <= a
    BY <2>2
  <2> QED
    BY <2>1, <2>2
<1> QED
  BY <1>1 DEF Max

(***************************************************************************)
(* Events and the fold of the reminders.                                    *)
(***************************************************************************)

Recs == [id : Nat, at : Int, every : Nat]

\* What an event is says which fields it has.
LEMMA EventHas ==
    ASSUME NEW e \in Events
    PROVE  /\ e.op \in {"create", "delete", "dispatch", "reminder"} /\ e.id \in Nat
           /\ e.op # "reminder" => e.at \in 0..Horizon /\ e.every \in Nat
           /\ e.op = "reminder" =>
                e.run \in Int /\ e.items \in SUBSET [id : Nat, at : 0..Horizon]
BY DEF Events

\* The latest occurrence by an instant is at most that instant, and not before
\* the target when the target is not behind it; the next one lies behind.
LEMMA OccurrenceIs ==
    ASSUME NEW r \in Recs, r.every # 0, NEW at \in Int
    PROVE  /\ Occurrence(r, at) \in Int /\ Occurrence(r, at) <= at
           /\ at < Occurrence(r, at) + r.every
           /\ r.at <= at => r.at <= Occurrence(r, at)
<1> DEFINE a == at - r.at
           b == r.every
           m == (a \div b) * b
<1>1. a \in Int /\ b \in Nat /\ b # 0 /\ r.at \in Int
  BY DEF Recs
<1>2. m \in Int /\ m <= a /\ a < m + b
  <2> HIDE DEF a, b
  <2> QED
    BY <1>1, Division
<1>3. Occurrence(r, at) = r.at + m
  BY DEF Occurrence
<1>4. a >= 0 => m >= 0
  <2> DEFINE d == a \div b
  <2>1. d \in Int
    <3> HIDE DEF a, b
    <3> QED
      BY <1>1, Division
  <2>2. m = d * b
    OBVIOUS
  <2> HIDE DEF a, b, m, d
  <2>3. ASSUME a >= 0, d < 0 PROVE FALSE
    <3>1. d + 1 <= 0
      BY <2>1, <2>3
    <3>2. (d + 1) * b <= 0
      BY <2>1, <1>1, <3>1
    <3>3. (d + 1) * b = d * b + b
      BY <2>1, <1>1
    <3>4. m + b <= 0
      BY <2>2, <3>2, <3>3
    <3> QED
      BY <1>1, <1>2, <2>3, <3>4
  <2>4. ASSUME a >= 0, d >= 0 PROVE m >= 0
    BY <2>1, <2>2, <2>4, <1>1
  <2> QED
    BY <2>1, <2>3, <2>4
<1>5. a = at - r.at /\ b = r.every
  OBVIOUS
<1> HIDE DEF a, b, m
<1> QED
  BY <1>1, <1>2, <1>3, <1>4, <1>5

\* What a dispatch leaves is the record at an occurrence behind the instant.
LEMMA AdvancedIs ==
    ASSUME NEW r \in Recs, r.every # 0, NEW at \in Int
    PROVE  \A q \in Advanced(r, at) :
              /\ q \in Recs /\ q.id = r.id /\ q.every = r.every
              /\ at < q.at /\ q.at <= Horizon
              /\ q.at = Occurrence(r, at) + r.every
<1> SUFFICES ASSUME NEW q \in Advanced(r, at)
             PROVE  /\ q \in Recs /\ q.id = r.id /\ q.every = r.every /\ at < q.at
                    /\ q.at <= Horizon
                    /\ q.at = Occurrence(r, at) + r.every
  OBVIOUS
<1> DEFINE n == Occurrence(r, at) + r.every
<1>1. n \in Int /\ at < n
  BY OccurrenceIs DEF Recs
<1>2. q = [r EXCEPT !.at = n] /\ q.at <= Horizon
  BY DEF Advanced
<1>3. n = Occurrence(r, at) + r.every
  OBVIOUS
<1> HIDE DEF n
<1>4. q.at = n /\ q.id = r.id /\ q.every = r.every /\ q \in Recs
  BY <1>1, <1>2 DEF Recs
<1> QED
  BY <1>1, <1>2, <1>3, <1>4

\* What an event leaves of a record: itself, or, of a dispatched fixed-rate one,
\* that record further on.
LEMMA LeftIs ==
    ASSUME NEW r \in Recs, NEW e \in Events
    PROVE  \A q \in Left(r, e) :
              /\ q \in Recs /\ q.id = r.id /\ q.every = r.every
              /\ q = r \/ (q.at <= Horizon /\ e.op = "dispatch" /\ r.id = e.id /\ r.every # 0
                           /\ e.at < q.at /\ q.at = Occurrence(r, e.at) + r.every)
              /\ e.op \in {"delete", "dispatch"} /\ r.id = e.id =>
                    e.op = "dispatch" /\ r.every # 0
                           /\ e.at < q.at /\ q.at <= Horizon
                           /\ q.at = Occurrence(r, e.at) + r.every
<1>1. CASE e.op \in {"create", "reminder"} \/ r.id # e.id
  <2>1. Left(r, e) = {r}
    BY <1>1 DEF Left
  <2>2. ~(e.op \in {"delete", "dispatch"} /\ r.id = e.id)
    BY <1>1
  <2>3. \A q \in Left(r, e) : q = r
    BY <2>1
  <2> QED
    BY <2>2, <2>3
<1>2. CASE e.op = "delete" /\ r.id = e.id
  <2>1. Left(r, e) = {}
    BY <1>2 DEF Left
  <2> QED
    BY <2>1
<1>3. CASE e.op = "dispatch" /\ r.id = e.id /\ r.every = 0
  <2>1. Left(r, e) = {}
    BY <1>3 DEF Left
  <2> QED
    BY <2>1
<1>4. CASE e.op = "dispatch" /\ r.id = e.id /\ r.every # 0
  <2>1. Left(r, e) = Advanced(r, e.at)
    BY <1>4 DEF Left
  <2>2. e.at \in Int
    BY <1>4, EventHas
  <2> QED
    BY <1>4, <2>1, <2>2, AdvancedIs
<1> QED
  BY <1>1, <1>2, <1>3, <1>4, EventHas

\* An event leaves at most one record of a record.
LEMMA LeftOne ==
    ASSUME NEW r \in Recs, NEW e \in Events, NEW q \in Left(r, e), NEW p \in Left(r, e)
    PROVE  q = p
<1>1. CASE e.op \in {"create", "reminder"} \/ r.id # e.id
  <2>1. Left(r, e) = {r}
    BY <1>1 DEF Left
  <2> QED
    BY <2>1
<1>2. CASE e.op \in {"delete", "dispatch"} /\ r.id = e.id
  BY <1>2 DEF Left, Advanced
<1> QED
  BY <1>1, <1>2, EventHas

\* The fold stays among the records.
LEMMA AfterType ==
    ASSUME NEW A \in SUBSET Recs, NEW e \in Events
    PROVE  After(A, e) \in SUBSET Recs
<1>1. Added(e) \in SUBSET Recs
  BY EventHas DEF Added, Recs
<1>2. \A r \in A : Left(r, e) \in SUBSET Recs
  BY LeftIs
<1> QED
  BY <1>1, <1>2 DEF After

(***************************************************************************)
(* Logs, their prefixes and their fold.                                     *)
(***************************************************************************)

\* The events of a log with one more event.
LEMMA Appended ==
    ASSUME NEW es \in Seq(Events), NEW e \in Events
    PROVE  /\ Append(es, e) \in Seq(Events) /\ Len(es) \in Nat
           /\ Len(Append(es, e)) = Len(es) + 1
           /\ \A i \in 1..Len(es) : Append(es, e)[i] = es[i]
           /\ Append(es, e)[Len(es) + 1] = e
           /\ \A i \in 1..Len(es) : es[i] \in Events
BY AppendProperties, LenProperties, ElementOfSeq

\* The prefixes of a log.
LEMMA Prefix ==
    ASSUME NEW es \in Seq(Events), NEW k \in 0..Len(es)
    PROVE  /\ SubSeq(es, 1, k) \in Seq(Events) /\ Len(SubSeq(es, 1, k)) = k
           /\ \A i \in 1..k : SubSeq(es, 1, k)[i] = es[i]
           /\ SubSeq(es, 1, Len(es)) = es
<1>1. Len(es) \in Nat
  BY LenProperties
<1>2. \A i \in 1..k : es[i] \in Events
  BY <1>1, ElementOfSeq
<1>3. /\ SubSeq(es, 1, k) \in Seq(Events)
      /\ Len(SubSeq(es, 1, k)) = IF 1 <= k THEN k - 1 + 1 ELSE 0
      /\ \A i \in 1..k - 1 + 1 : SubSeq(es, 1, k)[i] = es[1 + i - 1]
  BY <1>1, <1>2, SubSeqProperties
<1>4. k \in Nat /\ k - 1 + 1 = k /\ \A i \in 1..k : 1 + i - 1 = i
  BY <1>1
<1> QED
  BY <1>1, <1>3, <1>4, SubSeqFull

\* A prefix of a prefix is a prefix.
LEMMA PrefixOfPrefix ==
    ASSUME NEW es \in Seq(Events), NEW k \in 0..Len(es), NEW n \in 0..k
    PROVE  SubSeq(SubSeq(es, 1, k), 1, n) = SubSeq(es, 1, n)
<1> DEFINE p == SubSeq(es, 1, k)
<1>1. Len(es) \in Nat /\ n \in 0..Len(es)
  BY LenProperties
<1>2. p \in Seq(Events) /\ Len(p) = k /\ \A i \in 1..k : p[i] = es[i]
  BY Prefix
<1> HIDE DEF p
<1>3. /\ SubSeq(p, 1, n) \in Seq(Events) /\ Len(SubSeq(p, 1, n)) = n
      /\ \A i \in 1..n : SubSeq(p, 1, n)[i] = p[i]
  BY <1>2, Prefix
<1>4. /\ SubSeq(es, 1, n) \in Seq(Events) /\ Len(SubSeq(es, 1, n)) = n
      /\ \A i \in 1..n : SubSeq(es, 1, n)[i] = es[i]
  BY <1>1, Prefix
<1>5. \A i \in 1..n : SubSeq(p, 1, n)[i] = SubSeq(es, 1, n)[i]
  BY <1>1, <1>2, <1>3, <1>4
<1>6. SubSeq(p, 1, n) = SubSeq(es, 1, n)
  BY <1>3, <1>4, <1>5, SeqEqual
<1> QED
  BY <1>6 DEF p

\* The prefixes of a log with one more event.
LEMMA PrefixOfAppend ==
    ASSUME NEW es \in Seq(Events), NEW e \in Events, NEW n \in 0..Len(es)
    PROVE  SubSeq(Append(es, e), 1, n) = SubSeq(es, 1, n)
<1> DEFINE p == Append(es, e)
<1>1. /\ p \in Seq(Events) /\ Len(p) = Len(es) + 1 /\ Len(es) \in Nat
      /\ \A i \in 1..Len(es) : p[i] = es[i]
  BY Appended
<1> HIDE DEF p
<1>3. /\ SubSeq(p, 1, n) \in Seq(Events) /\ Len(SubSeq(p, 1, n)) = n
      /\ \A i \in 1..n : SubSeq(p, 1, n)[i] = p[i]
  <2>1. n \in 0..Len(p)
    BY <1>1
  <2> QED
    BY <1>1, <2>1, Prefix
<1>4. /\ SubSeq(es, 1, n) \in Seq(Events) /\ Len(SubSeq(es, 1, n)) = n
      /\ \A i \in 1..n : SubSeq(es, 1, n)[i] = es[i]
  BY Prefix
<1>5. \A i \in 1..n : SubSeq(p, 1, n)[i] = SubSeq(es, 1, n)[i]
  BY <1>1, <1>3, <1>4
<1>6. SubSeq(p, 1, n) = SubSeq(es, 1, n)
  BY <1>3, <1>4, <1>5, SeqEqual
<1> QED
  BY <1>6 DEF p

\* The fold of a log, step by step.
LEMMA FoldOf ==
    ASSUME NEW es \in Seq(Events)
    PROVE  \E f \in [0..Len(es) -> SUBSET Recs] :
             /\ f[0] = {} /\ \A n \in 1..Len(es) : f[n] = After(f[n - 1], es[n])
             /\ ActiveRecords(es) = f[Len(es)]
<1> DEFINE N == Len(es)
           G == [x \in (SUBSET Recs) \X (1..N) |-> After(x[1], es[x[2]])]
           Is(f) == f = [n \in 0..N |-> IF n = 0 THEN {} ELSE After(f[n - 1], es[n])]
<1>1. N \in Nat /\ {} \in SUBSET Recs
  BY LenProperties
<1>2. G \in [(SUBSET Recs) \X (1..N) -> SUBSET Recs]
  <2> SUFFICES ASSUME NEW x \in (SUBSET Recs) \X (1..N)
               PROVE  After(x[1], es[x[2]]) \in SUBSET Recs
    OBVIOUS
  <2>1. x[1] \in SUBSET Recs /\ x[2] \in 1..N
    OBVIOUS
  <2>2. es[x[2]] \in Events
    BY <2>1, ElementOfSeq
  <2> QED
    BY <2>1, <2>2, AfterType
<1>3. \A n \in 1..N, s \in SUBSET Recs : G[<<s, n>>] = After(s, es[n])
  OBVIOUS
<1> HIDE DEF G, N
<1>4. PICK g \in [0..N -> SUBSET Recs] : Steps(g, N, {}, G)
  BY <1>1, <1>2, FoldExists
<1>5. \A n \in 1..N : g[n] = After(g[n - 1], es[n])
  <2> TAKE n \in 1..N
  <2>1. n - 1 \in 0..N
    BY <1>1
  <2>2. g[n - 1] \in SUBSET Recs
    BY <2>1
  <2> QED
    BY <2>2, <1>3, <1>4 DEF Steps
<1>0. g[0] = {}
  BY <1>4 DEF Steps
<1>6. Is(g)
  <2> DEFINE h == [n \in 0..N |-> IF n = 0 THEN {} ELSE After(g[n - 1], es[n])]
  <2>1. ASSUME NEW n \in 0..N PROVE g[n] = h[n]
    <3>1. CASE n = 0
      BY <3>1, <1>0
    <3>2. CASE n # 0
      <4>1. n \in 1..N
        BY <3>2, <1>1
      <4> QED
        BY <4>1, <3>2, <1>5
    <3> QED
      BY <3>1, <3>2
  <2>2. g = h
    <3>1. h = [n \in 0..N |-> h[n]]
      OBVIOUS
    <3>2. g = [n \in 0..N |-> g[n]]
      OBVIOUS
    <3> HIDE DEF h
    <3> QED
      BY <2>1, <3>1, <3>2
  <2> QED
    BY <2>2
<1> DEFINE f == CHOOSE f : Is(f)
<1>7. Is(f)
  <2> HIDE DEF Is
  <2> QED
    BY <1>6
<1>8. ActiveRecords(es) = f[N]
  BY DEF ActiveRecords, N
<1> HIDE DEF f
<1>9. DOMAIN f = 0..N /\ f[0] = {}
      /\ \A n \in 1..N : f[n] = After(f[n - 1], es[n])
  <2>1. \A n \in 0..N : f[n] = IF n = 0 THEN {} ELSE After(f[n - 1], es[n])
    BY <1>7
  <2>2. DOMAIN f = 0..N
    BY <1>7
  <2>3. 0 \in 0..N /\ \A n \in 1..N : n \in 0..N /\ n # 0
    BY <1>1
  <2> QED
    BY <2>1, <2>2, <2>3
<1>10. Agree(g, f, N)
  <2>1. StepAlike(g, f, N)
    BY <1>0, <1>5, <1>9 DEF StepAlike
  <2> QED
    BY <1>1, <2>1, FoldUnique
<1>11. N \in 0..N
  BY <1>1
<1>12. ActiveRecords(es) = g[N]
  BY <1>8, <1>10, <1>11 DEF Agree
<1> QED
  BY <1>0, <1>5, <1>12 DEF N

\* One more event is one more step of the fold.
LEMMA OneMore ==
    ASSUME NEW es \in Seq(Events), NEW e \in Events
    PROVE  ActiveRecords(Append(es, e)) = After(ActiveRecords(es), e)
<1> DEFINE p == Append(es, e)
           N == Len(es)
<1>1. /\ p \in Seq(Events) /\ N \in Nat /\ Len(p) = N + 1
      /\ \A i \in 1..N : p[i] = es[i] /\ p[N + 1] = e
  BY Appended
<1>2. PICK f \in [0..N -> SUBSET Recs] :
             /\ f[0] = {} /\ \A n \in 1..N : f[n] = After(f[n - 1], es[n])
             /\ ActiveRecords(es) = f[N]
  BY FoldOf
<1> HIDE DEF p
<1>3. PICK g \in [0..Len(p) -> SUBSET Recs] :
             /\ g[0] = {} /\ \A n \in 1..Len(p) : g[n] = After(g[n - 1], p[n])
             /\ ActiveRecords(p) = g[Len(p)]
  BY <1>1, FoldOf
<1> HIDE DEF N
<1>4. p[N + 1] = e
  BY Appended DEF p, N
<1>5. Agree(f, g, N)
  <2>1. ASSUME NEW n \in 1..N, f[n - 1] = g[n - 1] PROVE f[n] = g[n]
    <3>1. n \in 1..Len(p) /\ p[n] = es[n]
      BY <1>1
    <3>2. f[n] = After(f[n - 1], es[n]) /\ g[n] = After(g[n - 1], p[n])
      BY <1>2, <1>3, <3>1
    <3> QED
      BY <2>1, <3>1, <3>2, Zenon
  <2>2. StepAlike(f, g, N)
    BY <1>2, <1>3, <2>1 DEF StepAlike
  <2> QED
    BY <1>1, <2>2, FoldUnique
<1>6. f[N] = g[N]
  BY <1>1, <1>5 DEF Agree
<1>7. g[N + 1] = After(g[N], e)
  <2>1. N + 1 \in 1..Len(p) /\ (N + 1) - 1 = N
    BY <1>1
  <2>2. g[N + 1] = After(g[(N + 1) - 1], p[N + 1])
    BY <1>3, <2>1
  <2> QED
    BY <2>1, <2>2, <1>4
<1>8. ActiveRecords(p) = After(ActiveRecords(es), e)
  BY <1>1, <1>2, <1>3, <1>6, <1>7
<1> QED
  BY <1>8 DEF p

\* Nothing is active of nothing.
LEMMA NoneActive == ActiveRecords(<<>>) = {} /\ Seen(<<>>) = {}
<1>1. <<>> \in Seq(Events) /\ Len(<<>>) = 0 /\ DOMAIN <<>> = {}
  OBVIOUS
<1>2. ActiveRecords(<<>>) = {}
  <2> DEFINE es == <<>>
  <2>1. es \in Seq(Events) /\ Len(es) = 0
    BY <1>1
  <2> HIDE DEF es
  <2>2. PICK f \in [0..Len(es) -> SUBSET Recs] :
             /\ f[0] = {} /\ \A n \in 1..Len(es) : f[n] = After(f[n - 1], es[n])
             /\ ActiveRecords(es) = f[Len(es)]
    BY <2>1, FoldOf
  <2>3. ActiveRecords(es) = {}
    BY <2>1, <2>2
  <2> QED
    BY <2>3 DEF es
<1>3. Seen(<<>>) = {}
  BY <1>1 DEF Seen
<1> QED
  BY <1>2, <1>3

\* The ids that were given, behind one more event.
LEMMA SeenOneMore ==
    ASSUME NEW es \in Seq(Events), NEW e \in Events
    PROVE  Seen(Append(es, e)) = Seen(es) \cup (IF e.op = "create" THEN {e.id} ELSE {})
<1> DEFINE p == Append(es, e)
           N == Len(es)
<1>1. /\ p \in Seq(Events) /\ N \in Nat /\ Len(p) = N + 1
      /\ \A i \in 1..N : p[i] = es[i]
      /\ p[N + 1] = e
  BY Appended
<1>2. DOMAIN p = 1..(N + 1) /\ DOMAIN es = 1..N
  BY <1>1, LenProperties
<1> HIDE DEF p, N
<1>3. ASSUME NEW x \in Seen(p) PROVE x \in Seen(es) \cup (IF e.op = "create" THEN {e.id} ELSE {})
  <2>1. PICK i \in 1..(N + 1) : p[i].op = "create" /\ x = p[i].id
    BY <1>2 DEF Seen
  <2>2. CASE i \in 1..N
    BY <2>1, <2>2, <1>1, <1>2 DEF Seen
  <2>3. CASE i = N + 1
    BY <2>1, <2>3, <1>1
  <2> QED
    BY <1>1, <2>2, <2>3
<1>4. ASSUME NEW x \in Seen(es) PROVE x \in Seen(p)
  <2>1. PICK i \in 1..N : es[i].op = "create" /\ x = es[i].id
    BY <1>2 DEF Seen
  <2>2. i \in 1..(N + 1) /\ p[i] = es[i]
    BY <1>1
  <2> QED
    BY <2>1, <2>2, <1>2 DEF Seen
<1>5. e.op = "create" => e.id \in Seen(p)
  <2>1. N + 1 \in 1..(N + 1)
    BY <1>1
  <2> QED
    BY <2>1, <1>1, <1>2 DEF Seen
<1>6. Seen(p) = Seen(es) \cup (IF e.op = "create" THEN {e.id} ELSE {})
  BY <1>3, <1>4, <1>5
<1> QED
  BY <1>6 DEF p

(***************************************************************************)
(* What a log that folds makes of its records.                              *)
(***************************************************************************)

ActiveTypes == [id : Nat, at : 0..Horizon, every : Nat]

\* The active records are typed, were created, and have ids of their own.
Tidy(es) ==
    /\ ActiveRecords(es) \in SUBSET ActiveTypes
    /\ \A r \in ActiveRecords(es) : r.id \in Seen(es)
    /\ \A r, q \in ActiveRecords(es) : r.id = q.id => r = q

\* The record that a record behind an event comes from.
LEMMA ComesFrom ==
    ASSUME NEW es \in Seq(Events), NEW e \in Events, Tidy(es),
           NEW q \in ActiveRecords(Append(es, e))
    PROVE  \/ e.op = "create" /\ q = [id |-> e.id, at |-> e.at, every |-> e.every]
           \/ \E r \in ActiveRecords(es) :
                /\ r \in Recs /\ r.at \in 0..Horizon /\ q \in Left(r, e) /\ q \in Recs
                /\ q.id = r.id /\ q.every = r.every
                /\ q = r \/ (q.at <= Horizon /\ e.op = "dispatch" /\ r.id = e.id /\ r.every # 0
                             /\ e.at < q.at)
                /\ e.op \in {"delete", "dispatch"} /\ r.id = e.id =>
                     e.op = "dispatch" /\ r.every # 0 /\ e.at < q.at /\ q.at <= Horizon
<1>1. q \in Added(e) \/ \E r \in ActiveRecords(es) : q \in Left(r, e)
  BY OneMore DEF After
<1>2. CASE q \in Added(e)
  BY <1>2 DEF Added
<1>3. ASSUME NEW r \in ActiveRecords(es), q \in Left(r, e)
      PROVE  /\ r \in Recs /\ r.at \in 0..Horizon /\ q \in Recs /\ q.id = r.id
             /\ q.every = r.every
             /\ q = r \/ (q.at <= Horizon /\ e.op = "dispatch" /\ r.id = e.id /\ r.every # 0
                          /\ e.at < q.at)
             /\ e.op \in {"delete", "dispatch"} /\ r.id = e.id =>
                  e.op = "dispatch" /\ r.every # 0 /\ e.at < q.at /\ q.at <= Horizon
  <2>1. r \in Recs /\ r.at \in 0..Horizon
    BY ScheduleAssumption DEF Tidy, ActiveTypes, Recs
  <2> QED
    BY <1>3, <2>1, LeftIs, Zenon
<1> QED
  BY <1>1, <1>2, <1>3, Zenon

\* An event that may follow leaves the records tidy.
LEMMA TidyStep ==
    ASSUME NEW es \in Seq(Events), NEW e \in Events, Tidy(es), Follows(es, e)
    PROVE  Tidy(Append(es, e))
<1> DEFINE p == Append(es, e)
<1>s. Seen(p) = Seen(es) \cup (IF e.op = "create" THEN {e.id} ELSE {})
  BY SeenOneMore
<1>c. e.op = "create" => e.id \notin Seen(es) /\ e.at \in 0..Horizon /\ e.every \in Nat
                          /\ e.id \in Nat
  BY EventHas DEF Follows
<1>1. ASSUME NEW q \in ActiveRecords(p) PROVE q \in ActiveTypes /\ q.id \in Seen(p)
  <2>1. CASE e.op = "create" /\ q = [id |-> e.id, at |-> e.at, every |-> e.every]
    <3>1. q.id = e.id
      BY <2>1
    <3> QED
      BY <2>1, <3>1, <1>c, <1>s DEF ActiveTypes
  <2>2. ASSUME NEW r \in ActiveRecords(es), r \in Recs, r.at \in 0..Horizon, q \in Recs,
               q.id = r.id,
               q = r \/ (q.at <= Horizon /\ e.op = "dispatch" /\ r.id = e.id /\ r.every # 0
                         /\ e.at < q.at)
        PROVE  q \in ActiveTypes /\ q.id \in Seen(p)
    <3>1. q.at \in 0..Horizon
      <4>1. CASE q = r
        BY <2>2, <4>1
      <4>2. CASE q # r
        <5>1. e.at \in 0..Horizon /\ e.at < q.at /\ q.at <= Horizon
          BY <2>2, <4>2, EventHas
        <5>2. q.at \in Int
          BY <2>2 DEF Recs
        <5> QED
          BY <5>1, <5>2, ScheduleAssumption
      <4> QED
        BY <4>1, <4>2
    <3>2. q \in ActiveTypes
      BY <2>2, <3>1 DEF Recs, ActiveTypes
    <3>3. r.id \in Seen(es)
      BY <2>2 DEF Tidy
    <3> QED
      BY <2>2, <3>2, <3>3, <1>s
  <2> HIDE DEF p
  <2> QED
    BY <2>1, <2>2, ComesFrom, Zenon DEF p
<1>2. ASSUME NEW q \in ActiveRecords(p), NEW y \in ActiveRecords(p), q.id = y.id PROVE q = y
  <2>1. CASE e.op = "create" /\ q.id = e.id
    <3>1. ASSUME NEW z \in ActiveRecords(p), z.id = e.id
          PROVE  z = [id |-> e.id, at |-> e.at, every |-> e.every]
      <4>1. ASSUME NEW r \in ActiveRecords(es), z.id = r.id PROVE FALSE
        <5>1. r.id \in Seen(es)
          BY <4>1 DEF Tidy
        <5> QED
          BY <5>1, <4>1, <3>1, <2>1, <1>c
      <4> HIDE DEF p
      <4> QED
        BY <4>1, ComesFrom, Zenon DEF p
    <3> QED
      BY <3>1, <2>1, <1>2
  <2>2. CASE ~(e.op = "create" /\ q.id = e.id)
    <3>1. ASSUME NEW z \in ActiveRecords(p), z.id = q.id
          PROVE  \E r \in ActiveRecords(es) : r \in Recs /\ z \in Left(r, e) /\ z.id = r.id
      <4>1. ~(e.op = "create" /\ z = [id |-> e.id, at |-> e.at, every |-> e.every])
        BY <2>2, <3>1
      <4> HIDE DEF p
      <4> QED
        BY <4>1, ComesFrom, Zenon DEF p
    <3>2. PICK r \in ActiveRecords(es) : r \in Recs /\ q \in Left(r, e) /\ q.id = r.id
      BY <3>1
    <3>3. PICK x \in ActiveRecords(es) : x \in Recs /\ y \in Left(x, e) /\ y.id = x.id
      BY <3>1, <1>2
    <3>4. r = x
      BY <3>2, <3>3, <1>2 DEF Tidy
    <3> QED
      BY <3>2, <3>3, <3>4, LeftOne
  <2> QED
    BY <2>1, <2>2
<1> QED
  BY <1>1, <1>2 DEF Tidy

\* A log that folds is tidy in every prefix.
LEMMA FoldsTidy ==
    ASSUME NEW es \in Seq(Events), Folds(es)
    PROVE  (\A k \in 0..Len(es) : Tidy(SubSeq(es, 1, k))) /\ Tidy(es)
<1> DEFINE N == Len(es)
           S == {k \in 0..N : Tidy(SubSeq(es, 1, k))}
<1>0. N \in Nat /\ DOMAIN es = 1..N /\ SubSeq(es, 1, N) = es
  BY LenProperties, SubSeqFull
<1>1. 0 \in S
  <2>1. SubSeq(es, 1, 0) = <<>>
    <3>1. SubSeq(es, 1, 0) \in Seq(Events) /\ Len(SubSeq(es, 1, 0)) = 0
      BY <1>0, Prefix
    <3> QED
      BY <3>1, EmptySeq
  <2>2. Tidy(<<>>)
    BY NoneActive DEF Tidy
  <2>3. Tidy(SubSeq(es, 1, 0))
    BY <2>1, <2>2, Zenon
  <2>4. 0 \in 0..N
    BY <1>0
  <2> QED
    BY <2>3, <2>4
<1>2. \A k \in 0..(N - 1) : k \in S => k + 1 \in S
  <2> SUFFICES ASSUME NEW k \in 0..(N - 1), k \in S PROVE k + 1 \in S
    OBVIOUS
  <2>1. k + 1 \in 1..N /\ k \in 0..N /\ k + 1 \in 0..N /\ (k + 1) - 1 = k
    BY <1>0
  <2>2. SubSeq(es, 1, k) \in Seq(Events) /\ es[k + 1] \in Events
    BY <2>1, Prefix, ElementOfSeq
  <2>3. Follows(SubSeq(es, 1, k), es[k + 1])
    BY <1>0, <2>1 DEF Folds
  <2>4. Tidy(Append(SubSeq(es, 1, k), es[k + 1]))
    <3>1. Tidy(SubSeq(es, 1, k))
      OBVIOUS
    <3> QED
      BY <2>2, <2>3, <3>1, TidyStep
  <2>5. Append(SubSeq(es, 1, k), es[k + 1]) = SubSeq(es, 1, k + 1)
    <3> DEFINE a == Append(SubSeq(es, 1, k), es[k + 1])
               b == SubSeq(es, 1, k + 1)
    <3>1. /\ Len(SubSeq(es, 1, k)) = k /\ \A i \in 1..k : SubSeq(es, 1, k)[i] = es[i]
      BY <2>1, Prefix
    <3>2. a \in Seq(Events) /\ Len(a) = k + 1 /\ (\A i \in 1..k : a[i] = es[i])
          /\ a[k + 1] = es[k + 1]
      BY <2>2, <3>1, Appended
    <3>3. b \in Seq(Events) /\ Len(b) = k + 1 /\ \A i \in 1..(k + 1) : b[i] = es[i]
      BY <2>1, Prefix
    <3> HIDE DEF a, b
    <3>4. \A i \in 1..(k + 1) : i \in 1..k \/ i = k + 1
      BY <2>1
    <3>5. \A i \in 1..(k + 1) : a[i] = b[i]
      BY <3>2, <3>3, <3>4
    <3>6. a = b
      BY <3>2, <3>3, <3>5, SeqEqual
    <3> QED
      BY <3>6 DEF a, b
  <2> QED
    BY <2>1, <2>4, <2>5
<1> HIDE DEF S
<1>3. \A k \in 0..N : k \in S
  BY <1>0, <1>1, <1>2, UpTo
<1>4. N \in 0..N
  BY <1>0
<1> QED
  BY <1>0, <1>3, <1>4 DEF S

(***************************************************************************)
(* A log with one more event, and a log cut short.                          *)
(***************************************************************************)

\* The reminders of a log with one more event.
LEMMA RemindersOneMore ==
    ASSUME NEW es \in Seq(Events), NEW e \in Events
    PROVE  /\ \A i \in Reminders(Append(es, e)) :
                i \in Reminders(es) \/ (i = Len(es) + 1 /\ e.op = "reminder")
           /\ \A i \in Reminders(es) : i \in Reminders(Append(es, e)) /\ Append(es, e)[i] = es[i]
                                       /\ i \in 1..Len(es)
<1> DEFINE p == Append(es, e)
           N == Len(es)
<1>1. /\ p \in Seq(Events) /\ N \in Nat /\ Len(p) = N + 1
      /\ \A i \in 1..N : p[i] = es[i]
      /\ p[N + 1] = e
  BY Appended
<1>2. DOMAIN p = 1..(N + 1) /\ DOMAIN es = 1..N
  BY <1>1, LenProperties
<1> HIDE DEF p, N
<1>3. \A i \in 1..(N + 1) : i \in 1..N \/ i = N + 1
  BY <1>1
<1>4. \A i \in 1..N : i \in 1..(N + 1)
  BY <1>1
<1>5. \A i \in Reminders(p) : i \in Reminders(es) \/ (i = N + 1 /\ e.op = "reminder")
  BY <1>1, <1>2, <1>3 DEF Reminders
<1>6. \A i \in Reminders(es) : i \in Reminders(p) /\ p[i] = es[i] /\ i \in 1..N
  BY <1>1, <1>2, <1>4 DEF Reminders
<1> QED
  BY <1>5, <1>6 DEF p, N

\* A log folds with an event that may follow it.
LEMMA FoldsOneMore ==
    ASSUME NEW es \in Seq(Events), NEW e \in Events, Folds(es), Follows(es, e)
    PROVE  Folds(Append(es, e))
<1> DEFINE p == Append(es, e)
           N == Len(es)
<1>1. /\ p \in Seq(Events) /\ N \in Nat /\ Len(p) = N + 1
      /\ \A i \in 1..N : p[i] = es[i]
      /\ p[N + 1] = e
  BY Appended
<1>2. DOMAIN p = 1..(N + 1) /\ DOMAIN es = 1..N
  BY <1>1, LenProperties
<1>3. \A n \in 0..N : SubSeq(p, 1, n) = SubSeq(es, 1, n)
  BY PrefixOfAppend
<1>4. SubSeq(es, 1, N) = es
  BY SubSeqFull
<1> HIDE DEF p, N
<1>5. ASSUME NEW i \in 1..(N + 1) PROVE Follows(SubSeq(p, 1, i - 1), p[i])
  <2>1. CASE i \in 1..N
    <3>1. i - 1 \in 0..N /\ p[i] = es[i]
      BY <1>1, <2>1
    <3>2. SubSeq(p, 1, i - 1) = SubSeq(es, 1, i - 1)
      BY <3>1, <1>3
    <3>3. Follows(SubSeq(es, 1, i - 1), es[i])
      BY <2>1, <1>2 DEF Folds
    <3> QED
      BY <3>1, <3>2, <3>3
  <2>2. CASE i = N + 1
    <3>1. i - 1 = N /\ N \in 0..N
      BY <2>2, <1>1
    <3>2. SubSeq(p, 1, i - 1) = es
      BY <3>1, <1>3, <1>4
    <3> QED
      BY <3>2, <2>2, <1>1
  <2> QED
    BY <2>1, <2>2, <1>1
<1>6. Folds(p)
  BY <1>2, <1>5 DEF Folds
<1> QED
  BY <1>6 DEF p

\* A dispatch behind a reminder of the same record is backed.
IsBacked(es, e) == \E j \in Reminders(es) : \E m \in es[j].items : m.id = e.id

\* Dispatches stay backed behind one that is, or behind another event.
LEMMA BackedOneMore ==
    ASSUME NEW es \in Seq(Events), NEW e \in Events, Backed(es),
           e.op = "dispatch" => IsBacked(es, e)
    PROVE  Backed(Append(es, e))
<1> DEFINE p == Append(es, e)
           N == Len(es)
<1>1. /\ p \in Seq(Events) /\ N \in Nat /\ Len(p) = N + 1
      /\ \A i \in 1..N : p[i] = es[i]
      /\ p[N + 1] = e
  BY Appended
<1>2. DOMAIN p = 1..(N + 1) /\ DOMAIN es = 1..N
  BY <1>1, LenProperties
<1>3. \A i \in Reminders(es) : i \in Reminders(p) /\ p[i] = es[i] /\ i \in 1..N
  BY RemindersOneMore
<1> HIDE DEF p, N
<1>4. ASSUME NEW i \in 1..(N + 1), p[i].op = "dispatch"
      PROVE  \E j \in Reminders(p) : j < i /\ \E m \in p[j].items : m.id = p[i].id
  <2>1. CASE i \in 1..N
    <3>1. p[i] = es[i]
      BY <2>1, <1>1
    <3>2. PICK j \in Reminders(es) : j < i /\ \E m \in es[j].items : m.id = es[i].id
      BY <2>1, <3>1, <1>2, <1>4 DEF Backed
    <3> QED
      BY <3>1, <3>2, <1>3
  <2>2. CASE i = N + 1
    <3>1. p[i] = e
      BY <2>2, <1>1
    <3>2. PICK j \in Reminders(es) : \E m \in es[j].items : m.id = e.id
      BY <3>1, <1>4 DEF IsBacked
    <3>3. j \in Reminders(p) /\ p[j] = es[j] /\ j \in 1..N
      BY <1>3, <3>2
    <3>4. j < i
      BY <1>1, <2>2, <3>3
    <3> QED
      BY <3>1, <3>2, <3>3, <3>4
  <2> QED
    BY <2>1, <2>2, <1>1
<1>5. Backed(p)
  BY <1>2, <1>4 DEF Backed
<1> QED
  BY <1>5 DEF p

\* A reminder names occurrences behind those its run queued before.
IsAhead(es, e) ==
    \A i \in Reminders(es) : es[i].run = e.run =>
        \A m \in es[i].items, n \in e.items : m.id = n.id => m.at < n.at

\* Occurrences stay queued once behind such a reminder, or behind another event.
LEMMA OnceOneMore ==
    ASSUME NEW es \in Seq(Events), NEW e \in Events, OnceInARun(es),
           e.op = "reminder" => IsAhead(es, e)
    PROVE  OnceInARun(Append(es, e))
<1> DEFINE p == Append(es, e)
           N == Len(es)
<1>1. N \in Nat /\ p[N + 1] = e
  BY Appended
<1>2. /\ \A i \in Reminders(p) : i \in Reminders(es) \/ (i = N + 1 /\ e.op = "reminder")
      /\ \A i \in Reminders(es) : i \in Reminders(p) /\ p[i] = es[i] /\ i \in 1..N
  BY RemindersOneMore
<1> HIDE DEF p, N
<1>3. ASSUME NEW i \in Reminders(p), NEW j \in Reminders(p), i < j, p[i].run = p[j].run,
             NEW m \in p[i].items, NEW n \in p[j].items, m.id = n.id
      PROVE  m.at < n.at
  <2>1. i \in Reminders(es)
    <3>1. CASE i = N + 1
      <4>1. j \in 1..N \/ j = N + 1
        BY <1>2
      <4>2. ~(N + 1 < j)
        BY <4>1, <1>1
      <4> QED
        BY <4>2, <3>1, <1>3
    <3> QED
      BY <3>1, <1>2
  <2>2. p[i] = es[i]
    BY <2>1, <1>2
  <2>3. CASE j \in Reminders(es)
    <3>1. p[j] = es[j]
      BY <2>3, <1>2
    <3> QED
      BY <2>1, <2>2, <2>3, <3>1, <1>3, Zenon DEF OnceInARun
  <2>4. CASE j = N + 1 /\ e.op = "reminder"
    <3>1. p[j] = e
      BY <2>4, <1>1
    <3> QED
      BY <2>1, <2>2, <2>4, <3>1, <1>3, Zenon DEF IsAhead
  <2> QED
    BY <2>3, <2>4, <1>2
<1>4. OnceInARun(p)
  BY <1>3, Zenon DEF OnceInARun
<1> QED
  BY <1>4 DEF p

\* The reminders of a run of the agent, in number.
RunsUpTo(es, run) == \A i \in Reminders(es) : es[i].run <= run

\* The runs of a log with one more event.
LEMMA RunsOneMore ==
    ASSUME NEW es \in Seq(Events), NEW e \in Events, NEW run \in Int, RunsUpTo(es, run),
           e.op = "reminder" => e.run <= run
    PROVE  RunsUpTo(Append(es, e), run)
<1> DEFINE p == Append(es, e)
           N == Len(es)
<1>1. N \in Nat /\ p[N + 1] = e
  BY Appended
<1>2. /\ \A i \in Reminders(p) : i \in Reminders(es) \/ (i = N + 1 /\ e.op = "reminder")
      /\ \A i \in Reminders(es) : i \in Reminders(p) /\ p[i] = es[i] /\ i \in 1..N
  BY RemindersOneMore
<1> HIDE DEF p, N
<1>3. RunsUpTo(p, run)
  BY <1>1, <1>2, Zenon DEF RunsUpTo
<1> QED
  BY <1>3 DEF p

\* A log cut short keeps what it was.
LEMMA CutShort ==
    ASSUME NEW es \in Seq(Events), NEW k \in 0..Len(es), NEW run \in Int,
           Folds(es), Backed(es), OnceInARun(es), RunsUpTo(es, run)
    PROVE  /\ SubSeq(es, 1, k) \in Seq(Events) /\ Len(SubSeq(es, 1, k)) = k
           /\ Folds(SubSeq(es, 1, k)) /\ Backed(SubSeq(es, 1, k))
           /\ OnceInARun(SubSeq(es, 1, k)) /\ RunsUpTo(SubSeq(es, 1, k), run)
<1> DEFINE p == SubSeq(es, 1, k)
<1>1. /\ p \in Seq(Events) /\ Len(p) = k /\ k \in Nat /\ Len(es) \in Nat
      /\ \A i \in 1..k : p[i] = es[i]
  BY Prefix, LenProperties
<1>2. DOMAIN p = 1..k /\ DOMAIN es = 1..Len(es) /\ \A i \in 1..k : i \in 1..Len(es)
  BY <1>1, LenProperties
<1>3. \A n \in 0..k : SubSeq(p, 1, n) = SubSeq(es, 1, n)
  BY PrefixOfPrefix
<1> HIDE DEF p
<1>4. \A i \in Reminders(p) : i \in Reminders(es) /\ i \in 1..k /\ p[i] = es[i]
  BY <1>1, <1>2 DEF Reminders
<1>5. \A i \in Reminders(es) : i \in 1..k => i \in Reminders(p)
  BY <1>1, <1>2 DEF Reminders
<1>6. Folds(p)
  <2> SUFFICES ASSUME NEW i \in 1..k PROVE Follows(SubSeq(p, 1, i - 1), p[i])
    BY <1>2 DEF Folds
  <2>1. i - 1 \in 0..k
    BY <1>1
  <2>2. Follows(SubSeq(es, 1, i - 1), es[i])
    BY <1>2 DEF Folds
  <2> QED
    BY <2>1, <2>2, <1>1, <1>3
<1>7. Backed(p)
  <2> SUFFICES ASSUME NEW i \in 1..k, p[i].op = "dispatch"
               PROVE  \E j \in Reminders(p) : j < i /\ \E m \in p[j].items : m.id = p[i].id
    BY <1>2 DEF Backed
  <2>1. PICK j \in Reminders(es) : j < i /\ \E m \in es[j].items : m.id = es[i].id
    BY <1>1, <1>2 DEF Backed
  <2>2. j \in 1..Len(es)
    BY <1>2 DEF Reminders
  <2>3. j \in 1..k
    BY <2>1, <2>2, <1>1
  <2> QED
    BY <2>1, <2>3, <1>1, <1>5
<1>8. OnceInARun(p)
  BY <1>4, Zenon DEF OnceInARun
<1>9. RunsUpTo(p, run)
  BY <1>4, Zenon DEF RunsUpTo
<1> QED
  BY <1>1, <1>6, <1>7, <1>8, <1>9 DEF p

(***************************************************************************)
(* What a run of the agent queued, and what is still active.                *)
(***************************************************************************)

\* Of what a run queued an active record is further on, except, until instant
\* at, the records with an id in L.
AheadBut(es, run, L, at) ==
    \A i \in Reminders(es) : es[i].run = run =>
        \A m \in es[i].items, r \in ActiveRecords(es) :
            m.id = r.id => m.at < r.at \/ (m.id \in L /\ m.at <= at)

\* The ids given in a prefix were given.
LEMMA SeenBefore ==
    ASSUME NEW es \in Seq(Events), NEW k \in 0..Len(es)
    PROVE  Seen(SubSeq(es, 1, k)) \subseteq Seen(es)
<1> DEFINE p == SubSeq(es, 1, k)
<1>1. /\ p \in Seq(Events) /\ Len(p) = k /\ k \in Nat /\ Len(es) \in Nat
      /\ \A i \in 1..k : p[i] = es[i]
  BY Prefix, LenProperties
<1>2. DOMAIN p = 1..k /\ DOMAIN es = 1..Len(es) /\ \A i \in 1..k : i \in 1..Len(es)
  BY <1>1, LenProperties
<1> HIDE DEF p
<1>3. Seen(p) \subseteq Seen(es)
  BY <1>1, <1>2 DEF Seen
<1> QED
  BY <1>3 DEF p

\* What a reminder names was created, and has typed targets.
LEMMA ItemsSeen ==
    ASSUME NEW es \in Seq(Events), Folds(es), NEW i \in Reminders(es), NEW m \in es[i].items
    PROVE  m.id \in Seen(es) /\ m.id \in Nat /\ m.at \in 0..Horizon /\ i \in 1..Len(es)
           /\ es[i].run \in Int
<1>1. i \in 1..Len(es) /\ es[i].op = "reminder" /\ Len(es) \in Nat /\ DOMAIN es = 1..Len(es)
  BY LenProperties DEF Reminders
<1>2. es[i] \in Events
  BY <1>1, ElementOfSeq
<1>3. m \in [id : Nat, at : 0..Horizon] /\ es[i].run \in Int
  BY <1>1, <1>2, EventHas
<1> DEFINE p == SubSeq(es, 1, i - 1)
<1>4. i - 1 \in 0..Len(es)
  BY <1>1
<1>5. Follows(p, es[i]) /\ Tidy(p)
  BY <1>1, <1>4, FoldsTidy DEF Folds
<1>6. PICK r \in ActiveRecords(p) : r.id = m.id
  BY <1>1, <1>5 DEF Follows
<1>7. m.id \in Seen(p)
  BY <1>5, <1>6 DEF Tidy
<1>8. m.id \in Seen(es)
  BY <1>4, <1>7, SeenBefore
<1> QED
  BY <1>1, <1>3, <1>8

\* A dispatch moves its record behind what was queued by its instant; another
\* change of the log leaves the records where they are, or adds a new one.
LEMMA AheadOneMore ==
    ASSUME NEW es \in Seq(Events), NEW e \in Events, Folds(es), Follows(es, e), NEW run, NEW L,
           NEW at \in Int, AheadBut(es, run, L, at), e.op # "reminder",
           e.op = "dispatch" /\ e.id \in L =>
               \A r \in ActiveRecords(es) : r.id = e.id => r.every = 0 \/ e.at >= at
    PROVE  AheadBut(Append(es, e), run, IF e.op = "dispatch" THEN L \ {e.id} ELSE L, at)
<1> DEFINE p == Append(es, e)
           K == IF e.op = "dispatch" THEN L \ {e.id} ELSE L
<1>1. /\ \A i \in Reminders(p) : i \in Reminders(es)
      /\ \A i \in Reminders(es) : p[i] = es[i]
  BY RemindersOneMore
<1>2. Tidy(es)
  BY FoldsTidy
<1> SUFFICES ASSUME NEW i \in Reminders(es), es[i].run = run, NEW m \in es[i].items,
                    NEW q \in ActiveRecords(p), m.id = q.id
             PROVE  m.at < q.at \/ (m.id \in K /\ m.at <= at)
  BY <1>1, Zenon DEF AheadBut
<1>3. m.id \in Seen(es) /\ m.at \in Int
  BY ItemsSeen
<1>4. CASE e.op = "create" /\ q = [id |-> e.id, at |-> e.at, every |-> e.every]
  <2>1. q.id = e.id /\ e.id \notin Seen(es)
    BY <1>4 DEF Follows
  <2> QED
    BY <2>1, <1>3
<1>5. ASSUME NEW r \in ActiveRecords(es), r \in Recs, r.at \in 0..Horizon, q \in Recs,
             q.id = r.id,
             q = r \/ (q.at <= Horizon /\ e.op = "dispatch" /\ r.id = e.id /\ r.every # 0
                       /\ e.at < q.at),
             e.op \in {"delete", "dispatch"} /\ r.id = e.id =>
                     e.op = "dispatch" /\ r.every # 0 /\ e.at < q.at /\ q.at <= Horizon
      PROVE  m.at < q.at \/ (m.id \in K /\ m.at <= at)
  <2>1. m.at < r.at \/ (m.id \in L /\ m.at <= at)
    BY <1>5 DEF AheadBut
  <2>2. CASE e.op = "dispatch" /\ r.id = e.id
    <3>1. r.every # 0 /\ e.at < q.at
      BY <1>5, <2>2
    <3>2. e.at >= r.at
      BY <2>2, <3>1, <1>5 DEF Follows
    <3>3. m.id \in L => e.at >= at
      BY <2>2, <3>1, <1>5
    <3>4. e.at \in Int /\ q.at \in Int /\ r.at \in Int
      BY EventHas, <1>5, <2>2 DEF Recs
    <3> QED
      BY <2>1, <3>1, <3>2, <3>3, <3>4, <1>3
  <2>3. CASE ~(e.op = "dispatch" /\ r.id = e.id)
    <3>1. q = r
      BY <1>5, <2>3
    <3>2. m.id \in L => m.id \in K
      BY <1>5, <2>3
    <3> QED
      BY <2>1, <3>1, <3>2
  <2> QED
    BY <2>2, <2>3
<1> HIDE DEF p, K
<1> QED
  BY <1>2, <1>4, <1>5, ComesFrom, Zenon DEF p

\* A reminder leaves the records where they are, and is behind them at once only
\* for those it names.
LEMMA AheadReminder ==
    ASSUME NEW es \in Seq(Events), NEW e \in Events, NEW run, NEW L, NEW at,
           AheadBut(es, run, {}, at), e.op = "reminder",
           \A m \in e.items : m.id \in L /\ m.at <= at
    PROVE  AheadBut(Append(es, e), run, L, at) /\ ActiveRecords(Append(es, e)) = ActiveRecords(es)
<1> DEFINE p == Append(es, e)
           N == Len(es)
<1>1. N \in Nat /\ p[N + 1] = e
  BY Appended
<1>2. /\ \A i \in Reminders(p) : i \in Reminders(es) \/ i = N + 1
      /\ \A i \in Reminders(es) : p[i] = es[i]
  BY RemindersOneMore
<1>3. ActiveRecords(p) = ActiveRecords(es)
  <2>1. Added(e) = {} /\ \A r : Left(r, e) = {r}
    BY DEF Added, Left
  <2>2. UNION {Left(r, e) : r \in ActiveRecords(es)} = ActiveRecords(es)
    BY <2>1
  <2> QED
    BY <2>1, <2>2, OneMore DEF After
<1> HIDE DEF p, N
<1>4. AheadBut(p, run, L, at)
  <2> SUFFICES ASSUME NEW i \in Reminders(p), p[i].run = run, NEW m \in p[i].items,
                      NEW r \in ActiveRecords(es), m.id = r.id
               PROVE  m.at < r.at \/ (m.id \in L /\ m.at <= at)
    BY <1>3, Zenon DEF AheadBut
  <2>1. CASE i \in Reminders(es)
    <3>1. p[i] = es[i]
      BY <2>1, <1>2
    <3> QED
      BY <2>1, <3>1, Zenon DEF AheadBut
  <2>2. CASE i = N + 1
    BY <2>2, <1>1
  <2> QED
    BY <2>1, <2>2, <1>2
<1> QED
  BY <1>3, <1>4 DEF p

(***************************************************************************)
(* The delivery of what is due.                                             *)
(***************************************************************************)

\* The dispatch of a record that is due.
Fired(r) == Dispatch(r.id, IF r.every = 0 THEN 0 ELSE now)

\* The chosen records are due, and the reminder and the dispatches are events.
LEMMA ChosenDue ==
    ASSUME Tidy(log), now \in 0..Horizon, spent.ends \in Nat
    PROVE  /\ Chosen \subseteq Due /\ Due \subseteq ActiveRecords(log)
           /\ \A r \in Chosen : /\ r \in Recs /\ r \in ActiveTypes /\ r.at <= now
                                /\ r \in ActiveRecords(log) /\ Fired(r) \in Events
           /\ Reminder(Chosen) \in Events
           /\ \A m \in Reminder(Chosen).items :
                \E r \in Chosen : m.id = r.id /\ r.at <= m.at /\ m.at <= now
<1>1. Chosen \subseteq Due /\ Due \subseteq ActiveRecords(log)
  BY DEF Chosen, Due
<1>0. Horizon \in Nat /\ now \in Nat /\ now \in Int /\ now <= Horizon
  BY ScheduleAssumption
<1>2. ASSUME NEW r \in Chosen
      PROVE  /\ r \in Recs /\ r \in ActiveTypes /\ r.at <= now /\ r \in ActiveRecords(log)
             /\ Fired(r) \in Events
  <2>1. r \in ActiveRecords(log) /\ r.at <= now
    BY <1>1 DEF Due
  <2>2. r \in ActiveTypes
    BY <2>1 DEF Tidy
  <2>3. r.id \in Nat /\ r.at \in Int /\ r.every \in Nat /\ r \in Recs
    BY <2>2, <1>0 DEF ActiveTypes, Recs
  <2>4. Fired(r) \in Events
    <3>1. (IF r.every = 0 THEN 0 ELSE now) \in 0..Horizon
      BY <1>0
    <3> QED
      BY <3>1, <2>3 DEF Fired, Dispatch, Events
  <2> QED
    BY <2>1, <2>2, <2>3, <2>4
<1> DEFINE target(r) == IF r.every = 0 THEN r.at ELSE Occurrence(r, now)
<1>3. ASSUME NEW r \in Chosen
      PROVE  target(r) \in 0..Horizon /\ r.at <= target(r) /\ target(r) <= now /\ r.id \in Nat
  <2>1. r \in Recs /\ r \in ActiveTypes /\ r.at <= now
    BY <1>2
  <2>2. r.at \in 0..Horizon /\ r.id \in Nat
    BY <2>1 DEF ActiveTypes
  <2>3. CASE r.every = 0
    BY <2>1, <2>2, <2>3
  <2>4. CASE r.every # 0
    <3>1. /\ Occurrence(r, now) \in Int /\ Occurrence(r, now) <= now
          /\ r.at <= Occurrence(r, now)
      BY <2>1, <2>4, <1>0, OccurrenceIs
    <3>2. target(r) = Occurrence(r, now)
      BY <2>4
    <3> HIDE DEF target
    <3> QED
      BY <3>1, <3>2, <2>2, <1>0
  <2> QED
    BY <2>3, <2>4
<1>4. Reminder(Chosen).items = {[id |-> r.id, at |-> target(r)] : r \in Chosen}
  BY DEF Reminder
<1>5. \A m \in Reminder(Chosen).items :
         \E r \in Chosen : m = [id |-> r.id, at |-> target(r)]
  BY <1>4
<1> HIDE DEF target
<1>6. \A m \in Reminder(Chosen).items :
                \E r \in Chosen : m.id = r.id /\ r.at <= m.at /\ m.at <= now
  BY <1>3, <1>5
<1>7. Reminder(Chosen).items \in SUBSET [id : Nat, at : 0..Horizon]
  BY <1>3, <1>5
<1>8. Reminder(Chosen) \in Events
  <2>1. Reminder(Chosen) = [op |-> "reminder", id |-> 0, run |-> spent.ends,
                            items |-> Reminder(Chosen).items]
    BY DEF Reminder
  <2> DEFINE s == Reminder(Chosen).items
  <2>2. Reminder(Chosen) = [op |-> "reminder", id |-> 0, run |-> spent.ends, items |-> s]
        /\ s \in SUBSET [id : Nat, at : 0..Horizon] /\ spent.ends \in Int
    BY <2>1, <1>7
  <2> HIDE DEF s
  <2> QED
    BY <2>2 DEF Events
<1> QED
  BY <1>1, <1>2, <1>6, <1>8

\* The reminder of what is chosen may follow the log, and is ahead of it.
LEMMA ReminderFollows ==
    ASSUME log \in Seq(Events), Folds(log), now \in 0..Horizon, spent.ends \in Nat
    PROVE  /\ Follows(log, Reminder(Chosen)) /\ Reminder(Chosen).run = spent.ends
           /\ Reminder(Chosen).op = "reminder"
           /\ AheadBut(log, spent.ends, {}, now) => IsAhead(log, Reminder(Chosen))
<1> DEFINE e == Reminder(Chosen)
<1>1. e.op = "reminder" /\ e.run = spent.ends
  BY DEF Reminder
<1>2. Tidy(log)
  BY FoldsTidy
<1>3. /\ \A r \in Chosen : r \in ActiveRecords(log) /\ r \in ActiveTypes
      /\ e \in Events
      /\ \A m \in e.items : \E r \in Chosen : m.id = r.id /\ r.at <= m.at /\ m.at <= now
  BY <1>2, ChosenDue
<1> HIDE DEF e
<1>4. Follows(log, e)
  BY <1>1, <1>3 DEF Follows
<1>5. ASSUME AheadBut(log, spent.ends, {}, now) PROVE IsAhead(log, e)
  <2> SUFFICES ASSUME NEW i \in Reminders(log), log[i].run = spent.ends,
                      NEW m \in log[i].items, NEW n \in e.items, m.id = n.id
               PROVE  m.at < n.at
    BY <1>1, Zenon DEF IsAhead
  <2>1. PICK r \in Chosen : n.id = r.id /\ r.at <= n.at
    BY <1>3
  <2>2. r \in ActiveRecords(log) /\ r.at \in Int
    BY <1>3 DEF ActiveTypes
  <2>3. m.at < r.at
    <3>1. m.at < r.at \/ (m.id \in {} /\ m.at <= now)
      BY <1>5, <2>1, <2>2, Zenon DEF AheadBut
    <3> QED
      BY <3>1
  <2>4. m.at \in Int /\ n.at \in Int
    BY <1>1, <1>3, ItemsSeen, EventHas
  <2> QED
    BY <2>1, <2>2, <2>3, <2>4
<1> QED
  BY <1>1, <1>4, <1>5 DEF e

\* A delivery, event by event.
LEMMA DeliveryGrows ==
    ASSUME log \in Seq(Events), Reminder(Chosen) \in Events, NEW n \in Nat,
           NEW q \in [1..n -> Chosen],
           \A r \in Chosen : Fired(r) \in Events
    PROVE  /\ log \o Delivery(Chosen, q, 0) = Append(log, Reminder(Chosen))
           /\ \A k \in 0..n : log \o Delivery(Chosen, q, k) \in Seq(Events)
           /\ \A k \in 0..(n - 1) : /\ Fired(q[k + 1]) \in Events
                  /\ log \o Delivery(Chosen, q, k + 1)
                       = Append(log \o Delivery(Chosen, q, k), Fired(q[k + 1]))
<1> DEFINE fired(k) == [i \in 1..k |-> Fired(q[i])]
           rem == <<Reminder(Chosen)>>
           N == Len(log)
<1>0. N \in Nat /\ rem \in Seq(Events) /\ Len(rem) = 1 /\ rem[1] = Reminder(Chosen)
  BY LenProperties
<1>1. ASSUME NEW k \in 0..n
      PROVE  /\ fired(k) \in Seq(Events) /\ Len(fired(k)) = k
             /\ \A i \in 1..k : fired(k)[i] = Fired(q[i])
  <2>1. k \in Nat /\ \A i \in 1..k : i \in 1..n
    OBVIOUS
  <2>2. \A i \in 1..k : Fired(q[i]) \in Events
    BY <2>1
  <2>3. fired(k) \in [1..k -> Events]
    BY <2>2
  <2> QED
    BY <2>1, <2>3, LenProperties
<1>2. \A k \in 0..n : Delivery(Chosen, q, k) = rem \o fired(k)
  BY DEF Delivery, Fired
<1> HIDE DEF fired, rem, N
<1>3. ASSUME NEW k \in 0..n
      PROVE  /\ log \o Delivery(Chosen, q, k) \in Seq(Events)
             /\ Len(log \o Delivery(Chosen, q, k)) = N + 1 + k
             /\ \A i \in 1..N : (log \o Delivery(Chosen, q, k))[i] = log[i]
             /\ (log \o Delivery(Chosen, q, k))[N + 1] = Reminder(Chosen)
             /\ \A i \in 1..k : (log \o Delivery(Chosen, q, k))[N + 1 + i] = Fired(q[i])
  <2> DEFINE d == rem \o fired(k)
  <2>1. fired(k) \in Seq(Events) /\ Len(fired(k)) = k /\ k \in Nat
        /\ \A i \in 1..k : fired(k)[i] = Fired(q[i])
    BY <1>1
  <2>2. /\ d \in Seq(Events) /\ Len(d) = 1 + k
        /\ d[1] = Reminder(Chosen)
        /\ \A i \in 1..k : d[1 + i] = Fired(q[i])
    <3>1. /\ d \in Seq(Events) /\ Len(d) = Len(rem) + Len(fired(k))
          /\ \A i \in 1..Len(rem) + Len(fired(k)) :
               d[i] = IF i <= Len(rem) THEN rem[i] ELSE fired(k)[i - Len(rem)]
      BY <1>0, <2>1, ConcatProperties
    <3> HIDE DEF d
    <3>2. /\ Len(d) = 1 + k
          /\ \A i \in 1..(1 + k) : d[i] = IF i <= 1 THEN rem[i] ELSE fired(k)[i - 1]
      BY <3>1, <1>0, <2>1
    <3>3. d[1] = Reminder(Chosen)
      <4>1. 1 \in 1..(1 + k) /\ 1 <= 1
        BY <2>1
      <4> QED
        BY <4>1, <3>2, <1>0
    <3>4. ASSUME NEW i \in 1..k PROVE d[1 + i] = Fired(q[i])
      <4>1. 1 + i \in 1..(1 + k) /\ ~(1 + i <= 1) /\ (1 + i) - 1 = i
        BY <2>1
      <4> QED
        BY <4>1, <3>2, <2>1
    <3> QED
      BY <3>1, <3>2, <3>3, <3>4
  <2>3. Delivery(Chosen, q, k) = d
    BY <1>2
  <2> HIDE DEF d
  <2> DEFINE w == log \o d
  <2>4. /\ w \in Seq(Events) /\ Len(w) = N + (1 + k)
        /\ \A i \in 1..N + (1 + k) : w[i] = IF i <= N THEN log[i] ELSE d[i - N]
    <3>1. /\ w \in Seq(Events) /\ Len(w) = Len(log) + Len(d)
          /\ \A i \in 1..Len(log) + Len(d) :
               w[i] = IF i <= Len(log) THEN log[i] ELSE d[i - Len(log)]
      BY <2>2, ConcatProperties
    <3> HIDE DEF w
    <3>2. Len(log) = N /\ Len(d) = 1 + k
      BY <2>2 DEF N
    <3> QED
      BY <3>1, <3>2
  <2> HIDE DEF w
  <2>5. Len(w) = N + 1 + k
    BY <2>4, <2>1, <1>0
  <2>6. \A i \in 1..N : w[i] = log[i]
    <3>1. \A i \in 1..N : i \in 1..N + (1 + k) /\ i <= N
      BY <1>0, <2>1
    <3> QED
      BY <3>1, <2>4
  <2>7. w[N + 1] = Reminder(Chosen)
    <3>1. N + 1 \in 1..N + (1 + k) /\ ~(N + 1 <= N) /\ (N + 1) - N = 1
      BY <1>0, <2>1
    <3> QED
      BY <3>1, <2>4, <2>2
  <2>8. ASSUME NEW i \in 1..k PROVE w[N + 1 + i] = Fired(q[i])
    <3>1. N + 1 + i \in 1..N + (1 + k) /\ ~(N + 1 + i <= N) /\ (N + 1 + i) - N = 1 + i
      BY <1>0, <2>1
    <3> QED
      BY <3>1, <2>4, <2>2
  <2> QED
    BY <2>3, <2>4, <2>5, <2>6, <2>7, <2>8 DEF w
<1>4. log \o Delivery(Chosen, q, 0) = Append(log, Reminder(Chosen))
  <2> DEFINE a == log \o Delivery(Chosen, q, 0)
             b == Append(log, Reminder(Chosen))
  <2>1. 0 \in 0..n
    OBVIOUS
  <2>2. a \in Seq(Events) /\ Len(a) = N + 1 /\ (\A i \in 1..N : a[i] = log[i])
        /\ a[N + 1] = Reminder(Chosen)
    BY <2>1, <1>3, <1>0
  <2>3. b \in Seq(Events) /\ Len(b) = N + 1 /\ (\A i \in 1..N : b[i] = log[i])
        /\ b[N + 1] = Reminder(Chosen)
    BY Appended DEF N
  <2> HIDE DEF a, b
  <2>4. \A i \in 1..(N + 1) : i \in 1..N \/ i = N + 1
    BY <1>0
  <2>6. \A i \in 1..Len(a) : a[i] = b[i]
    <3> SUFFICES ASSUME NEW i \in 1..(N + 1) PROVE a[i] = b[i]
      BY <2>2
    <3>1. CASE i \in 1..N
      BY <3>1, <2>2, <2>3
    <3>2. CASE i = N + 1
      BY <3>2, <2>2, <2>3
    <3> QED
      BY <3>1, <3>2, <2>4
  <2>7. Len(a) = Len(b)
    BY <2>2, <2>3
  <2>5. a = b
    BY <2>2, <2>3, <2>6, <2>7, SeqEqual
  <2> QED
    BY <2>5 DEF a, b
<1>5. ASSUME NEW k \in 0..(n - 1)
      PROVE  /\ Fired(q[k + 1]) \in Events
             /\ log \o Delivery(Chosen, q, k + 1)
                       = Append(log \o Delivery(Chosen, q, k), Fired(q[k + 1]))
  <2> DEFINE c == log \o Delivery(Chosen, q, k)
             a == log \o Delivery(Chosen, q, k + 1)
             x == Fired(q[k + 1])
             b == Append(c, x)
  <2>1. k \in 0..n /\ k + 1 \in 0..n /\ k + 1 \in 1..n /\ k \in Nat /\ k + 1 \in 1..(k + 1)
        /\ \A i \in 1..k : i \in 1..(k + 1)
    OBVIOUS
  <2>2. x \in Events
    BY <2>1
  <2>3. c \in Seq(Events) /\ Len(c) = N + 1 + k /\ (\A i \in 1..N : c[i] = log[i])
        /\ c[N + 1] = Reminder(Chosen) /\ \A i \in 1..k : c[N + 1 + i] = Fired(q[i])
    BY <2>1, <1>3
  <2>4. a \in Seq(Events) /\ Len(a) = N + 1 + (k + 1) /\ (\A i \in 1..N : a[i] = log[i])
        /\ a[N + 1] = Reminder(Chosen) /\ \A i \in 1..(k + 1) : a[N + 1 + i] = Fired(q[i])
    BY <2>1, <1>3
  <2>6. a[N + 1 + (k + 1)] = x
    BY <2>1, <2>4
  <2> HIDE DEF c, a, x
  <2>5. b \in Seq(Events) /\ Len(b) = Len(c) + 1 /\ (\A i \in 1..Len(c) : b[i] = c[i])
        /\ b[Len(c) + 1] = x
    BY <2>2, <2>3, Appended
  <2> HIDE DEF b
  <2>7. ASSUME NEW i \in 1..Len(b) PROVE a[i] = b[i]
    <3>1. i \in 1..N \/ i = N + 1 \/ (\E j \in 1..k : i = N + 1 + j) \/ i = N + 1 + (k + 1)
      <4>1. i \in Int /\ 1 <= i /\ i <= N + 1 + (k + 1)
        BY <2>1, <2>3, <2>5, <1>0
      <4>2. ASSUME i > N + 1, i < N + 1 + (k + 1) PROVE \E j \in 1..k : i = N + 1 + j
        <5>1. i - N - 1 \in 1..k /\ i = N + 1 + (i - N - 1)
          BY <4>1, <4>2, <2>1, <1>0
        <5> QED
          BY <5>1
      <4> QED
        BY <4>1, <4>2, <1>0, <2>1
    <3>2. CASE i \in 1..N
      <4>1. i \in 1..Len(c)
        BY <3>2, <2>3, <1>0, <2>1
      <4> QED
        BY <4>1, <3>2, <2>3, <2>4, <2>5
    <3>3. CASE i = N + 1
      <4>1. i \in 1..Len(c)
        BY <3>3, <2>3, <1>0, <2>1
      <4> QED
        BY <4>1, <3>3, <2>3, <2>4, <2>5
    <3>4. ASSUME NEW j \in 1..k, i = N + 1 + j PROVE a[i] = b[i]
      <4>1. i \in 1..Len(c) /\ j \in 1..(k + 1)
        BY <3>4, <2>3, <1>0, <2>1
      <4>2. a[i] = Fired(q[j]) /\ c[i] = Fired(q[j]) /\ b[i] = c[i]
        BY <4>1, <3>4, <2>3, <2>4, <2>5
      <4> QED
        BY <4>2
    <3>5. CASE i = N + 1 + (k + 1)
      <4>1. i = Len(c) + 1
        BY <3>5, <2>3, <1>0, <2>1
      <4> QED
        BY <4>1, <3>5, <2>5, <2>6
    <3> QED
      BY <3>1, <3>2, <3>3, <3>4, <3>5
  <2>8. Len(a) = Len(b)
    BY <2>3, <2>4, <2>5, <2>1, <1>0
  <2>9. a = b
    BY <2>4, <2>5, <2>7, <2>8, SeqEqual
  <2> QED
    BY <2>2, <2>9 DEF a, b, c, x
<1> QED
  BY <1>3, <1>4, <1>5

\* What the log is behind its first k dispatches.
Delivering(q, n, k) ==
    LET es == log \o Delivery(Chosen, q, k) IN
    /\ es \in Seq(Events) /\ Len(log) < Len(es)
    /\ Folds(es) /\ Backed(es) /\ OnceInARun(es) /\ RunsUpTo(es, spent.ends)
    /\ AheadBut(es, spent.ends, {q[j].id : j \in (k + 1)..n}, now)
    /\ \A j \in (k + 1)..n : q[j] \in ActiveRecords(es)
    /\ \A r \in Chosen : \E i \in Reminders(es) : \E m \in es[i].items : m.id = r.id

\* The finitely many active records have a number.
LEMMA ActiveFinite ==
    ASSUME NEW es \in Seq(Events), Tidy(es)
    PROVE  /\ IsFiniteSet(Seen(es)) /\ Cardinality(Seen(es)) \in Nat
           /\ IsFiniteSet(ActiveRecords(es))
<1> DEFINE D == {j \in DOMAIN es : es[j].op = "create"}
           f == [j \in D |-> es[j].id]
           g == [r \in ActiveRecords(es) |-> r.id]
<1>1. IsFiniteSet(D)
  <2>1. Len(es) \in Nat /\ DOMAIN es = 1..Len(es)
    BY LenProperties
  <2>2. IsFiniteSet(1..Len(es))
    BY <2>1, FS_Interval
  <2>3. D \in SUBSET (1..Len(es))
    BY <2>1
  <2> HIDE DEF D
  <2> QED
    BY <2>2, <2>3, FS_Subset
<1>2. Seen(es) = {es[j].id : j \in D}
  BY DEF Seen
<1> HIDE DEF D
<1>3. f \in Surjection(D, Seen(es))
  <2>1. f \in [D -> Seen(es)]
    BY <1>2
  <2>2. \A x \in Seen(es) : \E j \in D : f[j] = x
    BY <1>2
  <2> HIDE DEF f
  <2> QED
    BY <2>1, <2>2 DEF Surjection
<1> HIDE DEF f
<1>4. IsFiniteSet(Seen(es))
  BY <1>1, <1>3, FS_Surjection
<1>5. g \in Injection(ActiveRecords(es), Seen(es))
  <2>1. g \in [ActiveRecords(es) -> Seen(es)]
    BY DEF Tidy
  <2>2. \A r, x \in DOMAIN g : g[r] = g[x] => r = x
    BY DEF Tidy
  <2> HIDE DEF g
  <2> QED
    BY <2>1, <2>2 DEF Injection, IsInjective
<1> HIDE DEF g
<1>6. IsFiniteSet(ActiveRecords(es))
  BY <1>4, <1>5, FS_Injection
<1> QED
  BY <1>4, <1>6, FS_CardinalityType

\* The choice has a number.
LEMMA ChosenFinite ==
    ASSUME log \in Seq(Events), Tidy(log)
    PROVE  Cardinality(Chosen) \in Nat
<1>1. Chosen \in SUBSET ActiveRecords(log)
  BY DEF Chosen, Due
<1>2. IsFiniteSet(Chosen)
  BY <1>1, ActiveFinite, FS_Subset
<1> QED
  BY <1>2, FS_CardinalityType

\* The records chosen are put in an order in which each stands once.
LEMMA OrderedOnce ==
    ASSUME Tidy(log), NEW q \in InOrder(Chosen), Cardinality(Chosen) \in Nat
    PROVE  /\ q \in [1..Cardinality(Chosen) -> Chosen]
           /\ \A i, j \in 1..Cardinality(Chosen) : i # j => q[i].id # q[j].id
           /\ \A r \in Chosen : \E i \in 1..Cardinality(Chosen) : q[i] = r
<1> DEFINE n == Cardinality(Chosen)
<1>1. /\ q \in [1..n -> Chosen] /\ DOMAIN q = 1..n
      /\ \A r \in Chosen : \E i \in 1..n : q[i] = r
      /\ \A i, j \in 1..n : i < j => Before(q[i], q[j])
  BY DEF InOrder
<1>2. \A r \in Chosen : r \in ActiveRecords(log) /\ r.at \in Int /\ r.id \in Int
  BY DEF Chosen, Due, Tidy, ActiveTypes
<1> HIDE DEF n
<1>3. ASSUME NEW i \in 1..n, NEW j \in 1..n, i < j PROVE q[i].id # q[j].id
  <2>1. Before(q[i], q[j]) /\ q[i] \in Chosen /\ q[j] \in Chosen
    BY <1>1, <1>3
  <2>2. q[i] # q[j]
    BY <2>1, <1>2 DEF Before
  <2> QED
    BY <2>1, <2>2, <1>2 DEF Tidy
<1>4. \A i, j \in 1..n : i # j => i < j \/ j < i
  OBVIOUS
<1> QED
  BY <1>1, <1>3, <1>4 DEF n

\* The log a run of the agent has, as long as no dispatch was lost.
Kept == /\ log \in Seq(Events) /\ now \in 0..Horizon /\ spent.ends \in Nat
        /\ Folds(log) /\ Backed(log) /\ OnceInARun(log) /\ RunsUpTo(log, spent.ends)

\* A delivery starts with its reminder.
LEMMA DeliveryStarts ==
    ASSUME Kept, AheadBut(log, spent.ends, {}, now), NEW n \in Nat, NEW q \in [1..n -> Chosen],
           \A r \in Chosen : \E i \in 1..n : q[i] = r
    PROVE  Delivering(q, n, 0)
<1> DEFINE e == Reminder(Chosen)
           es == log \o Delivery(Chosen, q, 0)
           L == {q[j].id : j \in (0 + 1)..n}
<1>0. Tidy(log) /\ 0 \in 0..n
  BY FoldsTidy DEF Kept
<1>1. /\ \A r \in Chosen : r \in ActiveRecords(log) /\ Fired(r) \in Events
      /\ e \in Events
      /\ \A m \in e.items : \E r \in Chosen : m.id = r.id /\ m.at <= now
  BY <1>0, ChosenDue DEF Kept
<1>2. es = Append(log, e) /\ es \in Seq(Events)
  BY <1>0, <1>1, DeliveryGrows DEF Kept
<1>3. Follows(log, e) /\ e.op = "reminder" /\ e.run = spent.ends /\ IsAhead(log, e)
  BY ReminderFollows DEF Kept
<1>4. \A m \in e.items : m.id \in L /\ m.at <= now
  <2>1. (0 + 1)..n = 1..n
    OBVIOUS
  <2>2. \A r \in Chosen : r.id \in L
    BY <2>1
  <2> HIDE DEF L, e
  <2> QED
    BY <2>2, <1>1
<1>5. \A r \in Chosen : \E m \in e.items : m.id = r.id
  <2> DEFINE target(r) == IF r.every = 0 THEN r.at ELSE Occurrence(r, now)
  <2>1. e.items = {[id |-> r.id, at |-> target(r)] : r \in Chosen}
    BY DEF Reminder
  <2> HIDE DEF target
  <2>2. ASSUME NEW r \in Chosen PROVE \E m \in e.items : m.id = r.id
    <3>1. [id |-> r.id, at |-> target(r)] \in e.items /\ [id |-> r.id, at |-> target(r)].id = r.id
      BY <2>1
    <3> QED
      BY <3>1
  <2> QED
    BY <2>2
<1> HIDE DEF e, es, L
<1>6. Folds(es)
  BY <1>1, <1>2, <1>3, FoldsOneMore DEF Kept
<1>7. Backed(es)
  BY <1>1, <1>2, <1>3, BackedOneMore DEF Kept
<1>8. OnceInARun(es)
  BY <1>1, <1>2, <1>3, OnceOneMore DEF Kept
<1>9. RunsUpTo(es, spent.ends)
  BY <1>1, <1>2, <1>3, RunsOneMore DEF Kept
<1>10. AheadBut(es, spent.ends, L, now) /\ ActiveRecords(es) = ActiveRecords(log)
  BY <1>1, <1>2, <1>3, <1>4, AheadReminder DEF Kept
<1>11. Len(log) \in Nat /\ Len(es) = Len(log) + 1 /\ es[Len(log) + 1] = e
  BY <1>1, <1>2, Appended DEF Kept
<1>12. \A j \in (0 + 1)..n : q[j] \in ActiveRecords(es)
  <2>1. (0 + 1)..n = 1..n
    OBVIOUS
  <2> QED
    BY <2>1, <1>1, <1>10
<1>13. \A r \in Chosen : \E i \in Reminders(es) : \E m \in es[i].items : m.id = r.id
  <2>1. Len(log) + 1 \in Reminders(es)
    <3>1. DOMAIN es = 1..Len(es)
      BY <1>2, LenProperties
    <3>2. Len(log) + 1 \in 1..Len(es)
      BY <1>11
    <3> QED
      BY <3>1, <3>2, <1>3, <1>11 DEF Reminders
  <2> QED
    BY <2>1, <1>5, <1>11
<1>14. Len(log) < Len(es)
  BY <1>11
<1> QED
  BY <1>2, <1>6, <1>7, <1>8, <1>9, <1>10, <1>12, <1>13, <1>14, Zenon DEF Delivering, es, L

\* Then dispatch by dispatch.
LEMMA DeliveryGoesOn ==
    ASSUME Kept, NEW n \in Nat, NEW q \in [1..n -> Chosen], NEW k \in 0..(n - 1),
           \A i, j \in 1..n : i # j => q[i].id # q[j].id, Delivering(q, n, k)
    PROVE  Delivering(q, n, k + 1)
<1> DEFINE es == log \o Delivery(Chosen, q, k)
           fs == log \o Delivery(Chosen, q, k + 1)
           r == q[k + 1]
           e == Fired(r)
           L == {q[j].id : j \in (k + 1)..n}
           K == {q[j].id : j \in ((k + 1) + 1)..n}
<1>a. /\ es \in Seq(Events) /\ Len(log) < Len(es)
      /\ Folds(es) /\ Backed(es) /\ OnceInARun(es) /\ RunsUpTo(es, spent.ends)
      /\ AheadBut(es, spent.ends, L, now)
      /\ \A j \in (k + 1)..n : q[j] \in ActiveRecords(es)
      /\ \A x \in Chosen : \E i \in Reminders(es) : \E m \in es[i].items : m.id = x.id
  BY DEF Delivering
<1>0. /\ Tidy(log) /\ k + 1 \in (k + 1)..n /\ k + 1 \in 1..n /\ now \in Int
      /\ \A j \in ((k + 1) + 1)..n : j \in (k + 1)..n /\ j \in 1..n /\ j # k + 1
      /\ \A j \in (k + 1)..n : j \in 1..n /\ (j = k + 1 \/ j \in ((k + 1) + 1)..n)
  <2>1. Tidy(log)
    BY FoldsTidy DEF Kept
  <2>2. now \in Int
    BY DEF Kept
  <2> HIDE DEF es, fs, r, e, L, K
  <2>3. /\ k + 1 \in (k + 1)..n /\ k + 1 \in 1..n
        /\ \A j \in ((k + 1) + 1)..n : j \in (k + 1)..n /\ j \in 1..n /\ j # k + 1
        /\ \A j \in (k + 1)..n : j \in 1..n /\ (j = k + 1 \/ j \in ((k + 1) + 1)..n)
    OBVIOUS
  <2> QED
    BY <2>1, <2>2, <2>3
<1>1. /\ \A x \in Chosen : x \in ActiveRecords(log) /\ x.at <= now /\ Fired(x) \in Events
      /\ Reminder(Chosen) \in Events
  BY <1>0, ChosenDue DEF Kept
<1>2. fs = Append(es, e) /\ fs \in Seq(Events) /\ e \in Events
  <2>1. k + 1 \in 0..n
    BY <1>0
  <2> QED
    BY <1>1, <2>1, DeliveryGrows DEF Kept
<1>3. r \in Chosen /\ r \in ActiveRecords(es) /\ r \in ActiveRecords(log) /\ r.at <= now
  BY <1>0, <1>1, <1>a
<1>4. e.op = "dispatch" /\ e.id = r.id /\ e.at = IF r.every = 0 THEN 0 ELSE now
  BY DEF Fired, Dispatch
<1>5. \A j \in ((k + 1) + 1)..n : q[j].id # r.id /\ q[j] \in ActiveRecords(es)
  BY <1>0, <1>a
<1>6. K = L \ {e.id}
  BY <1>0, <1>4, <1>5
<1> HIDE DEF es, fs, r, e, L, K
<1>b. Tidy(es)
  BY <1>a, FoldsTidy
<1>7. \A x \in ActiveRecords(es) : x.id = e.id => x = r
  BY <1>b, <1>3, <1>4 DEF Tidy
<1>8. Follows(es, e)
  <2>1. r.at \in Int
    BY <1>b, <1>3 DEF Tidy, ActiveTypes
  <2>2. IF r.every = 0 THEN e.at = 0 ELSE e.at >= r.at
    BY <2>1, <1>0, <1>3, <1>4
  <2> QED
    BY <2>2, <1>3, <1>4, <1>7 DEF Follows
<1>9. IsBacked(es, e)
  BY <1>a, <1>3, <1>4 DEF IsBacked
<1>10. Folds(fs)
  BY <1>2, <1>8, <1>a, FoldsOneMore
<1>11. Backed(fs)
  BY <1>2, <1>9, <1>a, BackedOneMore
<1>12. OnceInARun(fs)
  BY <1>2, <1>4, <1>a, OnceOneMore
<1>13. RunsUpTo(fs, spent.ends)
  <2>1. spent.ends \in Int
    BY DEF Kept
  <2> QED
    BY <2>1, <1>2, <1>4, <1>a, RunsOneMore
<1>14. AheadBut(fs, spent.ends, K, now)
  <2>1. \A x \in ActiveRecords(es) : x.id = e.id => x.every = 0 \/ e.at >= now
    BY <1>7, <1>4, <1>0
  <2>2. AheadBut(Append(es, e), spent.ends, IF e.op = "dispatch" THEN L \ {e.id} ELSE L, now)
    BY <2>1, <1>0, <1>2, <1>4, <1>8, <1>a, AheadOneMore
  <2> QED
    BY <2>2, <1>2, <1>4, <1>6
<1>15. \A j \in ((k + 1) + 1)..n : q[j] \in ActiveRecords(fs)
  <2> SUFFICES ASSUME NEW j \in ((k + 1) + 1)..n PROVE q[j] \in ActiveRecords(fs)
    OBVIOUS
  <2>1. q[j] \in ActiveRecords(es) /\ q[j].id # e.id
    BY <1>4, <1>5
  <2>2. Left(q[j], e) = {q[j]}
    BY <2>1 DEF Left
  <2>3. q[j] \in After(ActiveRecords(es), e)
    BY <2>1, <2>2 DEF After
  <2> QED
    BY <2>3, <1>2, <1>a, OneMore
<1>16. \A x \in Chosen : \E i \in Reminders(fs) : \E m \in fs[i].items : m.id = x.id
  <2>1. \A i \in Reminders(es) : i \in Reminders(fs) /\ fs[i] = es[i]
    BY <1>2, <1>a, RemindersOneMore
  <2> QED
    BY <2>1, <1>a
<1>17. Len(log) < Len(fs)
  <2>1. Len(fs) = Len(es) + 1 /\ Len(es) \in Nat /\ Len(log) \in Nat
    BY <1>2, <1>a, Appended, LenProperties DEF Kept
  <2> QED
    BY <2>1, <1>a
<1> QED
  BY <1>2, <1>10, <1>11, <1>12, <1>13, <1>14, <1>15, <1>16, <1>17, Zenon DEF Delivering, fs, K

\* So however many dispatches were appended, the log is sound, and behind all of
\* them nothing that was queued is still active where it was.
LEMMA Delivered ==
    ASSUME Kept, AheadBut(log, spent.ends, {}, now), NEW q \in InOrder(Chosen)
    PROVE  LET n == Cardinality(Chosen) IN
           /\ \A k \in 0..n : Delivering(q, n, k)
           /\ AheadBut(log \o Delivery(Chosen, q, n), spent.ends, {}, now)
<1> DEFINE n == Cardinality(Chosen)
           S == {k \in 0..n : Delivering(q, n, k)}
<1>0. Tidy(log)
  BY FoldsTidy DEF Kept
<1>1. n \in Nat
  BY <1>0, ChosenFinite DEF Kept
<1>2. /\ q \in [1..n -> Chosen]
      /\ \A i, j \in 1..n : i # j => q[i].id # q[j].id
      /\ \A r \in Chosen : \E i \in 1..n : q[i] = r
  BY <1>0, <1>1, OrderedOnce
<1> HIDE DEF n
<1>3. 0 \in S
  <2>1. Delivering(q, n, 0) /\ 0 \in 0..n
    BY <1>1, <1>2, DeliveryStarts
  <2> QED
    BY <2>1
<1>4. \A k \in 0..(n - 1) : k \in S => k + 1 \in S
  <2> SUFFICES ASSUME NEW k \in 0..(n - 1), k \in S PROVE k + 1 \in S
    OBVIOUS
  <2>1. Delivering(q, n, k) /\ k + 1 \in 0..n
    BY <1>1
  <2>2. Delivering(q, n, k + 1)
    BY <1>1, <1>2, <2>1, DeliveryGoesOn
  <2> QED
    BY <2>1, <2>2
<1> HIDE DEF S
<1>5. \A k \in 0..n : k \in S
  BY <1>1, <1>3, <1>4, UpTo
<1>6. \A k \in 0..n : Delivering(q, n, k)
  BY <1>5 DEF S
<1>7. AheadBut(log \o Delivery(Chosen, q, n), spent.ends, {}, now)
  <2>1. n \in 0..n /\ (n + 1)..n = {}
    BY <1>1
  <2>2. {q[j].id : j \in (n + 1)..n} = {}
    BY <2>1
  <2>3. AheadBut(log \o Delivery(Chosen, q, n), spent.ends, {q[j].id : j \in (n + 1)..n}, now)
    BY <2>1, <1>6 DEF Delivering
  <2> QED
    BY <2>2, <2>3
<1> QED
  BY <1>6, <1>7 DEF n

(***************************************************************************)
(* The queue of transactions and the runtime.                               *)
(***************************************************************************)

Distinct(s) == \A i, j \in DOMAIN s : s[i] = s[j] => i = j
In(t, s) == \E i \in DOMAIN s : s[i] = t
Leads(t, s) == s # <<>> /\ Head(s) = t

\* A queue that something else joins.
LEMMA Joins ==
    ASSUME NEW T, NEW s \in Seq(T), NEW x \in T
    PROVE  /\ Append(s, x) \in Seq(T) /\ Append(s, x) # <<>>
           /\ Distinct(s) /\ ~In(x, s) => Distinct(Append(s, x))
           /\ \A t : In(t, Append(s, x)) => In(t, s) \/ t = x
           /\ \A t : Leads(t, s) => Leads(t, Append(s, x))
           /\ s = <<>> => Leads(x, Append(s, x))
<1> DEFINE p == Append(s, x)
           N == Len(s)
<1>1. /\ p \in Seq(T) /\ N \in Nat /\ Len(p) = N + 1
      /\ \A i \in 1..N : p[i] = s[i]
      /\ p[N + 1] = x
  BY AppendProperties, LenProperties
<1>2. DOMAIN p = 1..(N + 1) /\ DOMAIN s = 1..N
  BY <1>1, LenProperties
<1>3. p # <<>>
  BY <1>1, EmptySeq
<1>4. s # <<>> => Head(p) = Head(s)
  <2>1. s # <<>> => 1 \in 1..N
    BY <1>1, EmptySeq
  <2>2. Head(p) = p[1] /\ Head(s) = s[1]
    OBVIOUS
  <2> HIDE DEF p, N
  <2> QED
    BY <1>1, <2>1, <2>2
<1>5. s = <<>> => Head(p) = x
  <2>1. s = <<>> => N = 0
    BY EmptySeq
  <2>2. Head(p) = p[1]
    OBVIOUS
  <2> HIDE DEF p, N
  <2>3. s = <<>> => p[1] = x
    <3>1. s = <<>> => N + 1 = 1
      BY <2>1
    <3> QED
      BY <3>1, <1>1
  <2> QED
    BY <2>2, <2>3
<1> HIDE DEF p, N
<1>6. \A i \in 1..(N + 1) : i \in 1..N \/ i = N + 1
  BY <1>1
<1>7. ASSUME Distinct(s), ~In(x, s) PROVE Distinct(p)
  <2> SUFFICES ASSUME NEW i \in 1..(N + 1), NEW j \in 1..(N + 1), p[i] = p[j] PROVE i = j
    BY <1>2 DEF Distinct
  <2>1. CASE i \in 1..N /\ j \in 1..N
    BY <2>1, <1>1, <1>2, <1>7 DEF Distinct
  <2>2. CASE i = N + 1 /\ j \in 1..N
    BY <2>2, <1>1, <1>2, <1>7 DEF In
  <2>3. CASE i \in 1..N /\ j = N + 1
    BY <2>3, <1>1, <1>2, <1>7 DEF In
  <2> QED
    BY <2>1, <2>2, <2>3, <1>6
<1>8. ASSUME NEW t, In(t, p) PROVE In(t, s) \/ t = x
  BY <1>1, <1>2, <1>6, <1>8 DEF In
<1> QED
  BY <1>1, <1>3, <1>4, <1>5, <1>7, <1>8 DEF p, Leads

\* A queue whose first transaction ends.
LEMMA Leaves ==
    ASSUME NEW T, NEW s \in Seq(T), NEW x, Leads(x, s)
    PROVE  /\ Tail(s) \in Seq(T)
           /\ Distinct(s) => Distinct(Tail(s)) /\ ~In(x, Tail(s))
           /\ \A t : In(t, Tail(s)) => In(t, s)
<1> DEFINE p == Tail(s)
           N == Len(s)
<1>1. /\ p \in Seq(T) /\ N \in Nat /\ N # 0 /\ Len(p) = N - 1
      /\ \A i \in 1..(N - 1) : p[i] = s[i + 1]
  BY HeadTailProperties, LenProperties, EmptySeq DEF Leads
<1>2. DOMAIN p = 1..(N - 1) /\ DOMAIN s = 1..N
  BY <1>1, LenProperties
<1>3. x = s[1]
  BY DEF Leads
<1> HIDE DEF p, N
<1>4. 1 \in 1..N /\ \A i \in 1..(N - 1) : i + 1 \in 1..N /\ i + 1 # 1
  BY <1>1
<1>5. ASSUME Distinct(s) PROVE Distinct(p) /\ ~In(x, p)
  <2>1. ASSUME NEW i \in 1..(N - 1), NEW j \in 1..(N - 1), p[i] = p[j] PROVE i = j
    <3>1. i + 1 = j + 1
      BY <2>1, <1>1, <1>2, <1>4, <1>5 DEF Distinct
    <3> QED
      BY <3>1
  <2>2. ASSUME NEW i \in 1..(N - 1), p[i] = x PROVE FALSE
    BY <2>2, <1>1, <1>2, <1>3, <1>4, <1>5 DEF Distinct
  <2> QED
    BY <2>1, <2>2, <1>2 DEF Distinct, In
<1>6. \A t : In(t, p) => In(t, s)
  BY <1>1, <1>2, <1>4 DEF In
<1> QED
  BY <1>1, <1>5, <1>6 DEF p

RunStages == {"none", "queued", "preflight", "delivered", "undelivered", "barrier", "retiring"}
Inside == {"preflight", "delivered", "undelivered", "barrier"}
Runtimes ==
    [timer : Off..MaxDelay, requested : BOOLEAN, run : RunStages, goal : Nat,
     idleWait : BOOLEAN, stopping : BOOLEAN, faulted : BOOLEAN, neglected : BOOLEAN,
     queue : Seq(0..MaxCalls)]

\* A runtime is in the queue once, as long as it has a run; it is the first
\* there while its drive is on its way; a faulted one starts none, a disposed one
\* has no timer.
Sound(o) ==
    /\ o \in Runtimes /\ Distinct(o.queue)
    /\ In(Drive, o.queue) => o.run \notin {"none", "retiring"}
    /\ o.run \in Inside => Leads(Drive, o.queue)
    /\ o.faulted => o.run \in {"undelivered", "retiring", "none"}
    /\ o.stopping => o.timer = Off

\* What one runtime has of another: the calls behind its queue, and its first.
Keeps(o, p) ==
    /\ \A c \in Calls : In(c, p.queue) => In(c, o.queue)
    /\ \A t : Leads(t, o.queue) => Leads(t, p.queue)
    /\ p.stopping = o.stopping /\ p.faulted = o.faulted

\* A drive that is requested.
LEMMA Requested ==
    ASSUME NEW o, Sound(o)
    PROVE  Sound(RequestDrive(o)) /\ Keeps(o, RequestDrive(o)) /\ RequestDrive(o).goal = o.goal
<1> DEFINE c == [o EXCEPT !.timer = Off, !.neglected = FALSE]
           q == Append(o.queue, Drive)
<1>0. /\ o \in Runtimes /\ o.queue \in Seq(0..MaxCalls) /\ Drive \in 0..MaxCalls
      /\ Off \in Off..MaxDelay
  BY ScheduleAssumption DEF Sound, Runtimes, Drive, Off
<1>1. CASE o.stopping \/ o.faulted
  <2>1. RequestDrive(o) = o
    BY <1>1 DEF RequestDrive
  <2> QED
    BY <2>1 DEF Keeps
<1>2. CASE ~(o.stopping \/ o.faulted) /\ o.run # "none"
  <2>1. RequestDrive(o) = [o EXCEPT !.timer = Off, !.neglected = FALSE, !.requested = TRUE]
    BY <1>2, <1>0 DEF RequestDrive, Runtimes
  <2> DEFINE p == [o EXCEPT !.timer = Off, !.neglected = FALSE, !.requested = TRUE]
  <2>2. p \in Runtimes
    BY <1>0, Zenon DEF Runtimes
  <2>3. /\ p.queue = o.queue /\ p.run = o.run /\ p.stopping = o.stopping /\ p.faulted = o.faulted
        /\ p.goal = o.goal /\ p.timer = Off
    BY <1>0 DEF Runtimes
  <2> HIDE DEF p
  <2>4. Sound(p) /\ Keeps(o, p) /\ p.goal = o.goal
    BY <2>2, <2>3 DEF Sound, Keeps
  <2> QED
    BY <2>1, <2>4 DEF p
<1>3. CASE ~(o.stopping \/ o.faulted) /\ o.run = "none"
  <2> DEFINE p == [o EXCEPT !.timer = Off, !.neglected = FALSE, !.requested = FALSE,
                            !.run = "queued", !.queue = q]
  <2>1. RequestDrive(o) = p
    BY <1>3, <1>0 DEF RequestDrive, Runtimes
  <2>q. /\ q \in Seq(0..MaxCalls) /\ (Distinct(o.queue) /\ ~In(Drive, o.queue) => Distinct(q))
        /\ \A t : In(t, q) => In(t, o.queue) \/ t = Drive
        /\ \A t : Leads(t, o.queue) => Leads(t, q)
    BY <1>0, Joins
  <2> HIDE DEF q
  <2>2. p \in Runtimes
    BY <1>0, <2>q, Zenon DEF Runtimes, RunStages
  <2>3. /\ p.queue = q /\ p.run = "queued" /\ p.stopping = o.stopping /\ p.faulted = o.faulted
        /\ p.goal = o.goal /\ p.timer = Off
    BY <1>0 DEF Runtimes
  <2> HIDE DEF p
  <2>4. Distinct(q)
    BY <1>3, <2>q DEF Sound
  <2>5. Drive \notin Calls
    BY DEF Drive, Calls
  <2>6. Sound(p)
    BY <2>2, <2>3, <2>4, <1>3 DEF Sound, Inside
  <2>7. Keeps(o, p)
    BY <2>3, <2>5, <2>q DEF Keeps
  <2> QED
    BY <2>1, <2>3, <2>6, <2>7
<1> QED
  BY <1>1, <1>2, <1>3

\* A drive that ends.
LEMMA Ended ==
    ASSUME NEW o, Sound(o), Leads(Drive, o.queue)
    PROVE  /\ Sound(Leave(o)) /\ Leave(o).goal = 0
           /\ \A c \in Calls : In(c, Leave(o).queue) => In(c, o.queue)
           /\ Leave(o).stopping = o.stopping /\ Leave(o).faulted = o.faulted
<1> DEFINE t == Tail(o.queue)
           q == Append(t, Drive)
<1>0. /\ o \in Runtimes /\ o.queue \in Seq(0..MaxCalls) /\ Drive \in 0..MaxCalls
      /\ Drive \notin Calls /\ Distinct(o.queue)
  BY ScheduleAssumption DEF Sound, Runtimes, Drive, Calls
<1>1. /\ t \in Seq(0..MaxCalls) /\ Distinct(t) /\ ~In(Drive, t)
      /\ \A x : In(x, t) => In(x, o.queue)
  BY <1>0, Leaves
<1>2. CASE o.requested /\ ~o.stopping /\ ~o.faulted
  <2> DEFINE p == [o EXCEPT !.goal = 0, !.requested = FALSE, !.neglected = FALSE,
                            !.run = "queued", !.queue = q]
  <2>1. Leave(o) = p
    BY <1>2, <1>0 DEF Leave, Runtimes
  <2> HIDE DEF t
  <2>q. q \in Seq(0..MaxCalls) /\ Distinct(q) /\ \A x : In(x, q) => In(x, t) \/ x = Drive
    BY <1>0, <1>1, Joins
  <2> HIDE DEF q
  <2>2. p \in Runtimes
    BY <1>0, <2>q, Zenon DEF Runtimes, RunStages
  <2>3. /\ p.queue = q /\ p.run = "queued" /\ p.stopping = o.stopping /\ p.faulted = o.faulted
        /\ p.goal = 0 /\ p.timer = o.timer
    BY <1>0 DEF Runtimes
  <2> HIDE DEF p
  <2>4. Sound(p)
    BY <2>2, <2>3, <2>q, <1>2 DEF Sound, Inside
  <2> QED
    BY <2>1, <2>3, <2>4, <2>q, <1>0, <1>1
<1>3. CASE ~(o.requested /\ ~o.stopping /\ ~o.faulted)
  <2> DEFINE p == [o EXCEPT !.goal = 0, !.run = "retiring", !.queue = t]
  <2>1. Leave(o) = p
    BY <1>3, <1>0 DEF Leave, Runtimes
  <2> HIDE DEF t
  <2>2. p \in Runtimes
    BY <1>0, <1>1, Zenon DEF Runtimes, RunStages
  <2>3. /\ p.queue = t /\ p.run = "retiring" /\ p.stopping = o.stopping /\ p.faulted = o.faulted
        /\ p.goal = 0 /\ p.timer = o.timer
    BY <1>0 DEF Runtimes
  <2> HIDE DEF p
  <2>4. Sound(p)
    BY <2>2, <2>3, <1>1 DEF Sound, Inside
  <2> QED
    BY <2>1, <2>3, <2>4, <1>1
<1> QED
  BY <1>2, <1>3

\* The queue without the call in front.
Popped(o) == [o EXCEPT !.queue = Tail(@)]

\* A call that ends.
LEMMA Answered ==
    ASSUME NEW o, Sound(o), NEW c \in Calls, Leads(c, o.queue)
    PROVE  /\ Sound(Popped(o)) /\ Popped(o).goal = o.goal
           /\ \A x : In(x, Popped(o).queue) => In(x, o.queue) /\ x # c
           /\ Popped(o).stopping = o.stopping /\ Popped(o).faulted = o.faulted
<1> DEFINE t == Tail(o.queue)
           p == [o EXCEPT !.queue = t]
<1>0. /\ o \in Runtimes /\ o.queue \in Seq(0..MaxCalls) /\ Distinct(o.queue) /\ c # Drive
  BY DEF Sound, Runtimes, Drive, Calls
<1>1. /\ t \in Seq(0..MaxCalls) /\ Distinct(t) /\ ~In(c, t)
      /\ \A x : In(x, t) => In(x, o.queue)
  BY <1>0, Leaves
<1>2. Popped(o) = p
  BY DEF Popped
<1> HIDE DEF t
<1>3. p \in Runtimes
  BY <1>0, <1>1, Zenon DEF Runtimes
<1>4. /\ p.queue = t /\ p.run = o.run /\ p.stopping = o.stopping /\ p.faulted = o.faulted
      /\ p.goal = o.goal /\ p.timer = o.timer
  BY <1>0 DEF Runtimes
<1> HIDE DEF p
<1>5. o.run \notin Inside
  BY <1>0 DEF Sound, Leads
<1>6. Sound(p)
  BY <1>1, <1>3, <1>4, <1>5 DEF Sound
<1> QED
  BY <1>1, <1>2, <1>4, <1>6

\* A call that joins.
LEMMA Joined ==
    ASSUME NEW o, Sound(o), NEW c \in Calls, ~In(c, o.queue)
    PROVE  LET p == [o EXCEPT !.queue = Append(@, c)] IN
           /\ Sound(p) /\ p.goal = o.goal
           /\ \A x : In(x, p.queue) => In(x, o.queue) \/ x = c
           /\ \A x : Leads(x, o.queue) => Leads(x, p.queue)
           /\ p.stopping = o.stopping /\ p.faulted = o.faulted
<1> DEFINE q == Append(o.queue, c)
           p == [o EXCEPT !.queue = q]
<1>0. /\ o \in Runtimes /\ o.queue \in Seq(0..MaxCalls) /\ Distinct(o.queue) /\ c # Drive
      /\ c \in 0..MaxCalls
  BY ScheduleAssumption DEF Sound, Runtimes, Drive, Calls
<1>1. /\ q \in Seq(0..MaxCalls) /\ Distinct(q)
      /\ \A x : In(x, q) => In(x, o.queue) \/ x = c
      /\ \A x : Leads(x, o.queue) => Leads(x, q)
  BY <1>0, Joins
<1> HIDE DEF q
<1>3. p \in Runtimes
  BY <1>0, <1>1, Zenon DEF Runtimes
<1>4. /\ p.queue = q /\ p.run = o.run /\ p.stopping = o.stopping /\ p.faulted = o.faulted
      /\ p.goal = o.goal /\ p.timer = o.timer
  BY <1>0 DEF Runtimes
<1> HIDE DEF p
<1>6. Sound(p)
  BY <1>0, <1>1, <1>3, <1>4 DEF Sound
<1>7. p = [o EXCEPT !.queue = Append(@, c)]
  BY DEF p, q
<1> QED
  BY <1>1, <1>4, <1>6, <1>7

(***************************************************************************)
(* The inductive invariant.                                                 *)
(***************************************************************************)

Agents == [phase : {"idle", "turn", "busy", "maintenance"}, wake : BOOLEAN]
Places ==
    {p \in [stage : {"none", "queued", "preflight", "barrier"},
            op : {"none", "create", "list", "delete"}, id : Nat, goal : Nat] :
       p.stage # "none" => p.op # "none"}

ScheduleTypes ==
    /\ now \in 0..Horizon /\ log \in Seq(Events) /\ stored \in 0..Len(log)
    /\ agent \in Agents /\ calls \in [Calls -> Places] /\ confirmed \in Nat
    /\ spent \in [activity : Nat, troubles : Nat, ends : Nat]

\* A call is in the queue of o only while it runs, and in front of it behind its
\* preflight.
Placed(o, cs) ==
    \A c \in Calls :
        /\ In(c, o.queue) => cs[c].stage # "none"
        /\ cs[c].stage \in {"preflight", "barrier"} => Leads(c, o.queue)

\* A flush is asked for what is logged: by a call in its preflight, for all of it.
GoalsReached ==
    /\ runtime.goal <= Len(log)
    /\ \A c \in Calls : /\ calls[c].goal <= Len(log)
                        /\ calls[c].stage = "preflight" => calls[c].goal = Len(log)

\* The log is sound; and until a dispatch is lost, what this run of the agent
\* queued is behind what is active.
LogSound ==
    /\ Folds(log) /\ Backed(log) /\ OnceInARun(log) /\ RunsUpTo(log, spent.ends)
    /\ runtime.faulted \/ AheadBut(log, spent.ends, {}, 0)

ScheduleInv ==
    /\ ScheduleTypes /\ Sound(runtime) /\ Placed(runtime, calls) /\ GoalsReached
    /\ LogSound /\ StopsForGood /\ AnswersAreDurable

\* With nothing excepted the instant does not matter.
LEMMA AheadAny ==
    ASSUME NEW es, NEW run, NEW a, NEW b, AheadBut(es, run, {}, a)
    PROVE  AheadBut(es, run, {}, b)
BY DEF AheadBut

\* The fields of the state.
LEMMA Fields ==
    ASSUME ScheduleInv
    PROVE  /\ now \in 0..Horizon /\ log \in Seq(Events) /\ stored \in 0..Len(log)
           /\ Len(log) \in Nat
           /\ stored \in Nat /\ confirmed \in Nat /\ confirmed <= stored /\ stored <= Len(log)
           /\ agent \in Agents /\ calls \in [Calls -> Places]
           /\ spent \in [activity : Nat, troubles : Nat, ends : Nat]
           /\ spent.ends \in Nat /\ runtime \in Runtimes /\ runtime.goal \in Nat
           /\ runtime.goal <= Len(log)
           /\ \A c \in Calls : calls[c].goal \in Nat /\ calls[c].goal <= Len(log)
                               /\ calls[c].id \in Nat
           /\ Kept /\ Tidy(log)
<1>1. Len(log) \in Nat /\ log \in Seq(Events)
  BY LenProperties DEF ScheduleInv, ScheduleTypes
<1>2. stored \in Nat /\ stored <= Len(log) /\ stored \in 0..Len(log)
  BY <1>1 DEF ScheduleInv, ScheduleTypes
<1>3. spent \in [activity : Nat, troubles : Nat, ends : Nat] /\ spent.ends \in Nat
  BY DEF ScheduleInv, ScheduleTypes
<1>4. runtime \in Runtimes /\ runtime.goal \in Nat /\ runtime.goal <= Len(log)
  BY DEF ScheduleInv, Sound, Runtimes, GoalsReached
<1>5. calls \in [Calls -> Places]
  BY DEF ScheduleInv, ScheduleTypes
<1>6. \A c \in Calls : calls[c].goal \in Nat /\ calls[c].goal <= Len(log) /\ calls[c].id \in Nat
  BY <1>5 DEF ScheduleInv, GoalsReached, Places
<1>7. Kept
  BY <1>1, <1>3 DEF ScheduleInv, ScheduleTypes, LogSound, Kept
<1>8. Tidy(log)
  BY <1>7, FoldsTidy DEF Kept
<1>9. now \in 0..Horizon /\ agent \in Agents /\ confirmed \in Nat /\ confirmed <= stored
  BY DEF ScheduleInv, ScheduleTypes, AnswersAreDurable
<1> QED
  BY <1>1, <1>2, <1>3, <1>4, <1>5, <1>6, <1>7, <1>8, <1>9

\* The runs of reminders are numbers.
LEMMA ItemsRun ==
    ASSUME NEW es \in Seq(Events), NEW i \in Reminders(es)
    PROVE  es[i].run \in Int
<1>1. i \in 1..Len(es) /\ es[i].op = "reminder"
  BY LenProperties DEF Reminders
<1>2. es[i] \in Events
  BY <1>1, ElementOfSeq
<1> QED
  BY <1>1, <1>2, EventHas

\* What a step may do to the runtime and the calls.
Moves(o, cs) ==
    /\ Sound(o) /\ Placed(o, cs) /\ cs \in [Calls -> Places]
    /\ o.goal <= Len(log) /\ o.stopping = runtime.stopping /\ o.faulted = runtime.faulted
    /\ \A c \in Calls : /\ cs[c].goal <= Len(log)
                        /\ cs[c].stage = "preflight" => cs[c].goal = Len(log)

\* How the bounds are used.
Spends == spent' \in [activity : Nat, troubles : Nat, ends : Nat] /\ spent'.ends = spent.ends

\* A step that logs nothing.
LEMMA QuietStep ==
    ASSUME ScheduleInv, log' = log, now' \in 0..Horizon, Spends, agent' \in Agents,
           stored' \in 0..Len(log), Moves(runtime', calls'),
           confirmed' \in Nat, confirmed' <= stored'
    PROVE  ScheduleInv'
<1>1. ScheduleTypes'
  BY Fields DEF ScheduleTypes, Moves, Spends
<1>2. Sound(runtime') /\ Placed(runtime', calls')
  BY DEF Moves
<1>3. GoalsReached'
  BY DEF GoalsReached, Moves
<1>4. LogSound'
  <2>1. runtime'.faulted = runtime.faulted /\ spent'.ends = spent.ends
    BY DEF Moves, Spends
  <2>2. /\ Folds(log) /\ Backed(log) /\ OnceInARun(log) /\ RunsUpTo(log, spent.ends)
        /\ runtime.faulted \/ AheadBut(log, spent.ends, {}, 0)
    BY DEF ScheduleInv, LogSound
  <2>3. /\ Folds(log') /\ Backed(log') /\ OnceInARun(log') /\ RunsUpTo(log', spent'.ends)
        /\ runtime'.faulted \/ AheadBut(log', spent'.ends, {}, 0)
    BY <2>1, <2>2
  <2> QED
    BY <2>3 DEF LogSound
<1>5. StopsForGood'
  <2>1. runtime'.stopping = runtime.stopping /\ spent'.ends = spent.ends
        /\ (runtime'.stopping => runtime'.timer = Off)
    BY DEF Moves, Spends, Sound
  <2>2. runtime.stopping => \A i \in Reminders(log) : log[i].run < spent.ends
    BY DEF ScheduleInv, StopsForGood
  <2>3. runtime'.stopping => \A i \in Reminders(log') : log'[i].run < spent'.ends
    BY <2>1, <2>2
  <2> QED
    BY <2>1, <2>3 DEF StopsForGood
<1>6. AnswersAreDurable'
  BY DEF AnswersAreDurable
<1> QED
  BY <1>1, <1>2, <1>3, <1>4, <1>5, <1>6 DEF ScheduleInv

\* The bounds are used like this.
LEMMA Spending ==
    ASSUME ScheduleInv, UNCHANGED spent \/ Trouble \/ Activity
    PROVE  Spends
<1>1. spent \in [activity : Nat, troubles : Nat, ends : Nat]
  BY Fields
<1>2. CASE UNCHANGED spent
  BY <1>1, <1>2 DEF Spends
<1>3. CASE Trouble
  <2>1. spent' = [spent EXCEPT !.troubles = spent.troubles + 1] /\ spent.troubles + 1 \in Nat
    BY <1>1, <1>3 DEF Trouble
  <2> QED
    BY <1>1, <2>1 DEF Spends
<1>4. CASE Activity
  <2>1. spent' = [spent EXCEPT !.activity = spent.activity + 1] /\ spent.activity + 1 \in Nat
    BY <1>1, <1>4 DEF Activity
  <2> QED
    BY <1>1, <2>1 DEF Spends
<1> QED
  BY <1>2, <1>3, <1>4

\* A flush leaves the durable prefix inside the log.
LEMMA FlushedIs ==
    ASSUME ScheduleInv, NEW n \in Nat, n <= Len(log), Flushed(n) \/ FlushFails
    PROVE  /\ stored' \in 0..Len(log) /\ stored <= stored' /\ Spends
           /\ Flushed(n) => n <= stored'
<1>1. /\ stored \in Nat /\ stored <= Len(log) /\ Len(log) \in Nat
  BY Fields
<1>0. Flushed(n) => n <= stored'
  BY <1>1 DEF Flushed
<1>2. CASE Flushed(n)
  <2>1. UNCHANGED spent /\ stored' = IF n > stored THEN n ELSE stored
    BY <1>2 DEF Flushed
  <2>2. stored' \in 0..Len(log) /\ stored <= stored' /\ n <= stored'
    BY <2>1, <1>1
  <2> QED
    BY <2>1, <2>2, Spending
<1>3. CASE FlushFails
  <2>1. Trouble /\ stored' = stored
    BY <1>3 DEF FlushFails
  <2> QED
    BY <2>1, <1>0, <1>1, Spending
<1> QED
  BY <1>2, <1>3

(***************************************************************************)
(* The runtime's actions.                                                   *)
(***************************************************************************)

\* The runtime is changed aside from its queue and its run.
LEMMA Aside ==
    ASSUME ScheduleInv, NEW p, Sound(p), p.queue = runtime.queue, p.goal <= Len(log),
           p.stopping = runtime.stopping, p.faulted = runtime.faulted
    PROVE  Moves(p, calls)
<1>1. Placed(p, calls)
  BY DEF ScheduleInv, Placed
<1>2. calls \in [Calls -> Places]
  BY Fields
<1> QED
  BY <1>1, <1>2 DEF Moves, ScheduleInv, GoalsReached

\* A drive is requested of a runtime that was changed aside.
LEMMA RequestMoves ==
    ASSUME ScheduleInv, NEW p, Sound(p), p.queue = runtime.queue, p.goal <= Len(log),
           p.stopping = runtime.stopping, p.faulted = runtime.faulted
    PROVE  Moves(RequestDrive(p), calls)
<1>1. Sound(RequestDrive(p)) /\ Keeps(p, RequestDrive(p)) /\ RequestDrive(p).goal = p.goal
  BY Requested
<1> DEFINE o == RequestDrive(p)
<1> HIDE DEF o
<1>2. Placed(o, calls)
  <2>1. /\ \A c \in Calls : In(c, o.queue) => In(c, runtime.queue)
        /\ \A t : Leads(t, runtime.queue) => Leads(t, o.queue)
    BY <1>1 DEF Keeps, o
  <2> QED
    BY <2>1 DEF ScheduleInv, Placed
<1>3. calls \in [Calls -> Places]
  BY Fields
<1>4. /\ Sound(o) /\ o.goal <= Len(log)
      /\ o.stopping = runtime.stopping /\ o.faulted = runtime.faulted
  BY <1>1 DEF Keeps, o
<1>5. Moves(o, calls)
  BY <1>2, <1>3, <1>4 DEF Moves, ScheduleInv, GoalsReached
<1> QED
  BY <1>5 DEF o

\* A drive ends, of a runtime that was changed aside.
LEMMA LeaveMoves ==
    ASSUME ScheduleInv, NEW p, Sound(p), Leads(Drive, p.queue), p.stopping = runtime.stopping,
           Leads(Drive, runtime.queue), p.faulted = runtime.faulted,
           \A c \in Calls : In(c, p.queue) => In(c, runtime.queue)
    PROVE  Moves(Leave(p), calls)
<1> DEFINE o == Leave(p)
<1>1. /\ Sound(o) /\ o.goal = 0 /\ \A c \in Calls : In(c, o.queue) => In(c, p.queue)
      /\ o.stopping = p.stopping /\ o.faulted = p.faulted
  BY Ended
<1> HIDE DEF o
<1>2. ASSUME NEW c \in Calls PROVE calls[c].stage \notin {"preflight", "barrier"}
  <2>1. c # Drive
    BY DEF Calls, Drive
  <2>2. calls[c].stage \in {"preflight", "barrier"} => Leads(c, runtime.queue)
    BY DEF ScheduleInv, Placed
  <2> QED
    BY <2>1, <2>2 DEF Leads
<1>3. Placed(o, calls)
  BY <1>1, <1>2 DEF ScheduleInv, Placed
<1>4. calls \in [Calls -> Places] /\ o.goal <= Len(log)
  BY <1>1, Fields
<1>5. Moves(o, calls)
  BY <1>1, <1>3, <1>4 DEF Moves, ScheduleInv, GoalsReached
<1> QED
  BY <1>5 DEF o

\* The timer of a runtime is turned off.
LEMMA Silenced ==
    ASSUME NEW o, Sound(o)
    PROVE  LET p == [o EXCEPT !.timer = Off] IN
           /\ Sound(p) /\ p.queue = o.queue /\ p.goal = o.goal
           /\ p.stopping = o.stopping /\ p.faulted = o.faulted /\ p.run = o.run
<1> DEFINE p == [o EXCEPT !.timer = Off]
<1>0. o \in Runtimes /\ Off \in Off..MaxDelay
  BY ScheduleAssumption DEF Sound, Off
<1>1. p \in Runtimes
  BY <1>0, Zenon DEF Runtimes
<1>2. /\ p.queue = o.queue /\ p.run = o.run /\ p.stopping = o.stopping /\ p.faulted = o.faulted
      /\ p.goal = o.goal /\ p.timer = Off
  BY <1>0 DEF Runtimes
<1> HIDE DEF p
<1>3. Sound(p)
  BY <1>1, <1>2 DEF Sound
<1> QED
  BY <1>2, <1>3 DEF p

\* A runtime is changed aside from everything the invariant speaks of.
LEMMA Marked ==
    ASSUME NEW o, Sound(o), NEW b \in BOOLEAN
    PROVE  LET p == [o EXCEPT !.neglected = b]
               q == [o EXCEPT !.idleWait = b]
           IN  /\ Sound(p) /\ p.queue = o.queue /\ p.goal = o.goal /\ p.run = o.run
               /\ p.stopping = o.stopping /\ p.faulted = o.faulted
               /\ Sound(q) /\ q.queue = o.queue /\ q.goal = o.goal /\ q.run = o.run
               /\ q.stopping = o.stopping /\ q.faulted = o.faulted
<1> DEFINE p == [o EXCEPT !.neglected = b]
           q == [o EXCEPT !.idleWait = b]
<1>0. o \in Runtimes
  BY DEF Sound
<1>1. p \in Runtimes /\ q \in Runtimes
  BY <1>0, Zenon DEF Runtimes
<1>2. /\ p.queue = o.queue /\ p.run = o.run /\ p.stopping = o.stopping /\ p.faulted = o.faulted
      /\ p.goal = o.goal /\ p.timer = o.timer
      /\ q.queue = o.queue /\ q.run = o.run /\ q.stopping = o.stopping /\ q.faulted = o.faulted
      /\ q.goal = o.goal /\ q.timer = o.timer
  BY <1>0 DEF Runtimes
<1> HIDE DEF p, q
<1>3. Sound(p)
  BY <1>1, <1>2 DEF Sound
<1>4. Sound(q)
  BY <1>1, <1>2 DEF Sound
<1> QED
  BY <1>2, <1>3, <1>4 DEF p, q

\* The runtime stands in front of the queue.
LEMMA InFront ==
    ASSUME NEW t
    PROVE  AtHead(t) <=> Leads(t, runtime.queue)
BY DEF AtHead, Leads

\* driveOnce starts.
LEMMA DriveStartsKeeps ==
    ASSUME ScheduleInv, DriveStarts
    PROVE  ScheduleInv'
<1>1. /\ Leads(Drive, runtime.queue) /\ runtime.run = "queued"
      /\ UNCHANGED <<now, log, stored, agent, calls, confirmed, spent>>
  BY InFront DEF DriveStarts, Driving, tools
<1>2. Sound(runtime)
  BY DEF ScheduleInv
<1>3. CASE runtime.stopping
  <2>1. runtime' = Leave(runtime)
    BY <1>3 DEF DriveStarts
  <2>2. Moves(runtime', calls')
    BY <1>1, <1>2, <2>1, LeaveMoves
  <2> QED
    BY <1>1, <2>2, Fields, Spending, QuietStep
<1>4. CASE ~runtime.stopping
  <2> DEFINE n == Len(log)
             p == [runtime EXCEPT !.timer = Off, !.run = "preflight", !.goal = n]
  <2>1. runtime' = p
    BY <1>4 DEF DriveStarts
  <2>2. n \in Nat /\ runtime \in Runtimes /\ Off \in Off..MaxDelay
    BY Fields, ScheduleAssumption DEF Off
  <2> HIDE DEF n
  <2>3. p \in Runtimes
    BY <2>2, Zenon DEF Runtimes, RunStages
  <2>4. /\ p.queue = runtime.queue /\ p.run = "preflight" /\ p.stopping = runtime.stopping
        /\ p.faulted = runtime.faulted /\ p.goal = n /\ p.timer = Off
    BY <2>2 DEF Runtimes
  <2> HIDE DEF p
  <2>5. Sound(p)
    BY <2>3, <2>4, <1>1, <1>2 DEF Sound
  <2>6. Moves(p, calls)
    <3>1. p.goal <= Len(log)
      BY <2>2, <2>4 DEF n
    <3> QED
      BY <3>1, <2>4, <2>5, Aside
  <2>7. Moves(runtime', calls')
    BY <2>1, <2>6, <1>1
  <2> QED
    BY <1>1, <2>7, Fields, Spending, QuietStep
<1> QED
  BY <1>3, <1>4

\* The preflight's flush fails.
LEMMA PreflightFailsKeeps ==
    ASSUME ScheduleInv, PreflightFails
    PROVE  ScheduleInv'
<1>1. /\ Leads(Drive, runtime.queue) /\ UNCHANGED <<now, log, agent, calls, confirmed>>
      /\ FlushFails /\ runtime' = GiveUp(runtime)
  BY InFront DEF PreflightFails, Driving, tools
<1> DEFINE p == [runtime EXCEPT !.neglected = TRUE]
<1>2. /\ Sound(p) /\ p.queue = runtime.queue /\ p.stopping = runtime.stopping
      /\ p.faulted = runtime.faulted
  BY Marked DEF ScheduleInv
<1>3. runtime' = Leave(p)
  BY <1>1 DEF GiveUp
<1> HIDE DEF p
<1>4. Moves(runtime', calls')
  BY <1>1, <1>2, <1>3, LeaveMoves
<1>5. stored' = stored /\ Spends
  BY <1>1, Spending DEF FlushFails
<1> QED
  BY <1>1, <1>4, <1>5, Fields, QuietStep

\* The timer of a runtime whose targets lie ahead is armed within its reach.
LEMMA Armed ==
    ASSUME ScheduleInv, ~runtime.stopping, Due = {}
    PROVE  LET p == Arm(runtime) IN
           /\ Sound(p) /\ p.queue = runtime.queue
           /\ p.stopping = runtime.stopping /\ p.faulted = runtime.faulted
<1>0. Sound(runtime) /\ runtime \in Runtimes /\ Tidy(log) /\ now \in 0..Horizon
  BY Fields DEF ScheduleInv
<1>1. CASE ActiveRecords(log) = {}
  <2>1. Arm(runtime) = runtime
    BY <1>1 DEF Arm
  <2> QED
    BY <1>0, <2>1, Zenon
<1>2. CASE ActiveRecords(log) # {}
  <2> DEFINE A == {r.at : r \in ActiveRecords(log)}
             t == Min({MaxDelay, Min(A) - now})
             p == [runtime EXCEPT !.timer = t]
  <2>1. Arm(runtime) = p
    BY <1>2 DEF Arm
  <2>2. A \in SUBSET Nat /\ A # {} /\ \A x \in A : x > now
    <3>1. \A r \in ActiveRecords(log) : r.at \in 0..Horizon
      BY <1>0 DEF Tidy, ActiveTypes
    <3>2. \A r \in ActiveRecords(log) : r.at > now
      BY <1>0, <3>1, ScheduleAssumption DEF Due
    <3>3. \A r \in ActiveRecords(log) : r.at \in Nat
      BY <3>1, ScheduleAssumption
    <3> QED
      BY <3>2, <3>3, <1>2
  <2> HIDE DEF A
  <2>3. Min(A) \in A
    BY <2>2, LeastIs
  <2>4. Min(A) - now \in Nat /\ MaxDelay \in Nat
    <3>1. Min(A) \in Nat /\ Min(A) > now
      BY <2>2, <2>3
    <3>2. now \in Nat /\ MaxDelay \in Nat
      BY <1>0, ScheduleAssumption
    <3> QED
      BY <3>1, <3>2
  <2> DEFINE d == Min(A) - now
  <2>5. t = Min({MaxDelay, d})
    OBVIOUS
  <2> HIDE DEF d
  <2>6. Min({MaxDelay, d}) \in {MaxDelay, d} /\ Min({MaxDelay, d}) <= MaxDelay
    <3>1. {MaxDelay, d} \in SUBSET Nat /\ {MaxDelay, d} # {} /\ MaxDelay \in {MaxDelay, d}
      BY <2>4 DEF d
    <3> QED
      BY <3>1, LeastIs
  <2>7. t \in Off..MaxDelay
    BY <2>4, <2>5, <2>6 DEF d, Off
  <2> HIDE DEF t
  <2>8. p \in Runtimes
    BY <1>0, <2>7, Zenon DEF Runtimes
  <2>9. /\ p.queue = runtime.queue /\ p.run = runtime.run /\ p.stopping = runtime.stopping
        /\ p.faulted = runtime.faulted
    BY <1>0 DEF Runtimes
  <2> HIDE DEF p
  <2>10. Sound(p)
    BY <1>0, <2>8, <2>9 DEF Sound
  <2> QED
    BY <2>1, <2>9, <2>10
<1> QED
  BY <1>1, <1>2

\* Behind the preflight there is nothing to deliver, or not now.
LEMMA DriveRestsKeeps ==
    ASSUME ScheduleInv, DriveRests
    PROVE  ScheduleInv'
<1>1. /\ Leads(Drive, runtime.queue) /\ UNCHANGED <<now, log, agent, calls, confirmed>>
      /\ Flushed(runtime.goal)
  BY InFront DEF DriveRests, Driving, tools
<1>2. stored' \in 0..Len(log) /\ stored <= stored' /\ Spends
  BY <1>1, Fields, FlushedIs
<1>0. Sound(runtime)
  BY DEF ScheduleInv
<1>3. \E p : /\ Sound(p) /\ p.queue = runtime.queue /\ p.stopping = runtime.stopping
             /\ p.faulted = runtime.faulted /\ runtime' = Leave(p)
  <2>1. CASE ~Runnable /\ runtime' = Leave(runtime)
    BY <2>1, <1>0
  <2>2. CASE Runnable /\ Due = {} /\ runtime' = Leave(Arm(runtime))
    BY <2>2, Armed DEF Runnable
  <2>3. CASE runtime' = Leave(WaitForIdle(runtime))
    <3> DEFINE p == [runtime EXCEPT !.idleWait = TRUE]
    <3>1. /\ Sound(p) /\ p.queue = runtime.queue /\ p.stopping = runtime.stopping
          /\ p.faulted = runtime.faulted
      BY <1>0, Marked
    <3>2. runtime' = Leave(p)
      BY <2>3 DEF WaitForIdle
    <3> HIDE DEF p
    <3> QED
      BY <3>1, <3>2
  <2> QED
    BY <2>1, <2>2, <2>3 DEF DriveRests
<1>4. Moves(runtime', calls')
  <2>1. PICK p : /\ Sound(p) /\ p.queue = runtime.queue /\ p.stopping = runtime.stopping
                 /\ p.faulted = runtime.faulted /\ runtime' = Leave(p)
    BY <1>3
  <2> QED
    BY <1>1, <2>1, LeaveMoves
<1>5. /\ now \in 0..Horizon /\ agent \in Agents /\ confirmed \in Nat /\ confirmed <= stored
      /\ stored \in Int /\ stored' \in Int
  BY Fields, <1>2
<1>6. confirmed <= stored'
  BY <1>2, <1>5
<1> QED
  BY <1>1, <1>2, <1>4, <1>5, <1>6, QuietStep

\* A maintenance task ends.
LEMMA MaintenanceEndsKeeps ==
    ASSUME ScheduleInv, MaintenanceEnds
    PROVE  ScheduleInv'
<1>1. /\ runtime.run \in {"delivered", "undelivered"}
      /\ UNCHANGED <<now, log, stored, calls, confirmed, spent>> /\ agent' = Freed
      /\ runtime' = IF runtime.run = "delivered"
                  THEN [runtime EXCEPT !.run = "barrier", !.goal = Len(log)]
                  ELSE Leave(runtime)
  BY DEF MaintenanceEnds, tools
<1>2. Sound(runtime) /\ Leads(Drive, runtime.queue)
  BY <1>1 DEF ScheduleInv, Sound, Inside
<1>3. agent' \in Agents
  BY <1>1 DEF Freed, Agents
<1>4. Moves(runtime', calls')
  <2>1. CASE runtime.run = "delivered"
    <3> DEFINE n == Len(log)
               p == [runtime EXCEPT !.run = "barrier", !.goal = n]
    <3>1. runtime' = p
      BY <1>1, <2>1
    <3>2. n \in Nat /\ runtime \in Runtimes
      BY Fields
    <3> HIDE DEF n
    <3>3. p \in Runtimes
      BY <3>2, Zenon DEF Runtimes, RunStages
    <3>4. /\ p.queue = runtime.queue /\ p.run = "barrier" /\ p.stopping = runtime.stopping
          /\ p.faulted = runtime.faulted /\ p.goal = n /\ p.timer = runtime.timer
      BY <3>2 DEF Runtimes
    <3> HIDE DEF p
    <3>5. Sound(p)
      BY <3>3, <3>4, <1>2, <2>1 DEF Sound
    <3>6. p.goal <= Len(log)
      BY <3>2, <3>4 DEF n
    <3>7. Moves(p, calls)
      BY <3>4, <3>5, <3>6, Aside
    <3> QED
      BY <1>1, <3>1, <3>7
  <2>2. CASE runtime.run # "delivered"
    <3>1. runtime' = Leave(runtime)
      BY <1>1, <2>2
    <3>2. Moves(Leave(runtime), calls)
      BY <1>2, LeaveMoves
    <3> QED
      BY <1>1, <3>1, <3>2
  <2> QED
    BY <2>1, <2>2
<1> QED
  BY <1>1, <1>3, <1>4, Fields, Spending, QuietStep

\* The barrier behind a delivery settles.
LEMMA BarrierEndsKeeps ==
    ASSUME ScheduleInv, BarrierEnds
    PROVE  ScheduleInv'
<1>1. /\ Leads(Drive, runtime.queue) /\ UNCHANGED <<now, log, agent, calls, confirmed>>
      /\ \/ Flushed(runtime.goal) /\ runtime' = Leave(RequestDrive(runtime))
         \/ FlushFails /\ runtime' = GiveUp(runtime)
  BY InFront DEF BarrierEnds, Driving, tools
<1>0. Sound(runtime)
  BY DEF ScheduleInv
<1>2. stored' \in 0..Len(log) /\ stored <= stored' /\ Spends
  BY <1>1, Fields, FlushedIs
<1>3. Moves(runtime', calls')
  <2>1. CASE runtime' = Leave(RequestDrive(runtime))
    <3> DEFINE p == RequestDrive(runtime)
    <3>1. Sound(p) /\ Keeps(runtime, p)
      BY <1>0, Requested
    <3> HIDE DEF p
    <3>2. /\ Leads(Drive, p.queue) /\ p.stopping = runtime.stopping /\ p.faulted = runtime.faulted
          /\ \A c \in Calls : In(c, p.queue) => In(c, runtime.queue)
      BY <1>1, <3>1 DEF Keeps
    <3>3. Moves(Leave(p), calls)
      BY <1>1, <3>1, <3>2, LeaveMoves
    <3> QED
      BY <1>1, <2>1, <3>3 DEF p
  <2>2. CASE runtime' = GiveUp(runtime)
    <3> DEFINE p == [runtime EXCEPT !.neglected = TRUE]
    <3>1. /\ Sound(p) /\ p.queue = runtime.queue /\ p.stopping = runtime.stopping
          /\ p.faulted = runtime.faulted
      BY <1>0, Marked
    <3>2. runtime' = Leave(p)
      BY <2>2 DEF GiveUp
    <3> HIDE DEF p
    <3> QED
      BY <1>1, <3>1, <3>2, LeaveMoves
  <2> QED
    BY <1>1, <2>1, <2>2
<1>5. /\ now \in 0..Horizon /\ agent \in Agents /\ confirmed \in Nat /\ confirmed <= stored
      /\ stored \in Int /\ stored' \in Int
  BY Fields, <1>2
<1>6. confirmed <= stored'
  BY <1>2, <1>5
<1> QED
  BY <1>1, <1>2, <1>3, <1>5, <1>6, QuietStep

\* The loop of drives retires.
LEMMA RetireKeeps ==
    ASSUME ScheduleInv, Retire
    PROVE  ScheduleInv'
<1>1. /\ runtime.run = "retiring" /\ runtime' = Retired
      /\ UNCHANGED <<now, log, stored, agent, calls, confirmed, spent>>
  BY DEF Retire, tools
<1> DEFINE p == [runtime EXCEPT !.run = "none"]
<1>2. runtime' = IF p.requested THEN RequestDrive(p) ELSE p
  BY <1>1 DEF Retired
<1>3. runtime \in Runtimes /\ Sound(runtime)
  BY Fields DEF ScheduleInv
<1>4. p \in Runtimes
  BY <1>3, Zenon DEF Runtimes, RunStages
<1>5. /\ p.queue = runtime.queue /\ p.run = "none" /\ p.stopping = runtime.stopping
      /\ p.faulted = runtime.faulted /\ p.goal = runtime.goal /\ p.timer = runtime.timer
  BY <1>3 DEF Runtimes
<1> HIDE DEF p
<1>6. Sound(p)
  BY <1>1, <1>3, <1>4, <1>5 DEF Sound, Inside
<1>7. p.goal <= Len(log)
  BY <1>5, Fields
<1>8. Moves(p, calls) /\ Moves(RequestDrive(p), calls)
  BY <1>5, <1>6, <1>7, Aside, RequestMoves
<1>9. Moves(runtime', calls')
  BY <1>1, <1>2, <1>8
<1> QED
  BY <1>1, <1>9, Fields, Spending, QuietStep

\* A timer fires.
LEMMA TimerFiresKeeps ==
    ASSUME ScheduleInv, TimerFires
    PROVE  ScheduleInv'
<1> DEFINE p == [runtime EXCEPT !.timer = Off]
<1>1. /\ runtime' = RequestDrive(p)
      /\ UNCHANGED <<now, log, stored, agent, calls, confirmed, spent>>
  BY DEF TimerFires, tools
<1>2. /\ Sound(p) /\ p.queue = runtime.queue /\ p.goal = runtime.goal
      /\ p.stopping = runtime.stopping /\ p.faulted = runtime.faulted
  BY Silenced DEF ScheduleInv
<1> HIDE DEF p
<1>3. p.goal <= Len(log)
  BY <1>2, Fields
<1>4. Moves(runtime', calls')
  BY <1>1, <1>2, <1>3, RequestMoves
<1> QED
  BY <1>1, <1>4, Fields, Spending, QuietStep

\* An idle wait ends.
LEMMA IdleWaitEndsKeeps ==
    ASSUME ScheduleInv, IdleWaitEnds
    PROVE  ScheduleInv'
<1> DEFINE p == [runtime EXCEPT !.idleWait = FALSE]
<1>1. /\ runtime' = RequestDrive(p)
      /\ UNCHANGED <<now, log, stored, agent, calls, confirmed, spent>>
  BY DEF IdleWaitEnds, tools
<1>2. /\ Sound(p) /\ p.queue = runtime.queue /\ p.goal = runtime.goal
      /\ p.stopping = runtime.stopping /\ p.faulted = runtime.faulted
  BY Marked DEF ScheduleInv
<1> HIDE DEF p
<1>3. p.goal <= Len(log)
  BY <1>2, Fields
<1>4. Moves(runtime', calls')
  BY <1>1, <1>2, <1>3, RequestMoves
<1> QED
  BY <1>1, <1>4, Fields, Spending, QuietStep

\* The runtime is disposed.
LEMMA DisposeKeeps ==
    ASSUME ScheduleInv, Dispose
    PROVE  ScheduleInv'
<1>1. /\ runtime' = [runtime EXCEPT !.stopping = TRUE, !.requested = FALSE, !.timer = Off]
      /\ UNCHANGED <<now, log, stored, agent, calls, confirmed>>
      /\ spent' = [spent EXCEPT !.ends = @ + 1]
  BY DEF Dispose, Ends, tools
<1> DEFINE p == [runtime EXCEPT !.stopping = TRUE, !.requested = FALSE, !.timer = Off]
<1>0. /\ Sound(runtime) /\ runtime \in Runtimes /\ Off \in Off..MaxDelay /\ spent.ends \in Nat
      /\ spent \in [activity : Nat, troubles : Nat, ends : Nat]
  BY Fields, ScheduleAssumption DEF ScheduleInv, Off
<1>2. p \in Runtimes
  BY <1>0, Zenon DEF Runtimes
<1>3. /\ p.queue = runtime.queue /\ p.run = runtime.run /\ p.faulted = runtime.faulted
      /\ p.goal = runtime.goal /\ p.timer = Off
  BY <1>0 DEF Runtimes
<1>4. runtime' = p
  BY <1>1
<1> HIDE DEF p
<1>5. Sound(p)
  BY <1>0, <1>2, <1>3 DEF Sound
<1>6. spent' \in [activity : Nat, troubles : Nat, ends : Nat] /\ spent'.ends = spent.ends + 1
  <2>1. spent' = [spent EXCEPT !.ends = spent.ends + 1] /\ spent.ends + 1 \in Nat
    BY <1>0, <1>1
  <2> QED
    BY <1>0, <2>1
<1>7. ScheduleTypes'
  BY <1>1, <1>6, Fields DEF ScheduleTypes
<1>8. Placed(runtime', calls')
  BY <1>1, <1>3, <1>4 DEF ScheduleInv, Placed
<1>9. GoalsReached'
  BY <1>1, <1>3, <1>4 DEF ScheduleInv, GoalsReached
<1>10. \A i \in Reminders(log) : log[i].run \in Int /\ log[i].run <= spent.ends
  BY ItemsRun, Fields DEF ScheduleInv, LogSound, RunsUpTo
<1>11. \A i \in Reminders(log) : log[i].run < spent.ends + 1 /\ log[i].run <= spent.ends + 1
                                 /\ log[i].run # spent.ends + 1
  BY <1>0, <1>10
<1>12. LogSound'
  <2>1. RunsUpTo(log, spent.ends + 1) /\ AheadBut(log, spent.ends + 1, {}, 0)
    BY <1>11 DEF RunsUpTo, AheadBut
  <2>2. /\ Folds(log') /\ Backed(log') /\ OnceInARun(log') /\ RunsUpTo(log', spent'.ends)
        /\ AheadBut(log', spent'.ends, {}, 0)
    BY <1>1, <1>6, <2>1 DEF ScheduleInv, LogSound
  <2> QED
    BY <2>2 DEF LogSound
<1>13. StopsForGood'
  <2>1. runtime'.timer = Off /\ \A i \in Reminders(log') : log'[i].run < spent'.ends
    BY <1>1, <1>3, <1>4, <1>6, <1>11
  <2> QED
    BY <2>1 DEF StopsForGood
<1>14. AnswersAreDurable' /\ Sound(runtime')
  BY <1>1, <1>4, <1>5 DEF ScheduleInv, AnswersAreDurable
<1> QED
  BY <1>7, <1>8, <1>9, <1>12, <1>13, <1>14 DEF ScheduleInv

(***************************************************************************)
(* The management tools.                                                    *)
(***************************************************************************)

\* A call ends its transaction, and answers what is durable.
LEMMA AnswerKeeps ==
    ASSUME ScheduleInv, NEW c \in Calls, Leads(c, runtime.queue), NEW n \in Nat, NEW o, Sound(o),
           Keeps(runtime, o), o.goal = runtime.goal, Answer(c, n, o), log' = log,
           now' = now, agent' = agent, Spends, stored' \in 0..Len(log), stored <= stored',
           n <= stored'
    PROVE  ScheduleInv'
<1>1. /\ calls' = [calls EXCEPT ![c] = NoCall] /\ confirmed' = Max({confirmed, n})
      /\ runtime' = Popped(o)
  BY DEF Answer, Popped
<1>2. Leads(c, o.queue)
  BY DEF Keeps
<1>3. /\ Sound(Popped(o)) /\ Popped(o).goal = o.goal
      /\ \A x : In(x, Popped(o).queue) => In(x, o.queue) /\ x # c
      /\ Popped(o).stopping = o.stopping /\ Popped(o).faulted = o.faulted
  BY <1>2, Answered
<1> DEFINE p == Popped(o)
<1>4. calls \in [Calls -> Places] /\ NoCall \in Places /\ NoCall.stage = "none" /\ NoCall.goal = 0
  BY Fields DEF NoCall, Places
<1>5. /\ calls' \in [Calls -> Places] /\ calls'[c].stage = "none" /\ calls'[c].goal = 0
      /\ \A d \in Calls : d # c => calls'[d] = calls[d]
  BY <1>1, <1>4
<1> HIDE DEF p
<1>6. ASSUME NEW d \in Calls
      PROVE  /\ In(d, p.queue) => calls'[d].stage # "none"
             /\ calls'[d].stage \notin {"preflight", "barrier"}
             /\ calls'[d].goal <= Len(log)
  <2>1. CASE d = c
    BY <2>1, <1>3, <1>5, Fields DEF p
  <2>2. CASE d # c
    <3>1. calls'[d] = calls[d]
      BY <2>2, <1>5
    <3>2. In(d, p.queue) => In(d, runtime.queue)
      BY <1>3 DEF Keeps, p
    <3>3. calls[d].stage \in {"preflight", "barrier"} => Leads(d, runtime.queue)
      BY DEF ScheduleInv, Placed
    <3>4. calls[d].stage \notin {"preflight", "barrier"}
      BY <2>2, <3>3 DEF Leads
    <3>5. In(d, runtime.queue) => calls[d].stage # "none"
      BY DEF ScheduleInv, Placed
    <3> QED
      BY <3>1, <3>2, <3>4, <3>5, Fields
  <2> QED
    BY <2>1, <2>2
<1>7. Moves(p, calls')
  <2>1. Placed(p, calls')
    BY <1>6 DEF Placed
  <2>2. /\ p.goal <= Len(log) /\ p.stopping = runtime.stopping
        /\ p.faulted = runtime.faulted /\ Sound(p)
    BY <1>3, Fields DEF Keeps, p
  <2> QED
    BY <2>1, <2>2, <1>5, <1>6 DEF Moves
<1>8. confirmed' \in Nat /\ confirmed' <= stored'
  <2>1. confirmed \in Nat /\ confirmed <= stored /\ stored \in Nat /\ stored' \in Int
    BY Fields
  <2>2. Max({confirmed, n}) \in {confirmed, n}
    BY <2>1, LargerIs
  <2> QED
    BY <1>1, <2>1, <2>2
<1>9. Moves(runtime', calls')
  BY <1>1, <1>7 DEF p
<1> QED
  BY <1>8, <1>9, Fields, QuietStep

\* The runtime as it is, or a drive requested of it.
LEMMA AsItIs ==
    ASSUME ScheduleInv
    PROVE  /\ Sound(runtime) /\ Keeps(runtime, runtime)
           /\ Sound(RequestDrive(runtime)) /\ Keeps(runtime, RequestDrive(runtime))
           /\ RequestDrive(runtime).goal = runtime.goal
BY Requested DEF ScheduleInv, Keeps

\* A call is made.
LEMMA CallKeeps ==
    ASSUME ScheduleInv, NEW c \in Calls, NEW op \in {"create", "list", "delete"}, NEW id \in Nat,
           Call(c, op, id)
    PROVE  ScheduleInv'
<1>1. /\ calls[c].stage = "none" /\ Activity /\ UNCHANGED <<now, log, stored, agent, confirmed>>
      /\ calls' = [calls EXCEPT ![c].stage = "queued", ![c].op = op, ![c].id = id]
      /\ runtime' = [runtime EXCEPT !.queue = Append(@, c)]
  BY DEF Call, Running
<1>2. ~In(c, runtime.queue)
  BY <1>1 DEF ScheduleInv, Placed
<1> DEFINE p == [runtime EXCEPT !.queue = Append(@, c)]
<1>3. /\ Sound(p) /\ p.goal = runtime.goal
      /\ \A x : In(x, p.queue) => In(x, runtime.queue) \/ x = c
      /\ \A x : Leads(x, runtime.queue) => Leads(x, p.queue)
      /\ p.stopping = runtime.stopping /\ p.faulted = runtime.faulted
  BY <1>2, Joined DEF ScheduleInv
<1> HIDE DEF p
<1>4. calls \in [Calls -> Places]
  BY Fields
<1>5. /\ calls' = [calls EXCEPT ![c] = [calls[c] EXCEPT !.stage = "queued", !.op = op, !.id = id]]
      /\ [calls[c] EXCEPT !.stage = "queued", !.op = op, !.id = id] \in Places
      /\ calls[c] \in Places
  BY <1>1, <1>4 DEF Places
<1>6. /\ calls' \in [Calls -> Places] /\ calls'[c].stage = "queued"
      /\ calls'[c].goal = calls[c].goal
      /\ \A d \in Calls : d # c => calls'[d] = calls[d]
  BY <1>4, <1>5 DEF Places
<1>7. ASSUME NEW d \in Calls
      PROVE  /\ In(d, p.queue) => calls'[d].stage # "none"
             /\ calls'[d].stage \in {"preflight", "barrier"} => Leads(d, p.queue)
             /\ calls'[d].goal <= Len(log)
             /\ calls'[d].stage = "preflight" => calls'[d].goal = Len(log)
  <2>1. CASE d = c
    BY <2>1, <1>6, Fields
  <2>2. CASE d # c
    BY <2>2, <1>3, <1>6, Fields DEF ScheduleInv, Placed, GoalsReached
  <2> QED
    BY <2>1, <2>2
<1>8. Moves(p, calls')
  BY <1>3, <1>6, <1>7, Fields DEF Moves, Placed
<1>9. Moves(runtime', calls')
  BY <1>1, <1>8 DEF p
<1> QED
  BY <1>1, <1>9, Fields, Spending, QuietStep

\* A call's transaction starts, or is cancelled.
LEMMA CallStartsKeeps ==
    ASSUME ScheduleInv, NEW c \in Calls, CallStarts(c)
    PROVE  ScheduleInv'
<1>1. /\ Leads(c, runtime.queue) /\ calls[c].stage = "queued"
      /\ UNCHANGED <<now, log, stored, agent, spent>>
  BY InFront DEF CallStarts, Turn
<1>2. CASE Answer(c, 0, runtime)
  <2>1. Spends /\ stored' \in 0..Len(log) /\ stored <= stored' /\ 0 <= stored'
    BY <1>1, Fields, Spending
  <2> QED
    BY <1>1, <1>2, <2>1, AsItIs, AnswerKeeps
<1>3. CASE /\ calls' = [calls EXCEPT ![c].stage = "preflight", ![c].goal = Len(log)]
           /\ UNCHANGED <<runtime, confirmed>>
  <2> DEFINE n == Len(log)
  <2>1. calls \in [Calls -> Places] /\ n \in Nat /\ n = Len(log)
    BY Fields
  <2>2. calls' = [calls EXCEPT ![c] = [calls[c] EXCEPT !.stage = "preflight", !.goal = n]]
    BY <1>3
  <2> HIDE DEF n
  <2>3. /\ calls[c] \in Places /\ [calls[c] EXCEPT !.stage = "preflight", !.goal = n] \in Places
        /\ [calls[c] EXCEPT !.stage = "preflight", !.goal = n].stage = "preflight"
        /\ [calls[c] EXCEPT !.stage = "preflight", !.goal = n].goal = n
    BY <1>1, <2>1 DEF Places
  <2>4. /\ calls' \in [Calls -> Places] /\ calls'[c].stage = "preflight" /\ calls'[c].goal = n
        /\ \A d \in Calls : d # c => calls'[d] = calls[d]
    BY <2>1, <2>2, <2>3
  <2>5. ASSUME NEW d \in Calls
        PROVE  /\ In(d, runtime.queue) => calls'[d].stage # "none"
               /\ calls'[d].stage \in {"preflight", "barrier"} => Leads(d, runtime.queue)
               /\ calls'[d].goal <= Len(log)
               /\ calls'[d].stage = "preflight" => calls'[d].goal = Len(log)
    <3>1. CASE d = c
      BY <3>1, <2>1, <2>4, <1>1
    <3>2. CASE d # c
      BY <3>2, <2>4, Fields DEF ScheduleInv, Placed, GoalsReached
    <3> QED
      BY <3>1, <3>2
  <2>6. Moves(runtime, calls')
    BY <2>4, <2>5, Fields DEF Moves, Placed, ScheduleInv
  <2>7. Moves(runtime', calls')
    BY <1>3, <2>6
  <2> QED
    BY <1>1, <1>3, <2>7, Fields, Spending, QuietStep
<1> QED
  BY <1>2, <1>3 DEF CallStarts

\* A call ends behind its barrier, or with a failed flush.
LEMMA CallEndsKeeps ==
    ASSUME ScheduleInv, NEW c \in Calls, CallEnds(c)
    PROVE  ScheduleInv'
<1>1. Leads(c, runtime.queue) /\ UNCHANGED <<now, log, agent>>
  BY InFront DEF CallEnds, Turn
<1> DEFINE n == calls[c].goal
<1>2. n \in Nat /\ n <= Len(log) /\ stored \in Nat
  BY Fields
<1> HIDE DEF n
<1>3. CASE Flushed(n) /\ Answer(c, n, RequestDrive(runtime))
  <2>1. stored' \in 0..Len(log) /\ stored <= stored' /\ Spends /\ n <= stored'
    BY <1>2, <1>3, FlushedIs
  <2> QED
    BY <1>1, <1>2, <1>3, <2>1, AsItIs, AnswerKeeps
<1>4. CASE FlushFails /\ Answer(c, 0, runtime)
  <2>1. stored' \in 0..Len(log) /\ stored <= stored' /\ Spends
    BY <1>2, <1>4, FlushedIs
  <2>2. 0 <= stored' /\ 0 \in Nat
    BY <2>1
  <2> QED
    BY <1>1, <1>4, <2>1, <2>2, AsItIs, AnswerKeeps
<1> QED
  BY <1>3, <1>4 DEF CallEnds, CallBarrier, Confirms, n

(***************************************************************************)
(* The steps that log something.                                            *)
(***************************************************************************)

\* A step behind which the log is longer and sound.
LEMMA LongerLog ==
    ASSUME ScheduleInv, log' \in Seq(Events), Len(log) <= Len(log'), Folds(log'), Backed(log'),
           OnceInARun(log'), RunsUpTo(log', spent.ends),
           runtime'.faulted \/ AheadBut(log', spent.ends, {}, 0),
           runtime'.stopping => \A i \in Reminders(log') : log'[i].run < spent.ends,
           now' = now, Spends, agent' \in Agents, stored' \in 0..Len(log), stored <= stored',
           Sound(runtime'), Placed(runtime', calls'), calls' \in [Calls -> Places],
           runtime'.goal <= Len(log'),
           \A c \in Calls : /\ calls'[c].goal <= Len(log')
                            /\ calls'[c].stage = "preflight" => calls'[c].goal = Len(log'),
           confirmed' = confirmed
    PROVE  ScheduleInv'
<1>1. /\ Len(log) \in Nat /\ Len(log') \in Nat /\ confirmed \in Nat /\ confirmed <= stored
      /\ stored \in Nat /\ now \in 0..Horizon
  BY Fields, LenProperties
<1>2. stored' \in 0..Len(log') /\ confirmed' <= stored'
  BY <1>1
<1>3. spent' \in [activity : Nat, troubles : Nat, ends : Nat] /\ spent'.ends = spent.ends
  BY DEF Spends
<1>4. ScheduleTypes'
  BY <1>1, <1>2, <1>3 DEF ScheduleTypes
<1>5. GoalsReached'
  BY DEF GoalsReached
<1>6. LogSound'
  <2>1. RunsUpTo(log', spent'.ends) /\ (runtime'.faulted \/ AheadBut(log', spent'.ends, {}, 0))
    BY <1>3
  <2> QED
    BY <2>1 DEF LogSound
<1>7. StopsForGood'
  <2>1. runtime'.stopping => runtime'.timer = Off
    BY DEF Sound
  <2>2. runtime'.stopping => \A i \in Reminders(log') : log'[i].run < spent'.ends
    BY <1>3
  <2> QED
    BY <2>1, <2>2 DEF StopsForGood
<1>8. AnswersAreDurable'
  BY <1>2 DEF AnswersAreDurable
<1> QED
  BY <1>4, <1>5, <1>6, <1>7, <1>8 DEF ScheduleInv

\* The id of a new record was never given: of one more id than were given one is free.
LEMMA NextIdIsNew ==
    ASSUME log \in Seq(Events), Tidy(log)
    PROVE  NextId \in Nat /\ NextId \notin Seen(log)
<1> DEFINE n == Cardinality(Seen(log))
           I == (n + 1)..(2 * n + 1)
           S == {i \in I : i \notin Seen(log)}
<1>1. IsFiniteSet(Seen(log)) /\ n \in Nat
  BY ActiveFinite
<1>2. NextId = Min(S)
  BY DEF NextId
<1> HIDE DEF n
<1>3. IsFiniteSet(I) /\ Cardinality(I) = n + 1
  <2>1. n + 1 \in Int /\ 2 * n + 1 \in Int /\ n + 1 <= 2 * n + 1
        /\ (2 * n + 1) - (n + 1) + 1 = n + 1
    BY <1>1
  <2> QED
    BY <2>1, FS_Interval
<1>4. S # {}
  <2> SUFFICES ASSUME S = {} PROVE FALSE
    OBVIOUS
  <2>1. I \in SUBSET Seen(log)
    OBVIOUS
  <2> HIDE DEF I, S
  <2>2. Cardinality(I) <= n
    BY <1>1, <2>1, FS_Subset DEF n
  <2> QED
    BY <1>1, <1>3, <2>2
<1>5. S \in SUBSET Nat
  BY <1>1
<1>6. Min(S) \in S
  <2> HIDE DEF S
  <2> QED
    BY <1>4, <1>5, LeastIs
<1> QED
  BY <1>2, <1>5, <1>6

\* The log with a change behind it.
LEMMA LogGrows ==
    ASSUME ScheduleInv, NEW e \in Events, e.op \in {"create", "delete"}, Follows(log, e)
    PROVE  LET es == Append(log, e) IN
           /\ es \in Seq(Events) /\ Len(es) = Len(log) + 1
           /\ Folds(es) /\ Backed(es) /\ OnceInARun(es) /\ RunsUpTo(es, spent.ends)
           /\ runtime.faulted \/ AheadBut(es, spent.ends, {}, 0)
           /\ runtime.stopping => \A i \in Reminders(es) : es[i].run < spent.ends
<1> DEFINE es == Append(log, e)
<1>1. /\ log \in Seq(Events) /\ spent.ends \in Nat /\ Folds(log) /\ Backed(log) /\ OnceInARun(log)
      /\ RunsUpTo(log, spent.ends) /\ (runtime.faulted \/ AheadBut(log, spent.ends, {}, 0))
      /\ StopsForGood
  BY Fields DEF ScheduleInv, LogSound
<1>2. es \in Seq(Events) /\ Len(es) = Len(log) + 1
  BY <1>1, Appended
<1>3. e.op # "reminder" /\ e.op # "dispatch"
  OBVIOUS
<1>4. Folds(es)
  BY <1>1, FoldsOneMore
<1>5. Backed(es)
  BY <1>1, <1>3, BackedOneMore
<1>6. OnceInARun(es)
  BY <1>1, <1>3, OnceOneMore
<1>7. RunsUpTo(es, spent.ends)
  BY <1>1, <1>3, RunsOneMore
<1>8. ASSUME ~runtime.faulted PROVE AheadBut(es, spent.ends, {}, 0)
  <2>1. AheadBut(log, spent.ends, {}, 0)
    BY <1>1, <1>8
  <2>2. /\ 0 \in Int /\ log \in Seq(Events) /\ Folds(log) /\ e.op # "reminder"
        /\ e.op = "dispatch" /\ e.id \in {} =>
             \A r \in ActiveRecords(log) : r.id = e.id => r.every = 0 \/ e.at >= 0
    BY <1>1, <1>3
  <2>3. AheadBut(Append(log, e), spent.ends, IF e.op = "dispatch" THEN {} \ {e.id} ELSE {}, 0)
    BY <2>1, <2>2, AheadOneMore, Zenon
  <2>4. (IF e.op = "dispatch" THEN {} \ {e.id} ELSE {}) = {}
    OBVIOUS
  <2> QED
    BY <2>3, <2>4, Zenon
<1>9. ASSUME runtime.stopping PROVE \A i \in Reminders(es) : es[i].run < spent.ends
  <2>1. \A i \in Reminders(log) : log[i].run < spent.ends
    BY <1>1, <1>9 DEF StopsForGood
  <2>2. /\ \A i \in Reminders(es) : i \in Reminders(log)
        /\ \A i \in Reminders(log) : es[i] = log[i]
    BY <1>1, <1>3, RemindersOneMore
  <2> QED
    BY <2>1, <2>2
<1>10. runtime.faulted \/ AheadBut(es, spent.ends, {}, 0)
  BY <1>8
<1> HIDE DEF es
<1> QED
  BY <1>2, <1>4, <1>5, <1>6, <1>7, <1>9, <1>10, Zenon DEF es

\* A call's change is appended and waits for its barrier.
LEMMA ChangeKeeps ==
    ASSUME ScheduleInv, NEW c \in Calls, Leads(c, runtime.queue), calls[c].stage = "preflight",
           NEW e \in Events, e.op \in {"create", "delete"}, Follows(log, e),
           log' = Append(log, e), runtime' = RequestDrive(runtime),
           calls' = [calls EXCEPT ![c].stage = "barrier", ![c].goal = Len(log) + 1],
           UNCHANGED <<now, agent, spent, confirmed>>,
           stored' \in 0..Len(log), stored <= stored'
    PROVE  ScheduleInv'
<1> DEFINE n == Len(log) + 1
<1>1. /\ log' \in Seq(Events) /\ Len(log') = n
      /\ Folds(log') /\ Backed(log') /\ OnceInARun(log') /\ RunsUpTo(log', spent.ends)
      /\ runtime.faulted \/ AheadBut(log', spent.ends, {}, 0)
      /\ runtime.stopping => \A i \in Reminders(log') : log'[i].run < spent.ends
  BY LogGrows
<1>2. n \in Nat /\ Len(log) \in Nat /\ n = Len(log) + 1 /\ calls \in [Calls -> Places]
      /\ agent' \in Agents
  BY Fields
<1>3. calls' = [calls EXCEPT ![c] = [calls[c] EXCEPT !.stage = "barrier", !.goal = n]]
  OBVIOUS
<1> HIDE DEF n
<1>4. /\ calls[c] \in Places /\ [calls[c] EXCEPT !.stage = "barrier", !.goal = n] \in Places
      /\ [calls[c] EXCEPT !.stage = "barrier", !.goal = n].stage = "barrier"
      /\ [calls[c] EXCEPT !.stage = "barrier", !.goal = n].goal = n
  BY <1>2 DEF Places
<1>5. /\ calls' \in [Calls -> Places] /\ calls'[c].stage = "barrier" /\ calls'[c].goal = n
      /\ \A d \in Calls : d # c => calls'[d] = calls[d]
  BY <1>2, <1>3, <1>4
<1>6. Sound(runtime') /\ Keeps(runtime, runtime') /\ runtime'.goal = runtime.goal
  BY AsItIs
<1>7. ASSUME NEW d \in Calls
      PROVE  /\ In(d, runtime'.queue) => calls'[d].stage # "none"
             /\ calls'[d].stage \in {"preflight", "barrier"} => Leads(d, runtime'.queue)
             /\ calls'[d].goal <= Len(log')
             /\ calls'[d].stage = "preflight" => calls'[d].goal = Len(log')
  <2>1. CASE d = c
    BY <2>1, <1>1, <1>2, <1>5, <1>6 DEF Keeps
  <2>2. CASE d # c
    <3>1. calls'[d] = calls[d]
      BY <2>2, <1>5
    <3>2. calls[d].stage \notin {"preflight", "barrier"}
      BY <2>2 DEF ScheduleInv, Placed, Leads
    <3>3. In(d, runtime'.queue) => calls[d].stage # "none"
      BY <1>6 DEF Keeps, ScheduleInv, Placed
    <3>4. calls[d].goal \in Nat /\ calls[d].goal <= Len(log)
      BY Fields
    <3>5. calls[d].goal <= Len(log')
      BY <3>4, <1>1, <1>2
    <3> QED
      BY <3>1, <3>2, <3>3, <3>5
  <2> QED
    BY <2>1, <2>2
<1>8. Placed(runtime', calls')
  BY <1>7 DEF Placed
<1>9. runtime'.goal <= Len(log') /\ Len(log) <= Len(log')
  <2>1. runtime.goal \in Nat /\ runtime.goal <= Len(log)
    BY Fields
  <2> QED
    BY <2>1, <1>1, <1>2, <1>6
<1>10. runtime'.faulted = runtime.faulted /\ runtime'.stopping = runtime.stopping
  BY <1>6 DEF Keeps
<1>11. Spends
  BY Spending
<1>12. \A d \in Calls : /\ calls'[d].goal <= Len(log')
                        /\ calls'[d].stage = "preflight" => calls'[d].goal = Len(log')
  BY <1>7
<1>13. /\ runtime'.faulted \/ AheadBut(log', spent.ends, {}, 0)
       /\ runtime'.stopping => \A i \in Reminders(log') : log'[i].run < spent.ends
  BY <1>1, <1>10
<1>14. now' = now /\ confirmed' = confirmed
  OBVIOUS
<1> QED
  BY <1>1, <1>2, <1>5, <1>6, <1>8, <1>9, <1>11, <1>12, <1>13, <1>14, LongerLog

\* The events of the two changes.
LEMMA ChangeEvents ==
    ASSUME ScheduleInv
    PROVE  /\ \A r \in Records(NextId) : /\ Create(r) \in Events /\ Create(r).op = "create"
                                         /\ Follows(log, Create(r))
           /\ \A id \in Nat : (\E r \in ActiveRecords(log) : r.id = id) =>
                /\ Delete(id) \in Events /\ Delete(id).op = "delete" /\ Follows(log, Delete(id))
<1>1. /\ log \in Seq(Events) /\ Tidy(log) /\ now \in Nat /\ Horizon \in Nat
      /\ Intervals \subseteq Nat \ {0}
  BY Fields, ScheduleAssumption
<1>2. NextId \in Nat /\ NextId \notin Seen(log)
  BY <1>1, NextIdIsNew
<1> DEFINE id == NextId
<1>3. ASSUME NEW r \in Records(id) PROVE r.id = id /\ r.at \in 0..Horizon /\ r.every \in Nat
  <2>1. CASE r \in {[id |-> id, at |-> at, every |-> 0] : at \in (now + 1)..Horizon}
    <3>1. PICK at \in (now + 1)..Horizon : r = [id |-> id, at |-> at, every |-> 0]
      BY <2>1
    <3>2. at \in 0..Horizon
      BY <1>1
    <3> QED
      BY <3>1, <3>2
  <2>2. CASE r \in {q \in {[id |-> id, at |-> now + n, every |-> n] : n \in Intervals}
                        : q.at <= Horizon}
    <3>1. PICK n \in Intervals : r = [id |-> id, at |-> now + n, every |-> n]
      BY <2>2
    <3>2. r.at <= Horizon /\ r.at = now + n /\ r.every = n /\ r.id = id
      BY <2>2, <3>1
    <3>3. n \in Nat
      BY <1>1, <3>1
    <3> QED
      BY <1>1, <3>2, <3>3
  <2> QED
    BY <2>1, <2>2 DEF Records
<1>4. ASSUME NEW r \in Records(id)
      PROVE  Create(r) \in Events /\ Create(r).op = "create" /\ Follows(log, Create(r))
  <2>1. r.id = id /\ r.at \in 0..Horizon /\ r.every \in Nat
    BY <1>3
  <2>2. id \in Nat /\ id \notin Seen(log)
    BY <1>2
  <2> HIDE DEF id
  <2>3. /\ Create(r) = [op |-> "create", id |-> r.id, at |-> r.at, every |-> r.every]
        /\ Create(r).op = "create" /\ Create(r).id = id
    BY <2>1 DEF Create
  <2>4. Create(r) \in Events
    BY <2>1, <2>2, <2>3 DEF Events
  <2>5. Follows(log, Create(r))
    BY <2>2, <2>3 DEF Follows
  <2> QED
    BY <2>3, <2>4, <2>5
<1>5. ASSUME NEW d \in Nat, \E r \in ActiveRecords(log) : r.id = d
      PROVE  Delete(d) \in Events /\ Delete(d).op = "delete" /\ Follows(log, Delete(d))
  <2>1. /\ Delete(d) = [op |-> "delete", id |-> d, at |-> 0, every |-> 0]
        /\ Delete(d).op = "delete" /\ Delete(d).id = d /\ 0 \in 0..Horizon
    BY <1>1 DEF Delete
  <2>2. Delete(d) \in Events
    BY <2>1 DEF Events
  <2>3. Follows(log, Delete(d))
    BY <2>1, <1>5 DEF Follows
  <2> QED
    BY <2>1, <2>2, <2>3
<1> QED
  BY <1>4, <1>5

\* A change is made, or its append fails.
LEMMA ChangesKeeps ==
    ASSUME ScheduleInv, NEW c \in Calls, Leads(c, runtime.queue), calls[c].stage = "preflight",
           NEW e, Changes(c, e), e \in Events, e.op \in {"create", "delete"}, Follows(log, e),
           UNCHANGED <<now, agent>>, stored' \in 0..Len(log), stored <= stored'
    PROVE  ScheduleInv'
<1>1. CASE /\ log' = Append(log, e) /\ runtime' = RequestDrive(runtime)
           /\ UNCHANGED <<spent, confirmed>>
           /\ calls' = [calls EXCEPT ![c].stage = "barrier", ![c].goal = Len(log) + 1]
  BY <1>1, ChangeKeeps
<1>2. CASE Answer(c, 0, RequestDrive(runtime)) /\ Trouble /\ UNCHANGED log
  <2>1. Spends
    BY <1>2, Spending
  <2>2. 0 \in Nat /\ 0 <= stored'
    OBVIOUS
  <2> QED
    BY <1>2, <2>1, <2>2, AsItIs, AnswerKeeps
<1> QED
  BY <1>1, <1>2 DEF Changes

\* What a call does behind its preflight.
LEMMA CallPreflightedKeeps ==
    ASSUME ScheduleInv, NEW c \in Calls, CallPreflighted(c)
    PROVE  ScheduleInv'
<1> DEFINE known == \E r \in ActiveRecords(log) : r.id = calls[c].id
           says(n) == Answer(c, n, RequestDrive(runtime)) /\ UNCHANGED <<log, spent>>
<1>1. /\ Leads(c, runtime.queue) /\ calls[c].stage = "preflight" /\ UNCHANGED <<now, agent>>
      /\ stored' = Max({stored, calls[c].goal})
  BY InFront DEF CallPreflighted, Turn
<1>2. /\ calls[c].goal = Len(log) /\ calls[c].goal \in Nat /\ stored \in Nat /\ stored <= Len(log)
      /\ calls[c].id \in Nat /\ calls \in [Calls -> Places]
  BY <1>1, Fields DEF ScheduleInv, GoalsReached
<1>3. stored' \in 0..Len(log) /\ stored <= stored' /\ Len(log) <= stored' /\ 0 <= stored'
  <2>1. /\ Max({stored, calls[c].goal}) \in {stored, calls[c].goal}
        /\ stored <= Max({stored, calls[c].goal}) /\ calls[c].goal <= Max({stored, calls[c].goal})
    BY <1>2, LargerIs
  <2> QED
    BY <1>1, <1>2, <2>1
<1>4. ASSUME NEW n \in Nat, n <= stored', Answer(c, n, RequestDrive(runtime)),
             UNCHANGED <<log, spent>>
      PROVE  ScheduleInv'
  <2>1. Spends
    BY <1>4, Spending
  <2> QED
    BY <1>1, <1>3, <1>4, <2>1, AsItIs, AnswerKeeps
<1>5. CASE says(Len(log)) \/ says(0)
  BY <1>2, <1>3, <1>4, <1>5
<1>6. CASE known /\ Changes(c, Delete(calls[c].id))
  <2>1. /\ Delete(calls[c].id) \in Events /\ Delete(calls[c].id).op = "delete"
        /\ Follows(log, Delete(calls[c].id))
    BY <1>2, <1>6, ChangeEvents
  <2> QED
    BY <1>1, <1>3, <1>6, <2>1, ChangesKeeps
<1>7. CASE \E r \in Records(NextId) : Changes(c, Create(r))
  <2>1. PICK r \in Records(NextId) : Changes(c, Create(r))
    BY <1>7
  <2>2. Create(r) \in Events /\ Create(r).op = "create" /\ Follows(log, Create(r))
    BY ChangeEvents
  <2> QED
    BY <1>1, <1>3, <2>1, <2>2, ChangesKeeps
<1>8. calls[c].op \in {"create", "list", "delete"}
  BY <1>1, <1>2 DEF Places
<1>9. CASE calls[c].op = "list"
  <2>1. says(Len(log))
    BY <1>9 DEF CallPreflighted
  <2> QED
    BY <2>1, <1>5
<1>10. CASE calls[c].op = "delete"
  <2>1. IF known THEN says(0) \/ Changes(c, Delete(calls[c].id)) ELSE says(Len(log))
    BY <1>10 DEF CallPreflighted
  <2> QED
    BY <2>1, <1>5, <1>6
<1>11. CASE calls[c].op = "create"
  <2>1. says(0) \/ \E r \in Records(NextId) : Changes(c, Create(r))
    BY <1>11 DEF CallPreflighted
  <2> QED
    BY <2>1, <1>5, <1>7
<1> QED
  BY <1>8, <1>9, <1>10, <1>11

\* Some of a delivery is logged: all of it, or as much as does not fault.
LEMMA DeliveryKeeps ==
    ASSUME ScheduleInv, Leads(Drive, runtime.queue), ~runtime.stopping,
           log' \in Seq(Events), Len(log) < Len(log'), Folds(log'), Backed(log'),
           OnceInARun(log'), RunsUpTo(log', spent.ends),
           runtime'.faulted \/ AheadBut(log', spent.ends, {}, 0),
           Sound(runtime'), runtime'.queue = runtime.queue, runtime'.goal = runtime.goal,
           runtime'.stopping = runtime.stopping,
           UNCHANGED <<now, calls, confirmed>>, Spends, agent' \in Agents,
           stored' \in 0..Len(log), stored <= stored'
    PROVE  ScheduleInv'
<1>1. /\ Len(log) \in Nat /\ Len(log') \in Nat /\ runtime.goal \in Nat /\ runtime.goal <= Len(log)
      /\ calls \in [Calls -> Places]
  BY Fields, LenProperties
<1>2. Len(log) <= Len(log') /\ runtime'.goal <= Len(log')
  BY <1>1
<1>3. Placed(runtime', calls')
  BY DEF ScheduleInv, Placed
<1>4. ASSUME NEW c \in Calls
      PROVE  /\ calls'[c].goal <= Len(log')
             /\ calls'[c].stage = "preflight" => calls'[c].goal = Len(log')
  <2>1. calls[c].goal \in Nat /\ calls[c].goal <= Len(log)
    BY Fields
  <2>2. calls[c].goal <= Len(log')
    BY <2>1, <1>1, <1>2
  <2>3. c # Drive
    BY DEF Calls, Drive
  <2>4. calls[c].stage # "preflight"
    BY <2>3 DEF ScheduleInv, Placed, Leads
  <2> QED
    BY <2>2, <2>4
<1>5. /\ runtime'.stopping => \A i \in Reminders(log') : log'[i].run < spent.ends
      /\ calls' \in [Calls -> Places]
  BY <1>1
<1> QED
  BY <1>2, <1>3, <1>4, <1>5, LongerLog

\* What is due goes out, is not queued, or goes out and faults the runtime.
LEMMA DeliversKeeps ==
    ASSUME ScheduleInv, Delivers
    PROVE  ScheduleInv'
<1>1. /\ Leads(Drive, runtime.queue) /\ runtime.run = "preflight" /\ ~runtime.stopping
      /\ stored' = Max({stored, runtime.goal}) /\ UNCHANGED <<now, calls, confirmed>>
  BY InFront DEF Delivers, Driving, Runnable, tools
<1>2. /\ stored \in Nat /\ runtime.goal \in Nat /\ stored <= Len(log) /\ runtime.goal <= Len(log)
      /\ Len(log) \in Nat /\ runtime \in Runtimes /\ Sound(runtime) /\ Kept
      /\ log \in Seq(Events) /\ Tidy(log) /\ Off \in Off..MaxDelay
  BY Fields, ScheduleAssumption DEF ScheduleInv, Off
<1>3. stored' \in 0..Len(log) /\ stored <= stored'
  <2>1. /\ Max({stored, runtime.goal}) \in {stored, runtime.goal}
        /\ stored <= Max({stored, runtime.goal})
    BY <1>2, LargerIs
  <2> QED
    BY <1>1, <1>2, <2>1
<1>4. ~runtime.faulted
  BY <1>1, <1>2 DEF Sound
<1>5. AheadBut(log, spent.ends, {}, now)
  BY <1>4, AheadAny DEF ScheduleInv, LogSound
<1> DEFINE n == Cardinality(Chosen)
<1>6. n \in Nat
  BY <1>2, ChosenFinite
<1>7. ASSUME NEW k \in 0..n, Appends(k)
      PROVE  /\ log' \in Seq(Events) /\ Len(log) < Len(log') /\ Folds(log') /\ Backed(log')
             /\ OnceInARun(log') /\ RunsUpTo(log', spent.ends)
             /\ k = n => AheadBut(log', spent.ends, {}, 0)
  <2>1. PICK q \in InOrder(Chosen) : log' = log \o Delivery(Chosen, q, k)
    BY <1>7 DEF Appends
  <2>2. /\ \A m \in 0..n : Delivering(q, n, m)
        /\ AheadBut(log \o Delivery(Chosen, q, n), spent.ends, {}, now)
    BY <1>2, <1>5, Delivered
  <2>3. Delivering(q, n, k)
    BY <2>2
  <2>4. k = n => AheadBut(log', spent.ends, {}, 0)
    BY <2>1, <2>2, AheadAny
  <2> HIDE DEF n
  <2> QED
    BY <2>1, <2>3, <2>4 DEF Delivering
<1> HIDE DEF n
<1>8. CASE /\ Appends(n) /\ runtime' = [runtime EXCEPT !.run = "delivered"]
           /\ agent' = [phase |-> "maintenance", wake |-> TRUE] /\ UNCHANGED spent
  <2> DEFINE p == [runtime EXCEPT !.run = "delivered"]
  <2>1. p \in Runtimes
    BY <1>2, Zenon DEF Runtimes, RunStages
  <2>2. /\ p.queue = runtime.queue /\ p.run = "delivered" /\ p.stopping = runtime.stopping
        /\ p.faulted = runtime.faulted /\ p.goal = runtime.goal /\ p.timer = runtime.timer
    BY <1>2 DEF Runtimes
  <2>3. runtime' = p
    BY <1>8
  <2> HIDE DEF p
  <2>4. Sound(p)
    BY <2>1, <2>2, <1>1, <1>2, <1>4 DEF Sound
  <2>5. agent' \in Agents /\ Spends /\ n \in 0..n
    BY <1>6, <1>8, Spending DEF Agents
  <2>6. /\ log' \in Seq(Events) /\ Len(log) < Len(log') /\ Folds(log') /\ Backed(log')
        /\ OnceInARun(log') /\ RunsUpTo(log', spent.ends) /\ AheadBut(log', spent.ends, {}, 0)
    BY <2>5, <1>7, <1>8
  <2> QED
    BY <1>1, <1>3, <2>2, <2>3, <2>4, <2>5, <2>6, DeliveryKeeps
<1>9. CASE /\ Trouble /\ UNCHANGED log
           /\ runtime' = [runtime EXCEPT !.run = "undelivered", !.neglected = TRUE]
           /\ agent' = [phase |-> "maintenance", wake |-> FALSE]
  <2> DEFINE p == [runtime EXCEPT !.run = "undelivered", !.neglected = TRUE]
  <2>1. p \in Runtimes
    BY <1>2, Zenon DEF Runtimes, RunStages
  <2>2. /\ p.queue = runtime.queue /\ p.run = "undelivered" /\ p.stopping = runtime.stopping
        /\ p.faulted = runtime.faulted /\ p.goal = runtime.goal /\ p.timer = runtime.timer
    BY <1>2 DEF Runtimes
  <2>3. runtime' = p
    BY <1>9
  <2> HIDE DEF p
  <2>4. Sound(p)
    BY <2>1, <2>2, <1>1, <1>2, <1>4 DEF Sound
  <2>5. agent' \in Agents /\ Spends
    BY <1>9, Spending DEF Agents
  <2>6. Moves(p, calls)
    BY <1>2, <2>2, <2>4, Aside
  <2>7. Moves(runtime', calls')
    BY <1>1, <2>3, <2>6
  <2>8. confirmed' \in Nat /\ confirmed' <= stored' /\ now' \in 0..Horizon
    <3>1. confirmed \in Nat /\ confirmed <= stored /\ now \in 0..Horizon
      BY Fields
    <3> QED
      BY <3>1, <1>1, <1>2, <1>3
  <2> QED
    BY <1>3, <1>9, <2>5, <2>7, <2>8, QuietStep
<1>10. CASE /\ Trouble /\ \E k \in 0..(n - 1) : Appends(k)
            /\ runtime' = Fault(runtime) /\ agent' = [phase |-> "maintenance", wake |-> TRUE]
  <2> DEFINE p == [runtime EXCEPT !.run = "undelivered", !.faulted = TRUE, !.timer = Off]
  <2>1. p \in Runtimes
    BY <1>2, Zenon DEF Runtimes, RunStages
  <2>2. /\ p.queue = runtime.queue /\ p.run = "undelivered" /\ p.stopping = runtime.stopping
        /\ p.faulted /\ p.goal = runtime.goal /\ p.timer = Off
    BY <1>2 DEF Runtimes
  <2>3. runtime' = p
    BY <1>10 DEF Fault
  <2> HIDE DEF p
  <2>4. Sound(p)
    BY <2>1, <2>2, <1>1, <1>2 DEF Sound
  <2>5. agent' \in Agents /\ Spends
    BY <1>10, Spending DEF Agents
  <2>6. PICK k \in 0..(n - 1) : Appends(k)
    BY <1>10
  <2>7. k \in 0..n
    BY <1>6
  <2>8. /\ log' \in Seq(Events) /\ Len(log) < Len(log') /\ Folds(log') /\ Backed(log')
        /\ OnceInARun(log') /\ RunsUpTo(log', spent.ends)
    BY <2>6, <2>7, <1>7
  <2> QED
    BY <1>1, <1>3, <2>2, <2>3, <2>4, <2>5, <2>8, DeliveryKeeps
<1> QED
  BY <1>8, <1>9, <1>10 DEF Delivers, n

(***************************************************************************)
(* The agent, the clock, a restart, and the theorems.                       *)
(***************************************************************************)

\* A prompt, and the maintenance tasks of others.
LEMMA AgentKeeps ==
    ASSUME ScheduleInv, Prompt \/ OtherMaintenanceStarts \/ OtherMaintenanceEnds
    PROVE  ScheduleInv'
<1>1. /\ UNCHANGED <<now, log, stored, runtime, calls, confirmed>>
      /\ UNCHANGED spent \/ Activity
  BY DEF Prompt, OtherMaintenanceStarts, OtherMaintenanceEnds, tools
<1>2. agent \in Agents
  BY Fields
<1>3. agent' \in Agents
  <2>1. CASE Prompt
    BY <1>2, <2>1 DEF Prompt, Agents
  <2>2. CASE OtherMaintenanceStarts
    BY <1>2, <2>2 DEF OtherMaintenanceStarts, Agents
  <2>3. CASE OtherMaintenanceEnds
    BY <1>2, <2>3 DEF OtherMaintenanceEnds, Freed, Agents
  <2> QED
    BY <2>1, <2>2, <2>3
<1>4. Moves(runtime', calls')
  <2>1. Moves(runtime, calls)
    BY Fields, Aside DEF ScheduleInv
  <2> QED
    BY <1>1, <2>1
<1> QED
  BY <1>1, <1>3, <1>4, Fields, Spending, QuietStep

\* A turn ends.
LEMMA TurnEndsKeeps ==
    ASSUME ScheduleInv, TurnEnds
    PROVE  ScheduleInv'
<1>1. /\ UNCHANGED <<now, log, stored, calls, confirmed, spent>>
      /\ agent' = [agent EXCEPT !.phase = "idle"]
      /\ runtime' = RequestDrive(runtime) \/ runtime' = runtime
  BY DEF TurnEnds, Heard, tools
<1>2. agent' \in Agents
  BY <1>1, Fields DEF Agents
<1>3. Moves(runtime, calls) /\ Moves(RequestDrive(runtime), calls)
  BY Fields, Aside, RequestMoves DEF ScheduleInv
<1>4. Moves(runtime', calls')
  BY <1>1, <1>3
<1> QED
  BY <1>1, <1>2, <1>4, Fields, Spending, QuietStep

\* Time passes.
LEMMA TickKeeps ==
    ASSUME ScheduleInv, Tick
    PROVE  ScheduleInv'
<1>1. /\ UNCHANGED <<log, stored, agent, calls, confirmed, spent>>
      /\ now' = Min({now + 1, Horizon})
      /\ runtime' = IF runtime.timer > 0 THEN [runtime EXCEPT !.timer = runtime.timer - 1]
                                         ELSE runtime
  BY DEF Tick, tools
<1>2. /\ now \in 0..Horizon /\ Horizon \in Nat /\ MaxDelay \in Nat /\ runtime \in Runtimes
      /\ Sound(runtime) /\ runtime.goal <= Len(log)
  BY Fields, ScheduleAssumption DEF ScheduleInv
<1>3. now' \in 0..Horizon
  <2> DEFINE A == {now + 1, Horizon}
  <2>1. A \in SUBSET Nat /\ A # {} /\ Horizon \in A
    BY <1>2
  <2>2. now' = Min(A)
    BY <1>1
  <2> HIDE DEF A
  <2>3. Min(A) \in Nat /\ Min(A) <= Horizon
    BY <2>1, LeastIs
  <2> QED
    BY <1>2, <2>2, <2>3
<1>4. CASE runtime.timer > 0
  <2> DEFINE t == runtime.timer - 1
             p == [runtime EXCEPT !.timer = t]
  <2>1. runtime.timer \in Off..MaxDelay
    BY <1>2 DEF Runtimes
  <2>2. t \in Off..MaxDelay /\ runtime.timer # Off
    BY <1>2, <1>4, <2>1 DEF Off
  <2> HIDE DEF t
  <2>3. p \in Runtimes
    BY <1>2, <2>2, Zenon DEF Runtimes
  <2>4. /\ p.queue = runtime.queue /\ p.run = runtime.run /\ p.stopping = runtime.stopping
        /\ p.faulted = runtime.faulted /\ p.goal = runtime.goal
    BY <1>2 DEF Runtimes
  <2>5. runtime' = p
    BY <1>1, <1>4 DEF t
  <2> HIDE DEF p
  <2>6. Sound(p)
    BY <1>2, <2>2, <2>3, <2>4 DEF Sound
  <2>7. Moves(p, calls)
    BY <1>2, <2>4, <2>6, Aside
  <2>8. Moves(runtime', calls')
    BY <1>1, <2>5, <2>7
  <2> QED
    BY <1>1, <1>3, <2>8, Fields, Spending, QuietStep
<1>5. CASE ~(runtime.timer > 0)
  <2>1. runtime' = runtime
    BY <1>1, <1>5
  <2>2. Moves(runtime, calls)
    BY <1>2, Aside
  <2>3. Moves(runtime', calls')
    BY <1>1, <2>1, <2>2
  <2> QED
    BY <1>1, <1>3, <2>3, Fields, Spending, QuietStep
<1> QED
  BY <1>4, <1>5

\* The wall clock is set.
LEMMA ClockIsSetKeeps ==
    ASSUME ScheduleInv, ClockIsSet
    PROVE  ScheduleInv'
<1>1. /\ Trouble /\ UNCHANGED <<log, stored, runtime, agent, calls, confirmed>>
      /\ now' \in 0..Horizon
  BY DEF ClockIsSet, tools
<1>2. Moves(runtime, calls)
  BY Fields, Aside DEF ScheduleInv
<1>3. Moves(runtime', calls')
  BY <1>1, <1>2
<1> QED
  BY <1>1, <1>3, Fields, Spending, QuietStep

\* A runtime that is new.
LEMMA Fresh ==
    /\ Sound(RequestDrive(NewOwner)) /\ RequestDrive(NewOwner).goal = 0
    /\ ~RequestDrive(NewOwner).stopping
    /\ \A c \in Calls : ~In(c, RequestDrive(NewOwner).queue)
<1>1. NewOwner \in Runtimes
  <2>1. <<>> \in Seq(0..MaxCalls) /\ Off \in Off..MaxDelay /\ 0 \in Nat
    BY ScheduleAssumption DEF Off
  <2> QED
    BY <2>1, Zenon DEF NewOwner, Runtimes, RunStages
<1>2. /\ NewOwner.queue = <<>> /\ NewOwner.run = "none" /\ ~NewOwner.stopping /\ ~NewOwner.faulted
      /\ NewOwner.goal = 0
  BY DEF NewOwner
<1>3. DOMAIN <<>> = {}
  <2>1. DOMAIN <<>> = 1..Len(<<>>) /\ Len(<<>>) = 0
    OBVIOUS
  <2> QED
    BY <2>1
<1>4. Distinct(<<>>) /\ \A t : ~In(t, <<>>)
  BY <1>3 DEF Distinct, In
<1>5. Sound(NewOwner)
  BY <1>1, <1>2, <1>4 DEF Sound, Inside
<1>6. Sound(RequestDrive(NewOwner)) /\ Keeps(NewOwner, RequestDrive(NewOwner))
      /\ RequestDrive(NewOwner).goal = 0
  BY <1>2, <1>5, Requested
<1>7. /\ ~RequestDrive(NewOwner).stopping
      /\ \A c \in Calls : ~In(c, RequestDrive(NewOwner).queue)
  BY <1>2, <1>4, <1>6 DEF Keeps
<1> QED
  BY <1>6, <1>7

Untouched == [c \in Calls |-> NoCall]

\* No call runs, and none has a goal.
LEMMA NoneRuns ==
    /\ Untouched \in [Calls -> Places]
    /\ \A c \in Calls : Untouched[c].stage = "none" /\ Untouched[c].goal = 0
BY DEF Untouched, NoCall, Places

\* An agent that is new, on a log that earlier runs left.
NewOn ==
    /\ now \in 0..Horizon /\ log \in Seq(Events) /\ stored = Len(log)
    /\ runtime = RequestDrive(NewOwner) /\ agent = [phase |-> "idle", wake |-> FALSE]
    /\ calls = Untouched /\ confirmed \in Nat /\ confirmed <= stored
    /\ spent \in [activity : Nat, troubles : Nat, ends : Nat]
    /\ Folds(log) /\ Backed(log) /\ OnceInARun(log)
    /\ \A i \in Reminders(log) : log[i].run < spent.ends

\* It satisfies the invariant.
LEMMA NewAgent == NewOn => ScheduleInv
<1> SUFFICES ASSUME NewOn PROVE ScheduleInv
  OBVIOUS
<1> USE DEF NewOn
<1>1. Len(log) \in Nat /\ stored \in 0..Len(log) /\ spent.ends \in Nat
  BY LenProperties
<1>2. ScheduleTypes
  BY <1>1, NoneRuns DEF ScheduleTypes, Agents
<1>3. /\ Sound(runtime) /\ runtime.goal = 0 /\ ~runtime.stopping
      /\ \A c \in Calls : ~In(c, runtime.queue)
  BY Fresh
<1>4. Placed(runtime, calls)
  BY <1>3, NoneRuns DEF Placed
<1>5. GoalsReached
  BY <1>1, <1>3, NoneRuns DEF GoalsReached
<1>6. \A i \in Reminders(log) : log[i].run <= spent.ends /\ log[i].run # spent.ends
  <2> SUFFICES ASSUME NEW i \in Reminders(log)
               PROVE  log[i].run <= spent.ends /\ log[i].run # spent.ends
    OBVIOUS
  <2>1. log[i].run \in Int /\ log[i].run < spent.ends
    BY ItemsRun
  <2> QED
    BY <2>1, <1>1
<1>7. RunsUpTo(log, spent.ends) /\ AheadBut(log, spent.ends, {}, 0)
  BY <1>6 DEF RunsUpTo, AheadBut
<1>8. LogSound
  BY <1>7 DEF LogSound
<1>9. StopsForGood /\ AnswersAreDurable
  BY <1>3 DEF StopsForGood, AnswersAreDurable
<1> QED
  BY <1>2, <1>3, <1>4, <1>5, <1>8, <1>9 DEF ScheduleInv

\* So does the first one.
LEMMA InitKeeps == ScheduleInit => ScheduleInv
<1> SUFFICES ASSUME ScheduleInit PROVE ScheduleInv
  OBVIOUS
<1>1. /\ now = 0 /\ log \in InitialLogs /\ stored = Len(log) /\ runtime = RequestDrive(NewOwner)
      /\ agent = [phase |-> "idle", wake |-> FALSE] /\ calls = Untouched /\ confirmed = 0
      /\ spent = [activity |-> 0, troubles |-> 0, ends |-> 0]
  BY DEF ScheduleInit, Untouched
<1>2. /\ log \in Seq(Events) /\ Folds(log) /\ Backed(log) /\ OnceInARun(log)
      /\ \A i \in Reminders(log) : log[i].run < 0
  BY <1>1, InitialLogsAssumption
<1>3. now \in 0..Horizon /\ Len(log) \in Nat
  BY <1>1, <1>2, ScheduleAssumption, LenProperties
<1>4. confirmed \in Nat /\ confirmed <= stored
  BY <1>1, <1>3
<1>5. spent \in [activity : Nat, troubles : Nat, ends : Nat] /\ spent.ends = 0
  BY <1>1
<1>6. NewOn
  BY <1>1, <1>2, <1>3, <1>4, <1>5 DEF NewOn
<1> QED
  BY <1>6, NewAgent

\* An agent is resumed on what was stored.
LEMMA RestartKeeps ==
    ASSUME ScheduleInv, Restart
    PROVE  ScheduleInv'
<1>1. /\ runtime' = RequestDrive(NewOwner) /\ agent' = [phase |-> "idle", wake |-> FALSE]
      /\ calls' = Untouched /\ UNCHANGED <<now, confirmed>>
      /\ spent' = [spent EXCEPT !.ends = spent.ends + 1]
  BY DEF Restart, Ends, Untouched
<1>2. PICK n \in stored..Len(log) : log' = SubSeq(log, 1, n) /\ stored' = n
  BY DEF Restart
<1>3. /\ log \in Seq(Events) /\ Len(log) \in Nat /\ stored \in Nat /\ confirmed \in Nat
      /\ confirmed <= stored /\ spent.ends \in Nat /\ now \in 0..Horizon
      /\ spent \in [activity : Nat, troubles : Nat, ends : Nat]
  BY Fields
<1>4. n \in 0..Len(log) /\ confirmed <= n /\ spent.ends + 1 \in Nat /\ spent.ends \in Int
  BY <1>3
<1>5. Folds(log) /\ Backed(log) /\ OnceInARun(log) /\ RunsUpTo(log, spent.ends)
  BY DEF ScheduleInv, LogSound
<1>6. /\ log' \in Seq(Events) /\ Len(log') = n
      /\ Folds(log') /\ Backed(log') /\ OnceInARun(log') /\ RunsUpTo(log', spent.ends)
  BY <1>2, <1>3, <1>4, <1>5, CutShort
<1>7. spent' \in [activity : Nat, troubles : Nat, ends : Nat] /\ spent'.ends = spent.ends + 1
  BY <1>1, <1>3, <1>4
<1>8. \A i \in Reminders(log') : log'[i].run < spent'.ends
  <2> DEFINE es == log'
  <2>1. es \in Seq(Events) /\ RunsUpTo(es, spent.ends)
    BY <1>6
  <2> HIDE DEF es
  <2>2. ASSUME NEW i \in Reminders(es) PROVE es[i].run < spent.ends + 1
    <3>1. es[i].run \in Int /\ es[i].run <= spent.ends
      BY <2>1, ItemsRun DEF RunsUpTo
    <3> QED
      BY <3>1, <1>3
  <2> QED
    BY <2>2, <1>7 DEF es
<1>9. NewOn'
  BY <1>1, <1>2, <1>3, <1>4, <1>6, <1>7, <1>8 DEF NewOn
<1>10. NewOn' => ScheduleInv'
  BY NewAgent, PTL
<1> QED
  BY <1>9, <1>10

\* Every step keeps the invariant.
LEMMA StepKeeps ==
    ASSUME ScheduleInv, [ScheduleNext]_scheduleVars
    PROVE  ScheduleInv'
<1>1. CASE UNCHANGED scheduleVars
  <2>1. UNCHANGED <<now, log, stored, runtime, agent, calls, confirmed, spent>>
    BY <1>1 DEF scheduleVars, tools
  <2>2. Moves(runtime, calls)
    BY Fields, Aside DEF ScheduleInv
  <2>3. Moves(runtime', calls')
    BY <2>1, <2>2
  <2> QED
    BY <2>1, <2>3, Fields, Spending, QuietStep
<1>2. CASE DriveStarts \/ PreflightFails \/ DriveRests \/ Delivers
  BY <1>2, DriveStartsKeeps, PreflightFailsKeeps, DriveRestsKeeps, DeliversKeeps
<1>3. CASE MaintenanceEnds \/ BarrierEnds \/ Retire \/ TimerFires \/ IdleWaitEnds \/ Dispose
  BY <1>3, MaintenanceEndsKeeps, BarrierEndsKeeps, RetireKeeps, TimerFiresKeeps,
     IdleWaitEndsKeeps, DisposeKeeps
<1>4. ASSUME NEW c \in Calls,
             \/ Call(c, "create", 0) \/ Call(c, "list", 0)
             \/ \E id \in Seen(log) : Call(c, "delete", id)
      PROVE  ScheduleInv'
  <2>1. Seen(log) \in SUBSET Nat
    <3> SUFFICES ASSUME NEW j \in DOMAIN log PROVE log[j].id \in Nat
      BY DEF Seen
    <3>1. log \in Seq(Events)
      BY Fields
    <3>2. log[j] \in Events
      BY <3>1, ElementOfSeq, LenProperties
    <3> QED
      BY <3>2, EventHas
  <2>2. 0 \in Nat
    OBVIOUS
  <2>3. CASE Call(c, "create", 0) \/ Call(c, "list", 0)
    BY <2>2, <2>3, CallKeeps
  <2>4. CASE \E id \in Seen(log) : Call(c, "delete", id)
    BY <2>1, <2>4, CallKeeps
  <2> QED
    BY <1>4, <2>3, <2>4
<1>5. ASSUME NEW c \in Calls, CallStarts(c) \/ CallPreflighted(c) \/ CallEnds(c)
      PROVE  ScheduleInv'
  BY <1>5, CallStartsKeeps, CallPreflightedKeeps, CallEndsKeeps
<1>6. CASE Prompt \/ TurnEnds \/ OtherMaintenanceStarts \/ OtherMaintenanceEnds
  BY <1>6, AgentKeeps, TurnEndsKeeps
<1>7. CASE Tick \/ ClockIsSet \/ Restart
  BY <1>7, TickKeeps, ClockIsSetKeeps, RestartKeeps
<1> QED
  BY <1>1, <1>2, <1>3, <1>4, <1>5, <1>6, <1>7 DEF ScheduleNext

\* Whatever timers, turns, calls, failures, clock changes, disposals and crashes
\* come between, every state satisfies the invariant.
THEOREM ScheduleInvariant == ScheduleSpec => []ScheduleInv
<1>1. ScheduleInit => ScheduleInv
  BY InitKeeps
<1>2. ScheduleInv /\ [ScheduleNext]_scheduleVars => ScheduleInv'
  BY StepKeeps
<1> QED
  BY <1>1, <1>2, PTL DEF ScheduleSpec

\* The state is typed, no timer reaches further than MAX_TIMER_DELAY_MS, and no
\* transaction is in the agent's queue twice (arm, runScheduleTransaction).
THEOREM ScheduleTyped == ScheduleSpec => []ScheduleTypeOK
<1>1. ScheduleInv => ScheduleTypeOK
  <2> SUFFICES ASSUME ScheduleInv PROVE ScheduleTypeOK
    OBVIOUS
  <2>1. /\ now \in 0..Horizon /\ stored \in 0..Len(log) /\ log \in Seq(Events)
        /\ agent \in Agents /\ runtime \in Runtimes
    BY Fields
  <2>2. runtime.timer \in Off..MaxDelay /\ runtime.run \in RunStages
    BY <2>1 DEF Runtimes
  <2>3. Distinct(runtime.queue)
    BY DEF ScheduleInv, Sound
  <2> QED
    BY <2>1, <2>2, <2>3 DEF ScheduleTypeOK, Agents, RunStages, Distinct
<1> QED
  BY <1>1, ScheduleInvariant, PTL

\* The log always folds, every dispatch was queued, no run queues an occurrence
\* twice or queues one behind its disposal, and no tool tells what a crash could
\* take back (driveOnce, requestDrive, dispose, the management tools).
THEOREM RemindersKept == ScheduleSpec => []RemindersHold
<1>1. ScheduleInv => RemindersHold
  BY DEF ScheduleInv, LogSound, RemindersHold, LogFolds, DispatchesAreBacked, QueuedOnce
<1> QED
  BY <1>1, ScheduleInvariant, PTL
=============================================================================
