------------------------ MODULE ToolSchedulerProofs ------------------------
(***************************************************************************)
(* Proofs about ToolScheduler, for any number of calls and any limit of the *)
(* pool.                                                                    *)
(***************************************************************************)
EXTENDS ToolScheduler, SequenceTheorems, FiniteSetTheorems, TLAPS

\* The stages in which a group is under way.
InGroup == pc \in {"prepare", "advance", "commit", "race"}

\* The counters: what was consumed, committed and started, in this order.
Counters ==
    /\ next <= committed /\ committed <= started
    /\ InGroup => next < started
    /\ pc = "classify" => next = started /\ committed = started
    /\ pc = "skip" => committed = started /\ aborted
    /\ pc = "commit" => committed + 1 \in slots

\* The counters and the log.
LogAgrees ==
    /\ pc \in {"skip", "done"} \/ Len(called) = started
    /\ pc \in {"skip", "done", "drain"} \/ Len(answered) = committed
    /\ Len(answered) <= Len(called) /\ Len(called) <= N
    /\ pc = "skip" => Len(called) <= Len(answered) + 1
    /\ pc = "skip" => Len(answered) >= started

\* The calls of the group: each is committed, in its slot, in flight, or being
\* prepared, unless a failure was recorded.
CallsTracked ==
    /\ slots \subseteq 1..started /\ 1..committed \subseteq slots
    /\ ~failed => settled \subseteq slots
    /\ ~failed => \A i \in (committed + 1)..started :
                     i \in slots \/ i \in inFlight \/ (pc = "prepare" /\ i = started)

\* The calls in flight are calls of the group.
FlightTracked ==
    /\ inFlight \subseteq (next + 1)..started
    /\ pc = "prepare" => started \notin inFlight
    /\ pc \in {"classify", "skip"} => inFlight = {}
    /\ pc = "done" => inFlight \subseteq settled
    /\ Running \subseteq inFlight
    /\ Cardinality(inFlight) <= MaxParallel
    /\ pc = "prepare" => Cardinality(inFlight) < MaxParallel

\* A parallel group starts no exclusive call, an exclusive group only one.
GroupsPure ==
    /\ mode = "parallel" => ((next + 1)..started) \cap barred = {}
    /\ mode = "exclusive" => started <= next + 1
    /\ barred \subseteq 1..started

\* How execution ends.
EndAgrees ==
    /\ pc = "done" <=> outcome # "none"
    /\ pc = "drain" => failed

IInv ==
    /\ TypeOK /\ Counters /\ LogAgrees /\ CallsTracked /\ FlightTracked /\ GroupsPure
    /\ EndAgrees /\ ResultsEarned /\ RejectsForCause

(***************************************************************************)
(* Initially.                                                               *)
(***************************************************************************)

LEMMA InitHolds == Init => IInv
<1> SUFFICES ASSUME Init PROVE IInv OBVIOUS
<1>1. TypeOK
  <2>1. called \in Seq(Calls) /\ answered \in Seq(Calls) BY EmptySeq DEF Init
  <2>2. 0 \in 0..N BY BoundsAssumption
  <2> QED BY <2>1, <2>2 DEF Init, TypeOK, Stages
<1>2. Len(called) = 0 /\ Len(answered) = 0 BY EmptySeq DEF Init
<1>3. Cardinality(inFlight) = 0 BY FS_EmptySet DEF Init
<1> QED
  BY <1>1, <1>2, <1>3, BoundsAssumption
  DEF Init, IInv, Counters, LogAgrees, CallsTracked, FlightTracked, GroupsPure, EndAgrees,
      ResultsEarned, RejectsForCause, InGroup, Running

(***************************************************************************)
(* What runs beside the scheduler.                                          *)
(***************************************************************************)

LEMMA BesideStep ==
    ASSUME IInv,
           \/ Abort
           \/ \E i \in Calls : Reclassify(i) \/ BodyStarts(i) \/ Dispatch(i)
    PROVE  IInv'
<1> USE DEF IInv, TypeOK, Counters, LogAgrees, CallsTracked, FlightTracked, GroupsPure,
            EndAgrees, ResultsEarned, RejectsForCause, InGroup, Running, registry, group, log
<1>1. CASE Abort BY <1>1 DEF Abort
<1>2. ASSUME NEW i \in Calls, Reclassify(i) PROVE IInv'
  <2>1. /\ exclusive' \subseteq Calls
        /\ UNCHANGED <<signal, pc, group, started, committed, slots, inFlight, registry,
                       failed, barred, log, outcome>>
    BY <1>2 DEF Reclassify
  <2>2. TypeOK' /\ Counters' /\ LogAgrees' /\ CallsTracked' BY <2>1
  <2>3. FlightTracked' /\ GroupsPure' BY <2>1
  <2>4. EndAgrees' /\ ResultsEarned' /\ RejectsForCause' BY <2>1
  <2> QED BY <2>2, <2>3, <2>4
<1>3. ASSUME NEW i \in Calls, BodyStarts(i) PROVE IInv'
  <2>1. /\ i \in inFlight \ (settled \cup invoked) /\ invoked' = invoked \cup {i}
        /\ UNCHANGED <<exclusive, signal, pc, group, started, committed, slots, inFlight,
                       settled, failed, barred, log, outcome>>
    BY <1>3 DEF BodyStarts
  <2>2. TypeOK' /\ Counters' /\ LogAgrees' /\ CallsTracked' /\ FlightTracked' BY <2>1
  <2>3. GroupsPure' /\ EndAgrees' /\ ResultsEarned' /\ RejectsForCause' BY <2>1
  <2> QED BY <2>2, <2>3
<1>4. ASSUME NEW i \in Calls, DispatchSettles(i) PROVE IInv'
  <2>1. /\ i \in inFlight \ settled
        /\ settled' = settled \cup {i} /\ slots' = slots \cup {i}
        /\ UNCHANGED <<exclusive, signal, pc, group, started, committed, inFlight,
                       failed, invoked, barred, log, outcome>>
    BY <1>4 DEF DispatchSettles
  <2>2. TypeOK' /\ Counters' /\ LogAgrees' /\ CallsTracked' BY <2>1
  <2>3. FlightTracked' BY <2>1
  <2>4. GroupsPure' /\ EndAgrees' /\ ResultsEarned' /\ RejectsForCause' BY <2>1
  <2> QED BY <2>2, <2>3, <2>4
<1>5. ASSUME NEW i \in Calls, DispatchRejects(i) PROVE IInv' BY <1>5 DEF DispatchRejects
<1> QED BY <1>1, <1>2, <1>3, <1>4, <1>5 DEF Dispatch

(***************************************************************************)
(* The scheduler.                                                           *)
(***************************************************************************)

\* Filling the pool, from the caller's loop or from the group's.
LEMMA FillStep ==
    ASSUME IInv, NEW stop \in BOOLEAN, NEW m \in {"exclusive", "parallel"},
           Fill(stop, m), mode' = m, aborted' = stop,
           \/ pc = "classify" /\ next < N /\ (m = "parallel" => next + 1 \notin exclusive)
           \/ pc = "advance" /\ m = mode /\ ~failed /\ ~Ready,
           UNCHANGED <<exclusive, signal, committed, slots, inFlight, registry, failed, answered>>
    PROVE  IInv'
<1> USE DEF IInv, TypeOK, Stages, Counters, LogAgrees, CallsTracked, FlightTracked,
            GroupsPure, EndAgrees, ResultsEarned, RejectsForCause, InGroup, Running, registry
<1>1. CASE StartCall /\ ~stop /\ started < GroupEnd(m)
             /\ Cardinality(inFlight) < MaxParallel /\ ~Barrier(m)
  <2>1. started + 1 \in Calls /\ started + 1 \in 0..N 
    BY <1>1, BoundsAssumption DEF GroupEnd, Calls
  <2>2. called' \in Seq(Calls) /\ Len(called') = Len(called) + 1
    BY <1>1, <2>1, AppendProperties DEF StartCall
  <2>3. TypeOK' BY <1>1, <2>1, <2>2 DEF StartCall
  <2>4. Counters' /\ LogAgrees' BY <1>1, <2>1, <2>2 DEF StartCall
  <2>5. CallsTracked' /\ FlightTracked' BY <1>1, <2>1 DEF StartCall
  <2>6. GroupsPure' BY <1>1, <2>1 DEF StartCall, Barrier, GroupEnd
  <2>7. EndAgrees' /\ ResultsEarned' /\ RejectsForCause' BY <1>1, <2>1 DEF StartCall
  <2> QED BY <2>3, <2>4, <2>5, <2>6, <2>7
<1>2. CASE EndGroup(stop)
  <2>1. inFlight = {} => committed = started
    <3>1. CASE pc = "classify" BY <3>1
    <3>2. CASE pc = "advance" /\ ~failed /\ ~Ready
      <4> SUFFICES ASSUME inFlight = {}, committed < started PROVE FALSE OBVIOUS
      <4>1. committed + 1 \in (committed + 1)..started OBVIOUS
      <4> QED BY <3>2, <4>1 DEF Ready
    <3> QED BY <3>1, <3>2
  <2>2. TypeOK' BY <1>2 DEF EndGroup
  <2>3. Counters' BY <1>2, <2>1 DEF EndGroup
  <2>7. LogAgrees'
    <3>1. Len(called) = started /\ Len(answered) = committed
          /\ pc' \in {"race", "skip", "done", "classify"}
          /\ UNCHANGED <<called, answered, started, committed>>
      BY <1>2 DEF EndGroup
    <3>2. pc' = "skip" => committed = started BY <1>2, <2>1 DEF EndGroup
    <3> QED BY <3>1, <3>2
  <2>4. CallsTracked' /\ FlightTracked' BY <1>2, <2>1 DEF EndGroup
  <2>5. GroupsPure' BY <1>2 DEF EndGroup
  <2>6. EndAgrees' /\ ResultsEarned' /\ RejectsForCause' BY <1>2, <2>1 DEF EndGroup
  <2> QED BY <2>2, <2>3, <2>4, <2>5, <2>6, <2>7
<1> QED BY <1>1, <1>2 DEF Fill

LEMMA SchedulerStep ==
    ASSUME IInv, Scheduler
    PROVE  IInv'
<1> USE DEF IInv, TypeOK, Stages, Counters, LogAgrees, CallsTracked, FlightTracked,
            GroupsPure, EndAgrees, ResultsEarned, RejectsForCause, InGroup, Running,
            registry, group, log
<1>1. CASE Classify
  <2>1. CASE next = N BY <1>1, <2>1 DEF Classify
  <2>2. CASE next # N
    <3>1. /\ Fill(aborted', mode') /\ mode' \in {"exclusive", "parallel"}
          /\ pc = "classify" /\ (mode' = "parallel" => next + 1 \notin exclusive)
          /\ UNCHANGED <<exclusive, signal, committed, slots, inFlight, registry, failed, answered>>
      BY <1>1, <2>2 DEF Classify
    <3>2. aborted' \in BOOLEAN BY <1>1, <2>2 DEF Classify
    <3>3. next < N BY <2>2, BoundsAssumption
    <3> QED BY <3>1, <3>2, <3>3, FillStep
  <2> QED BY <2>1, <2>2
<1>2. ASSUME NEW dispatches \in BOOLEAN, PrepareSettles(dispatches) PROVE IInv'
  <2>1. started \in Calls BY <1>2 DEF PrepareSettles, Calls
  <2>2. CASE failed BY <1>2, <2>2 DEF PrepareSettles, Throw
  <2>3. CASE ~failed /\ dispatches
    <3>1. IsFiniteSet(inFlight)
      <4>1. IsFiniteSet((next + 1)..started) BY FS_Interval
      <4> QED BY <4>1, FS_Subset
    <3>2. Cardinality(inFlight \cup {started}) <= MaxParallel
      <4>1. Cardinality(inFlight) \in Nat BY <3>1, FS_CardinalityType
      <4>2. Cardinality(inFlight \cup {started}) = Cardinality(inFlight) + 1
        BY <1>2, <3>1, FS_AddElement DEF PrepareSettles
      <4>3. Cardinality(inFlight) < MaxParallel BY <1>2 DEF PrepareSettles
      <4> QED BY <4>1, <4>2, <4>3, BoundsAssumption
    <3>3. /\ pc = "prepare" /\ pc' = "advance" /\ inFlight' = inFlight \cup {started}
          /\ UNCHANGED <<exclusive, signal, group, started, committed, slots, registry,
                         failed, barred, log, outcome>>
      BY <1>2, <2>3 DEF PrepareSettles
    <3>4. TypeOK' /\ Counters' /\ LogAgrees' BY <2>1, <3>3
    <3>5. CallsTracked' BY <2>1, <2>3, <3>3
    <3>6. FlightTracked' BY <2>1, <3>2, <3>3
    <3>7. GroupsPure' /\ EndAgrees' /\ ResultsEarned' /\ RejectsForCause' BY <3>3
    <3> QED BY <3>4, <3>5, <3>6, <3>7
  <2>4. CASE ~failed /\ ~dispatches
    <3>1. /\ pc = "prepare" /\ pc' = "advance" /\ slots' = slots \cup {started}
          /\ UNCHANGED <<exclusive, signal, group, started, committed, inFlight, registry,
                         failed, barred, log, outcome>>
      BY <1>2, <2>4 DEF PrepareSettles
    <3>2. TypeOK' /\ Counters' /\ LogAgrees' BY <2>1, <3>1
    <3>3. CallsTracked' BY <2>1, <2>4, <3>1 DEF Calls
    <3>4. FlightTracked' BY <3>1
    <3>5. GroupsPure' /\ EndAgrees' /\ ResultsEarned' /\ RejectsForCause' BY <3>1
    <3> QED BY <3>2, <3>3, <3>4, <3>5
  <2> QED BY <2>2, <2>3, <2>4
<1>3. CASE PrepareFails BY <1>3 DEF PrepareFails, Throw
<1>4. CASE Advance
  <2>1. CASE Ready BY <1>4, <2>1 DEF Advance, Ready
  <2>2. CASE ~Ready /\ failed BY <1>4, <2>2 DEF Advance, Throw
  <2>3. CASE ~Ready /\ ~failed
    <3>1. /\ Fill(aborted', mode') /\ mode' = mode /\ aborted' = NoticedAbort
          /\ pc = "advance"
          /\ UNCHANGED <<exclusive, signal, committed, slots, inFlight, registry, failed, answered>>
      BY <1>4, <2>3 DEF Advance
    <3>2. aborted' \in BOOLEAN BY <3>1 DEF NoticedAbort
    <3>3. mode' \in {"exclusive", "parallel"} BY <3>1
    <3> QED BY <2>3, <3>1, <3>2, <3>3, FillStep
  <2> QED BY <2>1, <2>2, <2>3
<1>5. CASE CommitResult
  <2>1. committed + 1 \in Calls BY <1>5 DEF CommitResult, Calls
  <2>2. answered' \in Seq(Calls) /\ Len(answered') = Len(answered) + 1
    BY <1>5, <2>1, AppendProperties DEF CommitResult
  <2> QED BY <1>5, <2>1, <2>2 DEF CommitResult, Calls
<1>6. CASE CommitFails
  <2>1. committed + 1 \in Calls BY <1>6 DEF CommitFails, Calls
  <2>2. /\ answered' \in Seq(Calls)
        /\ Len(answered') = Len(answered) \/ Len(answered') = Len(answered) + 1
    BY <1>6, <2>1, AppendProperties DEF CommitFails
  <2>3. /\ pc = "commit" /\ failed' = TRUE /\ pc' = "drain"
        /\ UNCHANGED <<exclusive, signal, group, started, committed, slots, inFlight, registry,
                       barred, called, outcome>>
    BY <1>6 DEF CommitFails, Throw
  <2>4. TypeOK' /\ Counters' /\ LogAgrees' BY <2>1, <2>2, <2>3
  <2>5. CallsTracked' /\ FlightTracked' BY <2>3
  <2>6. GroupsPure' /\ EndAgrees' /\ ResultsEarned' /\ RejectsForCause' BY <2>1, <2>2, <2>3
  <2> QED BY <2>4, <2>5, <2>6
<1>7. ASSUME NEW i \in Calls, RaceSettles(i) PROVE IInv'
  <2>1. IsFiniteSet(inFlight)
    <3>1. IsFiniteSet((next + 1)..started) BY FS_Interval
    <3> QED BY <3>1, FS_Subset
  <2>2. Cardinality(inFlight \ {i}) <= MaxParallel

    <3>1. Cardinality(inFlight) \in Nat BY <2>1, FS_CardinalityType
    <3>2. \/ Cardinality(inFlight \ {i}) = Cardinality(inFlight)
          \/ Cardinality(inFlight \ {i}) = Cardinality(inFlight) - 1
      BY <2>1, FS_RemoveElement
    <3> QED BY <3>1, <3>2, BoundsAssumption
  <2> QED BY <1>7, <2>2 DEF RaceSettles, WithoutWinner, Throw
<1>8. CASE Drained BY <1>8 DEF Drained
<1>9. CASE Skip
  <2>1. Len(called) \in Nat /\ Len(answered) \in Nat BY LenProperties
  <2>2. CASE Len(answered) = N BY <1>9, <2>1, <2>2 DEF Skip
  <2>3. CASE Len(answered) # N /\ Len(called) = Len(answered)
    <3>1. Len(called) < N BY <2>1, <2>3, BoundsAssumption
    <3>2. Len(called) + 1 \in Calls BY <2>1, <3>1, BoundsAssumption DEF Calls
    <3>3. called' = Append(called, Len(called) + 1) /\ answered' = answered
          /\ pc = "skip" /\ pc' = "skip" /\ outcome' = outcome
          /\ UNCHANGED <<exclusive, signal, group, started, committed, slots, inFlight,
                         registry, failed, barred>>
      BY <1>9, <2>3 DEF Skip
    <3>4. called' \in Seq(Calls) /\ Len(called') = Len(called) + 1
      BY <3>2, <3>3, AppendProperties
    <3>5. TypeOK' BY <3>3, <3>4
    <3>6. Counters' /\ LogAgrees' BY <2>1, <2>3, <3>1, <3>3, <3>4, BoundsAssumption
    <3>7. CallsTracked' /\ FlightTracked' /\ GroupsPure' BY <3>3
    <3>8. ResultsEarned' BY <3>3
    <3> QED BY <3>3, <3>5, <3>6, <3>7, <3>8
  <2>4. CASE Len(answered) # N /\ Len(called) # Len(answered)
    <3>1. Len(answered) < Len(called) /\ Len(called) <= N BY <2>1, <2>4
    <3>2. Len(answered) + 1 \in Calls BY <2>1, <3>1, BoundsAssumption DEF Calls
    <3>3. answered' = Append(answered, Len(answered) + 1) /\ called' = called
          /\ pc = "skip" /\ pc' = "skip" /\ outcome' = outcome
          /\ UNCHANGED <<exclusive, signal, group, started, committed, slots, inFlight,
                         registry, failed, barred>>
      BY <1>9, <2>4 DEF Skip
    <3>4. answered' \in Seq(Calls) /\ Len(answered') = Len(answered) + 1
      BY <3>2, <3>3, AppendProperties
    <3>5. TypeOK' BY <3>3, <3>4
    <3>6. Counters' /\ LogAgrees' BY <2>1, <3>1, <3>3, <3>4
    <3>7. CallsTracked' /\ FlightTracked' /\ GroupsPure' BY <3>3
    <3>8. ResultsEarned' BY <2>1, <3>3, <3>4
    <3> QED BY <3>3, <3>5, <3>6, <3>7, <3>8
  <2> QED BY <2>2, <2>3, <2>4
<1> QED BY <1>1, <1>2, <1>3, <1>4, <1>5, <1>6, <1>7, <1>8, <1>9 DEF Scheduler

(***************************************************************************)
(* The theorems.                                                            *)
(***************************************************************************)

\* The inductive invariant holds in every reachable state.
THEOREM Inductive == Spec => []IInv
<1>1. Init => IInv BY InitHolds
<1>2. IInv /\ [Next]_vars => IInv'
  <2> SUFFICES ASSUME IInv, [Next]_vars PROVE IInv' OBVIOUS
  <2>1. CASE Next BY <2>1, BesideStep, SchedulerStep DEF Next
  <2>2. CASE UNCHANGED vars
    BY <2>2 DEF vars, IInv, TypeOK, Counters, LogAgrees, CallsTracked, FlightTracked,
       GroupsPure, EndAgrees, ResultsEarned, RejectsForCause, InGroup, Running
  <2> QED BY <2>1, <2>2
<1> QED BY <1>1, <1>2, PTL DEF Spec

\* The scheduler's variables keep their types.
THEOREM TypeCorrect == Spec => []TypeOK
<1>1. IInv => TypeOK BY DEF IInv
<1> QED BY <1>1, Inductive, PTL

\* An exclusive call runs alone and the pool stays within its limit, whatever
\* the registry reclassifies meanwhile (fillPool, runGroup).
THEOREM BarriersKept == Spec => []BarriersHold
<1>1. IInv => BarriersHold
  <2> SUFFICES ASSUME IInv PROVE BarriersHold OBVIOUS
  <2>1. Cardinality(Running) <= MaxParallel
    <3>1. IsFiniteSet((next + 1)..started) BY FS_Interval DEF IInv, TypeOK
    <3>2. IsFiniteSet(inFlight) BY <3>1, FS_Subset DEF IInv, FlightTracked
    <3>3. IsFiniteSet(Running) /\ Cardinality(Running) <= Cardinality(inFlight)
      BY <3>2, FS_Subset DEF IInv, FlightTracked
    <3>4. Cardinality(Running) \in Nat /\ Cardinality(inFlight) \in Nat
      BY <3>2, <3>3, FS_CardinalityType
    <3>5. Cardinality(inFlight) <= MaxParallel BY DEF IInv, FlightTracked
    <3> QED BY <3>3, <3>4, <3>5, BoundsAssumption
  <2>2. ASSUME NEW i \in Running \cap barred PROVE Running = {i}
    <3>1. Running \subseteq (next + 1)..started BY DEF IInv, FlightTracked
    <3>2. mode = "exclusive" BY <2>2, <3>1 DEF IInv, GroupsPure, TypeOK
    <3>3. started <= next + 1 /\ started \in Nat /\ next \in Nat
      BY <3>2 DEF IInv, GroupsPure, TypeOK
    <3>4. \A j \in Running : j = next + 1 BY <3>1, <3>3
    <3> QED BY <2>2, <3>4
  <2> QED BY <2>1, <2>2 DEF BarriersHold
<1> QED BY <1>1, Inductive, PTL

\* No result is made up (commitReady, appendSkippedToolCall).
THEOREM NothingFabricated == Spec => []ResultsEarned
<1>1. IInv => ResultsEarned BY DEF IInv
<1> QED BY <1>1, Inductive, PTL

\* Execution settles only when no tool body runs any more (runGroup).
THEOREM SettlesQuiet == Spec => []QuietAtEnd
<1>1. IInv => QuietAtEnd BY DEF IInv, EndAgrees, FlightTracked, Running, QuietAtEnd
<1> QED BY <1>1, Inductive, PTL

\* A failure drains what runs and answers nothing for it (runGroup).
THEOREM FailureDrained == Spec => []FailuresDrain
<1>1. ResultsEarned /\ QuietAtEnd => FailuresDrain BY DEF FailuresDrain
<1> QED BY <1>1, NothingFabricated, SettlesQuiet, PTL

\* The assertion "uncommitted settled calls" never fails (runGroup).
THEOREM AssertionHolds == Spec => []RejectsForCause
<1>1. IInv => RejectsForCause BY DEF IInv
<1> QED BY <1>1, Inductive, PTL

\* No call starts once the signal is aborted (fillPool).
THEOREM NoCallAfterAbort == Spec => AbortStartsNoCall
<1>1. IInv /\ [Next]_vars => [started' # started => ~signal]_vars
  <2> SUFFICES ASSUME IInv, Next, started' # started PROVE ~signal BY DEF vars
  <2>1. ~(\/ Abort \/ PrepareFails \/ CommitResult \/ CommitFails \/ Drained \/ Skip)
    BY DEF Abort, PrepareFails, CommitResult, CommitFails, Drained, Skip
  <2>2. ASSUME NEW i \in Calls
        PROVE  ~(\/ Reclassify(i) \/ BodyStarts(i) \/ Dispatch(i) \/ RaceSettles(i))
    BY DEF Reclassify, BodyStarts, Dispatch, DispatchSettles, DispatchRejects, RaceSettles
  <2>3. ASSUME NEW dispatches \in BOOLEAN PROVE ~PrepareSettles(dispatches)
    BY DEF PrepareSettles
  <2>4. ASSUME NEW stop, NEW m, Fill(stop, m) PROVE ~stop
    BY <2>4 DEF Fill, EndGroup
  <2>5. CASE Classify BY <2>4, <2>5 DEF Classify
  <2>6. CASE Advance BY <2>4, <2>6 DEF Advance, NoticedAbort
  <2> QED BY <2>1, <2>2, <2>3, <2>5, <2>6 DEF Next, Scheduler
<1> QED BY <1>1, Inductive, PTL DEF Spec, AbortStartsNoCall

(***************************************************************************)
(* Refinement of OrderedCalls.                                              *)
(***************************************************************************)

\* A fill of the pool logs the next call, or ends the group quietly.
LEMMA FillSimulation ==
    ASSUME IInv, NEW stop, NEW m \in {"exclusive", "parallel"}, Fill(stop, m),
           answered' = answered,
           \/ pc = "classify" /\ next < N
           \/ pc = "advance" /\ m = mode /\ ~failed /\ ~Ready
    PROVE  Promise!Call \/ UNCHANGED Promise!vars
<1> USE DEF IInv, TypeOK, Counters, LogAgrees, EndAgrees, InGroup
<1>1. CASE StartCall /\ started < GroupEnd(m)
  <2>1. Len(called) = started /\ outcome = "none" OBVIOUS
  <2>2. started < N BY <1>1, BoundsAssumption DEF GroupEnd
  <2>3. called' = Append(called, Len(called) + 1) /\ outcome' = outcome
    BY <1>1, <2>1 DEF StartCall
  <2> QED BY <2>1, <2>2, <2>3 DEF Promise!Call
<1>2. CASE EndGroup(stop)
  <2>1. inFlight = {} => committed = started
    <3>1. CASE pc = "classify" BY <3>1
    <3>2. CASE pc = "advance" /\ ~failed /\ ~Ready
      <4> SUFFICES ASSUME inFlight = {}, committed < started PROVE FALSE OBVIOUS
      <4>1. committed + 1 \in (committed + 1)..started OBVIOUS
      <4> QED BY <3>2, <4>1 DEF Ready, CallsTracked
    <3> QED BY <3>1, <3>2
  <2> QED BY <1>2, <2>1 DEF EndGroup, Promise!vars
<1> QED BY <1>1, <1>2 DEF Fill

\* Every step of the scheduler is one of OrderedCalls, or a stutter.
LEMMA StepSimulation ==
    ASSUME IInv, [Next]_vars
    PROVE  [Promise!Next]_(Promise!vars)
<1> USE DEF IInv, TypeOK, Counters, LogAgrees, EndAgrees, InGroup, registry, group, log
<1>1. CASE \/ Abort \/ UNCHANGED vars
           \/ \E i \in Calls : \/ Reclassify(i) \/ BodyStarts(i) \/ Dispatch(i)
  BY <1>1 DEF Abort, Reclassify, BodyStarts, Dispatch, DispatchSettles, DispatchRejects,
              vars, Promise!vars
<1>2. CASE Classify
  <2>1. CASE next = N
    <3>1. Len(called) = N /\ Len(answered) = N /\ outcome = "none"
      BY <1>2, <2>1 DEF Classify
    <3>2. outcome' = "returned" /\ called' = called /\ answered' = answered
      BY <1>2, <2>1 DEF Classify
    <3> QED BY <3>1, <3>2 DEF Promise!Return, Promise!Next
  <2>2. CASE next # N
    <3>1. /\ Fill(aborted', mode') /\ mode' \in {"exclusive", "parallel"}
          /\ pc = "classify" /\ answered' = answered
      BY <1>2, <2>2 DEF Classify
    <3>2. next < N BY <2>2, BoundsAssumption
    <3> QED BY <3>1, <3>2, FillSimulation DEF Promise!Next
  <2> QED BY <2>1, <2>2
<1>3. CASE Advance
  <2>1. CASE Ready \/ failed
    BY <1>3, <2>1 DEF Advance, Throw, Promise!vars
  <2>2. CASE ~Ready /\ ~failed
    <3>1. /\ Fill(aborted', mode') /\ mode' = mode /\ pc = "advance" /\ answered' = answered
      BY <1>3, <2>2 DEF Advance
    <3>2. mode' \in {"exclusive", "parallel"} BY <3>1
    <3> QED BY <2>2, <3>1, <3>2, FillSimulation DEF Promise!Next
  <2> QED BY <2>1, <2>2
<1>4. CASE \/ PrepareFails \/ \E dispatches \in BOOLEAN : PrepareSettles(dispatches)
           \/ \E i \in Calls : RaceSettles(i)
  BY <1>4 DEF PrepareFails, PrepareSettles, RaceSettles, Throw, Promise!vars
<1>5. CASE CommitResult \/ CommitFails
  <2>1. /\ Len(answered) = committed /\ committed < started /\ Len(called) = started
        /\ outcome = "none"
    BY <1>5 DEF CommitResult, CommitFails, CallsTracked
  <2>2. /\ answered' \in {answered, Append(answered, Len(answered) + 1)}
        /\ called' = called /\ outcome' = outcome
    BY <1>5, <2>1 DEF CommitResult, CommitFails, Throw
  <2> QED BY <2>1, <2>2 DEF Promise!Answer, Promise!Next, Promise!vars
<1>6. CASE Drained
  BY <1>6 DEF Drained, Promise!Reject, Promise!Next
<1>7. CASE Skip
  <2>1. Len(called) \in Nat /\ Len(answered) \in Nat BY LenProperties
  <2>2. outcome = "none" BY <1>7 DEF Skip
  <2>3. CASE Len(answered) = N
    <3>1. Len(called) = N BY <2>1, <2>3, BoundsAssumption
    <3> QED BY <1>7, <2>2, <2>3, <3>1 DEF Skip, Promise!Return, Promise!Next
  <2>4. CASE Len(answered) # N /\ Len(called) = Len(answered)
    <3>1. Len(called) < N BY <2>1, <2>4, BoundsAssumption
    <3> QED BY <1>7, <2>2, <2>4, <3>1 DEF Skip, Promise!Call, Promise!Next
  <2>5. CASE Len(answered) # N /\ Len(called) # Len(answered)
    <3>1. Len(answered) < Len(called) BY <2>1, <2>5
    <3> QED BY <1>7, <2>2, <2>5, <3>1 DEF Skip, Promise!Answer, Promise!Next
  <2> QED BY <2>3, <2>4, <2>5
<1> QED
  BY <1>1, <1>2, <1>3, <1>4, <1>5, <1>6, <1>7 DEF Next, Scheduler

\* The scheduler implements OrderedCalls: the log of a step's calls and results
\* is in model order, and is complete when execution returns.
THEOREM Refinement == Spec => ImplementsOrderedCalls
<1>1. Init => Promise!Init BY DEF Init, Promise!Init
<1>2. IInv /\ [Next]_vars => [Promise!Next]_(Promise!vars) BY StepSimulation
<1> QED BY <1>1, <1>2, Inductive, PTL DEF Spec, ImplementsOrderedCalls, Promise!Spec

\* GroupsHold: barriers, failures and aborts of a group, together.
THEOREM GroupsKept == Spec => GroupsHold
<1> QED BY BarriersKept, FailureDrained, NoCallAfterAbort, PTL DEF GroupsHold
=============================================================================
