------------------------------ MODULE OpenStep ------------------------------
(***************************************************************************)
(* The open step of an agent's turn: the loop that requests, retries and    *)
(* runs tool calls (step and the end of turn in agent.ts), composed with    *)
(* the request-retry plugin and user approval, which share its signal.      *)
(***************************************************************************)
EXTENDS RequestRetry, Approval

vars == <<turn, retryVars, approvalVars>>

TypeOK == TurnTypeOK /\ RetryTypeOK /\ ApprovalTypeOK

Init == TurnInit /\ RetryInit /\ ApprovalInit

\* turn/start and the first step/start, under a fresh signal.
TurnStarts(a) ==
    /\ phase[a] = "closed"
    /\ Enter(a, "request") /\ aborted' = [aborted EXCEPT ![a] = FALSE]
    /\ UNCHANGED <<retryVars, approvalVars>>

\* The stream completes: the response has tool calls, or it ends the turn.
\* No request follows in this step, so its retries no longer matter.
ResponseArrives(a) ==
    /\ phase[a] = "request" /\ ~aborted[a]
    /\ \E p \in {"calls", "closed"} : Enter(a, p)
    /\ retries' = [retries EXCEPT ![a] = <<>>]
    /\ UNCHANGED <<aborted, mounted, recovering, approvalVars>>

\* throwIfAborted while a request is built or streams: the turn ends.
RequestAborts(a) ==
    /\ phase[a] = "request" /\ aborted[a] /\ Enter(a, "closed")
    /\ retries' = [retries EXCEPT ![a] = <<>>]
    /\ UNCHANGED <<aborted, mounted, recovering, approvalVars>>

\* Mutant: the loop does not look at its signal behind the waterfall.
LoopResumesAnyway(a) ==
    /\ recovery[a] = "done"
    /\ IF retry[a] THEN Enter(a, "request") /\ UNCHANGED retries
       ELSE Enter(a, "closed") /\ retries' = [retries EXCEPT ![a] = <<>>]
    /\ Recovered(a)
    /\ UNCHANGED <<aborted, mounted, approvalVars>>

\* The waterfall's action reaches the loop: the same step requests again, or
\* the turn ends.
LoopResumes(a) ==
    /\ recovery[a] = "done"
    /\ IF retry[a] /\ ~aborted[a] THEN Enter(a, "request") /\ UNCHANGED retries
       ELSE Enter(a, "closed") /\ retries' = [retries EXCEPT ![a] = <<>>]
    /\ Recovered(a)
    /\ UNCHANGED <<aborted, mounted, approvalVars>>

\* Mutant: an aborted step does not wait for its calls.
StepEndsEarly(a) ==
    /\ phase[a] = "calls" /\ (aborted[a] \/ AllDecided(a))
    /\ Enter(a, "closed")
    /\ UNCHANGED <<aborted, retryVars, approvalVars>>

\* executeToolCalls has drained its calls: the next step, or the turn's end.
StepEnds(a) ==
    /\ phase[a] = "calls" /\ AllDecided(a)
    /\ \E p \in {"request", "closed"} : (aborted[a] => p = "closed") /\ Enter(a, p)
    /\ ForgetQuestions(a)
    /\ UNCHANGED <<aborted, retryVars, policyOf, channelUp>>

\* cancel, or the agent's disposal: the signal and everything listening to it.
Cancel(a) ==
    /\ phase[a] # "closed" /\ ~aborted[a]
    /\ aborted' = [aborted EXCEPT ![a] = TRUE] /\ OnAbort(a)
    /\ UNCHANGED <<phase, retryVars, policyOf, asked, decided, record, channelUp, consent>>

Loop(a) == \/ TurnStarts(a) \/ ResponseArrives(a) \/ RequestAborts(a)
           \/ LoopResumes(a) \/ StepEnds(a) \/ Cancel(a)

Retry(a) == \/ RequestFails(a) \/ UpstreamAnswers(a) \/ PassesBeyond(a)
            \/ ListenerRuns(a) \/ DownstreamAnswers(a) \/ DownstreamSettles(a)
            \/ DelayEnds(a) \/ DelayCancelled(a)

Question(a, q) == Dispatch(a, q) \/ Respond(a, q) \/ AnswerArrives(a, q) \/ LogOutcome(a, q)

Next ==
    \/ \E a \in Agents : Loop(a)
    \/ \E a \in Agents : Retry(a) /\ UNCHANGED approvalVars
    \/ (DisposePlugin \/ PluginDisposed \/ MountPlugin) /\ UNCHANGED approvalVars
    \/ \E a \in Agents, c \in Calls : Ask(a, c) /\ UNCHANGED retryVars
    \/ \E a \in Agents, q \in 1..MaxAsks : Question(a, q) /\ UNCHANGED retryVars
    \/ \E a \in Agents : SetPolicy(a) /\ UNCHANGED retryVars
    \/ (CloseChannel \/ OpenChannel) /\ UNCHANGED retryVars

Spec == Init /\ [][Next]_vars

(***************************************************************************)
(* Fairness: promise reactions run, the other listeners of a waterfall      *)
(* settle, an aborted request and an aborted step's calls end.  A client    *)
(* may never answer, and no delay has to run out.                           *)
(***************************************************************************)
Reactions(a) ==
    \/ RequestAborts(a) \/ LoopResumes(a) \/ StepEnds(a)
    \/ (\/ UpstreamAnswers(a) \/ PassesBeyond(a) \/ ListenerRuns(a)
        \/ DownstreamAnswers(a) \/ DownstreamSettles(a) \/ DelayCancelled(a)) /\ UNCHANGED approvalVars

Fairness ==
    /\ \A a \in Agents : WF_vars(Reactions(a))
    /\ \A a \in Agents, q \in 1..MaxAsks :
         WF_vars((Dispatch(a, q) \/ AnswerArrives(a, q) \/ LogOutcome(a, q)) /\ UNCHANGED retryVars)
    /\ WF_vars(PluginDisposed /\ UNCHANGED approvalVars)

FairSpec == Spec /\ Fairness

(***************************************************************************)
(* Properties.                                                              *)
(***************************************************************************)

\* A policy's retries in a step are numbered 1, 2, 3, ... and never more than
\* it allows, although they are counted by plugin instances that come and go;
\* the wait of each is over at most once, and before the next is scheduled
\* (recover, backoff).
RetriesNumbered ==
    \A a \in Agents :
        LET attempt(i) == retries[a][i].attempt
        IN /\ \A p \in Policies : \A i \in RetriesOf(a, p) :
                /\ attempt(i) >= 1
                /\ p.mode = "normal" => attempt(i) <= p.max
                /\ \A j \in RetriesOf(a, p) : j < i => attempt(j) < attempt(i)
                /\ \A n \in 1..(attempt(i) - 1) :
                     \E j \in RetriesOf(a, p) : j < i /\ attempt(j) = n
           /\ \A i \in 1..Len(retries[a]) : retries[a][i].type = "started" =>
                i > 1 /\ retries[a][i - 1] = [retries[a][i] EXCEPT !.type = "retry"]

\* Once the turn is cancelled, or the plugin instance whose listener handles
\* the failure is disposed, that recovery logs nothing more, not even for a
\* listener a waterfall had captured before; and a cancelled turn never
\* requests again (the listener, recover, backoff, step).
QuietAfterEnd ==
    [][\A a \in Agents :
         /\ Len(retries'[a]) > Len(retries[a]) => ~aborted[a] /\ listener[a] = "live"
         /\ aborted[a] => ~(phase[a] = "recover" /\ phase'[a] = "request")]_vars

\* Whatever the channel shows belongs to a question that can still be
\* answered, and carries the record of that very question: parallel calls do
\* not take each other's, and nothing outlives an abort or the channel.
EntriesMatch ==
    \A a \in Agents : \A q \in Questions(a) : Pending(a, q) =>
        record[a][q] = q /\ race[a][q] = "racing" /\ ~aborted[a] /\ channelUp

\* A call is granted only what a client allowed when shown that question, and
\* nothing after its turn was cancelled, however late the answer was on its way.
ConsentOnly ==
    /\ [](\A a \in Agents : \A q \in Questions(a) :
            decided[a][q] = "allowed-once" => q \in consent[a])
    /\ [][\A a \in Agents : aborted[a] => \A q \in Questions(a) \cap DOMAIN race'[a] :
            race'[a][q] = "allowed-once" => race[a][q] = "allowed-once"]_vars

\* The pair of records lies within the step that asked: no outcome is logged
\* after it, although the answer was awaited (request, hasOpenTurn).
AuditInStep ==
    [][\A a \in Agents : decided'[a] # decided[a] => phase[a] = "calls"]_vars

\* A client is shown what it can still answer, and its answer counts for the
\* call that asked, in the step that asked, however the answers, the aborts and
\* the end of the step race.
AnswersInPlace == []EntriesMatch /\ ConsentOnly /\ AuditInStep

\* Nobody waits for a delay or a client that cannot matter any more: a
\* cancelled turn and a disposal of the plugin end, and so does every question
\* when the channel closes.
Settles ==
    /\ \A a \in Agents : aborted[a] ~> phase[a] = "closed"
    /\ mounted = "disposing" ~> mounted = "down"
    /\ \A a \in Agents, q \in 1..MaxAsks :
         (q \in Questions(a) /\ ~channelUp)
           ~> (channelUp \/ q \notin Questions(a) \/ decided[a][q] # "none")
=============================================================================
