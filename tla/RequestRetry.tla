---------------------------- MODULE RequestRetry ----------------------------
(***************************************************************************)
(* The request-retry plugin (llm-retry): the recovery of a failed model     *)
(* request, for agents that share one mounted plugin which may be disposed  *)
(* and mounted again at any time.                                           *)
(*                                                                          *)
(* A failed request is dispatched as a waterfall, in which the plugin's     *)
(* listener stands between listeners that run before it (upstream) and      *)
(* those its next() runs (downstream); both may ask for a retry themselves, *)
(* as the recovery of an overflowing context does.                          *)
(***************************************************************************)
EXTENDS OpenTurn

CONSTANTS
    Policies,     \* the retry policies a request may have: records [mode, max]
    MaxAttempts   \* bound: retries scheduled in one step

ASSUME PoliciesAssumption ==
    Policies \subseteq [mode : {"none", "normal", "always"}, max : Nat]
ASSUME MaxAttemptsAssumption == MaxAttempts \in Nat

VARIABLES
    mounted,    \* the plugin: "up", "disposing" (draining active), "down"
    recovery,   \* where the recovery of each agent's failed request stands
    listener,   \* the listener its waterfall captured: "live", "stale" (its
                \* lifetime is aborted), "none" (the plugin was not mounted)
    policy,     \* the failed request's policy
    failure,    \* the failure: its code is retryable, its wait is too long
    retry,      \* the waterfall's action is to retry
    retries     \* the step's llm/retry ("retry") and llm/retry-started ("started")

recovering == <<recovery, listener, policy, failure, retry>>
retryVars == <<mounted, recovering, retries>>

Recoveries == {"none", "upstream", "delegated", "beyond", "settling", "delay", "done"}
NoPolicy == [mode |-> "none", max |-> 0]
Failures == [retryable : BOOLEAN, long : BOOLEAN]
Records == [type : {"retry", "started"}, policy : Policies \cup {NoPolicy}, attempt : Nat]

\* operations in the plugin's active set: recover has not settled.
Active(a) == recovery[a] \in {"delegated", "settling", "delay"}

RetryTypeOK ==
    /\ mounted \in {"up", "disposing", "down"}
    /\ recovery \in [Agents -> Recoveries]
    /\ listener \in [Agents -> {"live", "stale", "none"}]
    /\ policy \in [Agents -> Policies \cup {NoPolicy}] /\ failure \in [Agents -> Failures]
    /\ retry \in [Agents -> BOOLEAN] /\ retries \in [Agents -> Seq(Records)]

RetryInit ==
    /\ mounted = "up"
    /\ recovery = [a \in Agents |-> "none"] /\ listener = [a \in Agents |-> "none"]
    /\ policy = [a \in Agents |-> NoPolicy]
    /\ failure = [a \in Agents |-> [retryable |-> FALSE, long |-> FALSE]]
    /\ retry = [a \in Agents |-> FALSE] /\ retries = [a \in Agents |-> <<>>]

\* The recovery of a's request goes on at r.
Recover(a, r) == recovery' = [recovery EXCEPT ![a] = r]

\* The waterfall has its action.
Decide(a, action) == Recover(a, "done") /\ retry' = [retry EXCEPT ![a] = action]

\* Mutant: the plugin's lifetime is not fused with the turn's signal.
CancelledByTurn(a) == aborted[a]

\* signal.aborted || lifetime.signal.aborted
Cancelled(a) == aborted[a] \/ listener[a] = "stale"

\* The places of a policy's retries in the step's records.
RetriesOf(a, p) ==
    {i \in 1..Len(retries[a]) : retries[a][i].type = "retry" /\ retries[a][i].policy = p}

Latest(places) == CHOOSE i \in places : \A j \in places : j <= i

\* Mutant: the latest record of any policy counts.
PreviousRetryOfAny(a) ==
    IF retries[a] = <<>> THEN 0 ELSE retries[a][Len(retries[a])].attempt

\* The latest retry of the same policy in this step, read from the log.
PreviousRetry(a) ==
    IF RetriesOf(a, policy[a]) = {} THEN 0
    ELSE retries[a][Latest(RetriesOf(a, policy[a]))].attempt

\* The data of llm/retry and llm/retry-started.
Record(type, p, n) == [type |-> type, policy |-> p, attempt |-> n]

\* recover's second half and backoff up to its await.
Schedule(a) ==
    IF policy[a].mode = "normal" /\ (PreviousRetry(a) >= policy[a].max \/ failure[a].long)
      THEN Recover(a, "delegated") /\ UNCHANGED <<retry, retries>>
    ELSE IF Cancelled(a) THEN Decide(a, FALSE) /\ UNCHANGED retries
    ELSE /\ retries' = [retries EXCEPT ![a] =
                          Append(@, Record("retry", policy[a], PreviousRetry(a) + 1))]
         /\ Recover(a, "delay") /\ UNCHANGED retry

\* The stream ends with an error and the loop dispatches agent/request-error.
\* Bound: MaxAttempts retries in a step.
RequestFails(a) ==
    /\ phase[a] = "request" /\ ~aborted[a]
    /\ Cardinality({i \in 1..Len(retries[a]) : retries[a][i].type = "retry"}) < MaxAttempts
    /\ Enter(a, "recover") /\ Recover(a, "upstream")
    /\ listener' = [listener EXCEPT ![a] = IF mounted = "up" THEN "live" ELSE "none"]
    /\ \E p \in Policies, f \in Failures :
         policy' = [policy EXCEPT ![a] = p] /\ failure' = [failure EXCEPT ![a] = f]
    /\ UNCHANGED <<aborted, mounted, retry, retries>>

\* A listener before the plugin's answers, or passes on when there is none.
UpstreamAnswers(a) ==
    /\ recovery[a] = "upstream"
    /\ \E action \in BOOLEAN : Decide(a, action)
    /\ UNCHANGED <<turn, mounted, listener, policy, failure, retries>>

PassesBeyond(a) ==
    /\ recovery[a] = "upstream" /\ listener[a] = "none" /\ Recover(a, "beyond")
    /\ UNCHANGED <<turn, mounted, listener, policy, failure, retry, retries>>

\* The captured listener runs: recover, up to its first await.
ListenerRuns(a) ==
    /\ recovery[a] = "upstream" /\ listener[a] # "none"
    /\ CASE listener[a] = "stale" -> Decide(a, FALSE) /\ UNCHANGED retries
         [] listener[a] = "live" /\ policy[a].mode = "always" ->
              /\ IF aborted[a] THEN Decide(a, FALSE)
                 ELSE Recover(a, "settling") /\ UNCHANGED retry
              /\ UNCHANGED retries
         [] listener[a] = "live" /\ policy[a].mode = "normal" /\ failure[a].retryable ->
              Schedule(a)
         [] OTHER -> Recover(a, "delegated") /\ UNCHANGED <<retry, retries>>
    /\ UNCHANGED <<turn, mounted, listener, policy, failure>>

\* next() settles for a recovery that returned it, or without the plugin.
DownstreamAnswers(a) ==
    /\ recovery[a] \in {"delegated", "beyond"}
    /\ \E action \in BOOLEAN : Decide(a, action)
    /\ UNCHANGED <<turn, mounted, listener, policy, failure, retries>>

\* settleDownstream settles: an abort wins, then a downstream retry, and
\* anything else, an error included, falls back to the policy.
DownstreamSettles(a) ==
    /\ recovery[a] = "settling"
    /\ \E action \in BOOLEAN :
         IF Cancelled(a) THEN Decide(a, FALSE) /\ UNCHANGED retries
         ELSE IF action THEN Decide(a, TRUE) /\ UNCHANGED retries
         ELSE Schedule(a)
    /\ UNCHANGED <<turn, mounted, listener, policy, failure>>

\* cancellableDelay: the timer fires, unless an abort has cleared it.
DelayEnds(a) ==
    /\ recovery[a] = "delay" /\ ~Cancelled(a)
    /\ retries' = [retries EXCEPT ![a] = Append(@, Record("started", policy[a], PreviousRetry(a)))]
    /\ Decide(a, TRUE)
    /\ UNCHANGED <<turn, mounted, listener, policy, failure>>

DelayCancelled(a) ==
    /\ recovery[a] = "delay" /\ Cancelled(a)
    /\ Decide(a, FALSE)
    /\ UNCHANGED <<turn, mounted, listener, policy, failure, retries>>

\* The plugin's teardown: the listener leaves, the lifetime aborts, and the
\* active operations are awaited.
DisposePlugin ==
    /\ mounted = "up" /\ mounted' = "disposing"
    /\ listener' = [a \in Agents |-> IF listener[a] = "live" THEN "stale" ELSE listener[a]]
    /\ UNCHANGED <<turn, recovery, policy, failure, retry, retries>>

PluginDisposed ==
    /\ mounted = "disposing" /\ \A a \in Agents : ~Active(a)
    /\ mounted' = "down"
    /\ UNCHANGED <<turn, recovering, retries>>

\* apply: mounted again, possibly with the policies changed meanwhile.
MountPlugin ==
    /\ mounted = "down" /\ mounted' = "up"
    /\ UNCHANGED <<turn, recovering, retries>>

\* What the end of a recovery leaves, with the step's records or without.
Recovered(a) ==
    /\ Recover(a, "none") /\ retry' = [retry EXCEPT ![a] = FALSE]
    /\ listener' = [listener EXCEPT ![a] = "none"]
    /\ policy' = [policy EXCEPT ![a] = NoPolicy]
    /\ failure' = [failure EXCEPT ![a] = [retryable |-> FALSE, long |-> FALSE]]
=============================================================================
