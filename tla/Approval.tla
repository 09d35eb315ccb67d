------------------------------ MODULE Approval ------------------------------
(***************************************************************************)
(* User approval: the service that asks on behalf of a tool call and logs   *)
(* the question and its outcome (user-approval), and the host's channel     *)
(* that shows the question to the clients and settles it (api-proxy).       *)
(*                                                                          *)
(* Calls of one response run in parallel; one call asks again only when its *)
(* last question is decided.  A question is its place among the turn's      *)
(* approval/asked records.  The service races the channel's answer, which   *)
(* reaches it some promise reactions later, against the turn's signal.      *)
(***************************************************************************)
EXTENDS OpenTurn

CONSTANTS
    Calls,     \* the call ids of a response
    MaxAsks    \* bound: questions in one step

ASSUME MaxAsksAssumption == MaxAsks \in Nat

VARIABLES
    policyOf,    \* each session's effective approval policy
    asked,       \* the step's approval/asked records: the call id of each
    decided,     \* its approval/decided records, by question: an outcome or "none"
    race,        \* how decide stands, by question: "racing", or its outcome
    channel,     \* where the question's dispatch stands
    answer,      \* what the channel resolved the question with
    record,      \* the question whose record the channel's entry carries
    channelUp,   \* the host's channel is mounted
    consent      \* history: the questions a client allowed by its entry

approvalVars == <<policyOf, asked, decided, race, channel, answer, record, channelUp,
                  consent>>

Outcomes == {"allowed-once", "rejected", "cancelled", "unavailable"}
Channels == {"none", "queued", "pending", "answered"}
Questions(a) == 1..Len(asked[a])

ApprovalTypeOK ==
    /\ policyOf \in [Agents -> {"ask", "never"}] /\ channelUp \in BOOLEAN
    /\ asked \in [Agents -> Seq(Calls)]
    /\ decided \in [Agents -> Seq(Outcomes \cup {"none"})]
    /\ race \in [Agents -> Seq(Outcomes \cup {"racing"})]
    /\ channel \in [Agents -> Seq(Channels)]
    /\ answer \in [Agents -> Seq(Outcomes \cup {"none"})]
    /\ record \in [Agents -> Seq(Nat)] /\ consent \in [Agents -> SUBSET Nat]
    /\ \A a \in Agents :
         /\ Len(asked[a]) <= MaxAsks /\ consent[a] \subseteq Questions(a)
         /\ Len(decided[a]) = Len(asked[a]) /\ Len(race[a]) = Len(asked[a])
         /\ Len(channel[a]) = Len(asked[a]) /\ Len(answer[a]) = Len(asked[a])
         /\ Len(record[a]) = Len(asked[a])

NoQuestions == [a \in Agents |-> <<>>]

ApprovalInit ==
    /\ policyOf = [a \in Agents |-> "ask"] /\ channelUp = TRUE
    /\ asked = NoQuestions /\ decided = NoQuestions /\ race = NoQuestions
    /\ channel = NoQuestions /\ answer = NoQuestions /\ record = NoQuestions
    /\ consent = [a \in Agents |-> {}]

Pending(a, q) == channel[a][q] = "pending"

\* request up to its await: the record, and decide up to its first.
Ask(a, c) ==
    /\ phase[a] = "calls" /\ Len(asked[a]) < MaxAsks
    /\ \A q \in Questions(a) : asked[a][q] = c => decided[a][q] # "none"
    /\ LET outcome == IF aborted[a] THEN "cancelled"
                      ELSE IF policyOf[a] = "never" THEN "rejected" ELSE "racing"
       IN /\ race' = [race EXCEPT ![a] = Append(@, outcome)]
          /\ channel' = [channel EXCEPT ![a] =
                           Append(@, IF outcome = "racing" THEN "queued" ELSE "none")]
    /\ asked' = [asked EXCEPT ![a] = Append(@, c)]
    /\ decided' = [decided EXCEPT ![a] = Append(@, "none")]
    /\ answer' = [answer EXCEPT ![a] = Append(@, "none")]
    /\ record' = [record EXCEPT ![a] = Append(@, 0)]
    /\ UNCHANGED <<turn, policyOf, channelUp, consent>>

\* The channel resolves the questions in qs with what they are told.
Resolve(a, qs, outcome) ==
    /\ channel' = [channel EXCEPT ![a] =
                     [q \in Questions(a) |-> IF q \in qs THEN "answered" ELSE @[q]]]
    /\ answer' = [answer EXCEPT ![a] =
                     [q \in Questions(a) |-> IF q \in qs THEN outcome ELSE @[q]]]

\* Mutant: the channel does not compare call ids.
CandidatesOfAnyCall(a, q) ==
    {r \in Questions(a) : /\ decided[a][r] = "none"
                          /\ \A p \in Questions(a) : Pending(a, p) => record[a][p] # r}

\* The records an entry for question q may be paired with: asked for the same
\* call, undecided, and claimed by no other entry.
Candidates(a, q) ==
    {r \in Questions(a) : /\ asked[a][r] = asked[a][q] /\ decided[a][r] = "none"
                          /\ \A p \in Questions(a) : Pending(a, p) => record[a][p] # r}

\* The dispatch, a promise reaction after the question was logged: the host's
\* listener shows it, paired with the newest candidate; without a channel
\* nobody answers.
Dispatch(a, q) ==
    /\ q \in Questions(a) /\ channel[a][q] = "queued"
    /\ IF ~channelUp THEN Resolve(a, {q}, "unavailable") /\ UNCHANGED record
       ELSE IF aborted[a] THEN Resolve(a, {q}, "cancelled") /\ UNCHANGED record
       ELSE IF Candidates(a, q) = {}
         THEN Resolve(a, {q}, "unavailable") /\ UNCHANGED record
       ELSE /\ channel' = [channel EXCEPT ![a][q] = "pending"]
            /\ record' = [record EXCEPT ![a][q] =
                 CHOOSE r \in Candidates(a, q) : \A s \in Candidates(a, q) : s <= r]
            /\ UNCHANGED answer
    /\ UNCHANGED <<turn, policyOf, asked, decided, race, channelUp, consent>>

\* respond: a client answers the entry it was shown.
Respond(a, q) ==
    /\ q \in Questions(a) /\ Pending(a, q)
    /\ \E outcome \in {"allowed-once", "rejected"} :
         /\ Resolve(a, {q}, outcome)
         /\ consent' = [consent EXCEPT ![a] =
                          IF outcome = "allowed-once" THEN @ \cup {record[a][q]} ELSE @]
    /\ UNCHANGED <<turn, policyOf, asked, decided, race, record, channelUp>>

\* Mutant: a late answer replaces the outcome of the abort.
AnswerArrivesLate(a, q) ==
    /\ q \in Questions(a) /\ channel[a][q] = "answered"
    /\ channel' = [channel EXCEPT ![a][q] = "none"]
    /\ answer' = [answer EXCEPT ![a][q] = "none"]
    /\ race' = [race EXCEPT ![a][q] = answer[a][q]]
    /\ UNCHANGED <<turn, policyOf, asked, decided, record, channelUp, consent>>

\* The answer reaches the race; a race an abort has won discards it.
AnswerArrives(a, q) ==
    /\ q \in Questions(a) /\ channel[a][q] = "answered"
    /\ channel' = [channel EXCEPT ![a][q] = "none"]
    /\ answer' = [answer EXCEPT ![a][q] = "none"]
    /\ race' = [race EXCEPT ![a][q] = IF @ = "racing" THEN answer[a][q] ELSE @]
    /\ UNCHANGED <<turn, policyOf, asked, decided, record, channelUp, consent>>

\* request after its await: the outcome is logged and returned.
LogOutcome(a, q) ==
    /\ q \in Questions(a) /\ race[a][q] # "racing" /\ decided[a][q] = "none"
    /\ decided' = [decided EXCEPT ![a][q] = race[a][q]]
    /\ UNCHANGED <<turn, policyOf, asked, race, channel, answer, record, channelUp, consent>>

\* Mutant: a race settles with the abort's reason, which is no outcome.
OnAbortReason(a) ==
    /\ race' = [race EXCEPT ![a] =
                  [q \in Questions(a) |-> IF @[q] = "racing" THEN "aborted" ELSE @[q]]]
    /\ Resolve(a, {q \in Questions(a) : Pending(a, q)}, "cancelled")

\* The abort listeners of the races and of the channel's entries.
OnAbort(a) ==
    /\ race' = [race EXCEPT ![a] =
                  [q \in Questions(a) |-> IF @[q] = "racing" THEN "cancelled" ELSE @[q]]]
    /\ Resolve(a, {q \in Questions(a) : Pending(a, q)}, "cancelled")

\* setPolicy, or a policy event of the session's initialization.
SetPolicy(a) ==
    /\ \E p \in {"ask", "never"} \ {policyOf[a]} : policyOf' = [policyOf EXCEPT ![a] = p]
    /\ UNCHANGED <<turn, asked, decided, race, channel, answer, record, channelUp, consent>>

\* Mutant: the teardown leaves the entries pending.
CloseChannelOnly ==
    /\ channelUp /\ channelUp' = FALSE
    /\ UNCHANGED <<turn, policyOf, asked, decided, race, channel, answer, record, consent>>

\* The registry's teardown settles every entry; then it may be mounted again.
CloseChannel ==
    /\ channelUp /\ channelUp' = FALSE
    /\ channel' = [a \in Agents |-> [q \in Questions(a) |->
                     IF Pending(a, q) THEN "answered" ELSE channel[a][q]]]
    /\ answer' = [a \in Agents |-> [q \in Questions(a) |->
                     IF Pending(a, q) THEN "cancelled" ELSE answer[a][q]]]
    /\ UNCHANGED <<turn, policyOf, asked, decided, race, record, consent>>

OpenChannel ==
    /\ ~channelUp /\ channelUp' = TRUE
    /\ UNCHANGED <<turn, policyOf, asked, decided, race, channel, answer, record, consent>>

\* Every call of the step has its outcome, or asked nothing.
AllDecided(a) == \A q \in Questions(a) : decided[a][q] # "none"

\* The step is over: its questions no longer matter, as none is undecided.
ForgetQuestions(a) ==
    /\ asked' = [asked EXCEPT ![a] = <<>>] /\ decided' = [decided EXCEPT ![a] = <<>>]
    /\ race' = [race EXCEPT ![a] = <<>>] /\ channel' = [channel EXCEPT ![a] = <<>>]
    /\ answer' = [answer EXCEPT ![a] = <<>>] /\ record' = [record EXCEPT ![a] = <<>>]
    /\ consent' = [consent EXCEPT ![a] = {}]
=============================================================================
