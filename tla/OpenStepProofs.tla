--------------------------- MODULE OpenStepProofs ---------------------------
(***************************************************************************)
(* Proofs about OpenStep, for any number of agents, calls, questions and    *)
(* retries, and any policies.                                               *)
(***************************************************************************)
EXTENDS OpenStep, SequenceTheorems, TLAPS

\* Where a recovery stands, and which listener it runs in.
Captured ==
    \A a \in Agents :
        /\ recovery[a] # "none" => phase[a] = "recover"
        /\ recovery[a] \in {"settling", "delay"} => listener[a] \in {"live", "stale"}
        /\ recovery[a] = "settling" => policy[a].mode = "always"

\* A delay's record is the last of its step.
DelayRecorded ==
    \A a \in Agents : recovery[a] = "delay" =>
        /\ Len(retries[a]) > 0
        /\ retries[a][Len(retries[a])].type = "retry"
        /\ retries[a][Len(retries[a])].policy = policy[a]

\* A policy that was retried has a latest retry.
LatestThere ==
    \A a \in Agents, p \in Policies \cup {NoPolicy} : RetriesOf(a, p) # {} =>
        \E i \in RetriesOf(a, p) : \A j \in RetriesOf(a, p) : j <= i

\* Only calls that run have questions, and a call has one at a time.
CallsAsk ==
    \A a \in Agents :
        /\ phase[a] # "calls" => asked[a] = <<>>
        /\ \A p, q \in Questions(a) : (p < q /\ asked[a][p] = asked[a][q])
             => decided[a][p] # "none"

\* What is logged is how the race stands; an abort leaves none under way.
RacesAgree ==
    \A a \in Agents : \A q \in Questions(a) :
        /\ decided[a][q] # "none" => decided[a][q] = race[a][q] /\ race[a][q] # "racing"
        /\ aborted[a] => race[a][q] # "racing"
        /\ channel[a][q] = "queued" => race[a][q] = "racing" \/ aborted[a]
        /\ channel[a][q] = "answered" => answer[a][q] # "none"

\* What allows a call comes from a client that was shown its question.
AllowedByClient ==
    \A a \in Agents : \A q \in Questions(a) :
        answer[a][q] = "allowed-once" \/ race[a][q] = "allowed-once" => q \in consent[a]

RetryInv == Captured /\ DelayRecorded /\ LatestThere /\ RetriesNumbered
AskInv == CallsAsk /\ RacesAgree /\ EntriesMatch /\ AllowedByClient

IInv == TypeOK /\ RetryInv /\ AskInv
(***************************************************************************)
(* Types.                                                                   *)
(***************************************************************************)

LEMMA AppendIs ==
    ASSUME NEW S, NEW s \in Seq(S), NEW x \in S
    PROVE  /\ Append(s, x) \in Seq(S) /\ Len(Append(s, x)) = Len(s) + 1
           /\ \A i \in 1..Len(s) : Append(s, x)[i] = s[i]
           /\ Append(s, x)[Len(s) + 1] = x
BY AppendProperties

\* A function on the questions is a sequence as long as they are.
LEMMA OnQuestions ==
    ASSUME NEW S, NEW n \in Nat, NEW f \in [1..n -> S]
    PROVE  f \in Seq(S) /\ Len(f) = n
<1>1. f \in Seq(S) BY SeqDef
<1>2. 1..Len(f) = 1..n /\ Len(f) \in Nat BY <1>1, LenProperties
<1> QED BY <1>1, <1>2

LEMMA PreviousIsNat ==
    ASSUME TypeOK, LatestThere, NEW a \in Agents
    PROVE  PreviousRetry(a) \in Nat
<1>1. CASE RetriesOf(a, policy[a]) = {} BY <1>1 DEF PreviousRetry
<1>2. CASE RetriesOf(a, policy[a]) # {}
  <2>1. Latest(RetriesOf(a, policy[a])) \in RetriesOf(a, policy[a])
    BY <1>2 DEF LatestThere, Latest, TypeOK, RetryTypeOK
  <2>2. Latest(RetriesOf(a, policy[a])) \in 1..Len(retries[a]) BY <2>1 DEF RetriesOf
  <2>3. retries[a] \in Seq(Records) BY DEF TypeOK, RetryTypeOK
  <2>4. retries[a][Latest(RetriesOf(a, policy[a]))] \in Records BY <2>2, <2>3
  <2> QED BY <1>2, <2>4 DEF PreviousRetry, Records
<1> QED BY <1>1, <1>2

LEMMA RecordTyped ==
    ASSUME TypeOK, NEW a \in Agents, NEW type \in {"retry", "started"}, NEW n \in Nat
    PROVE  Record(type, policy[a], n) \in Records
<1>1. policy[a] \in Policies \cup {NoPolicy} BY DEF TypeOK, RetryTypeOK
<1> QED BY <1>1 DEF Record, Records

LEMMA ScheduleTypes ==
    ASSUME TypeOK, LatestThere, NEW a \in Agents, Schedule(a)
    PROVE  /\ recovery' \in [Agents -> Recoveries] /\ retry' \in [Agents -> BOOLEAN]
           /\ retries' \in [Agents -> Seq(Records)]
<1> DEFINE r == Record("retry", policy[a], PreviousRetry(a) + 1)
<1>1. r \in Records
  BY PreviousIsNat, RecordTyped
<1>2. retries[a] \in Seq(Records) BY DEF TypeOK, RetryTypeOK
<1>3. Append(retries[a], r) \in Seq(Records) BY <1>1, <1>2, AppendIs
<1> QED
  BY <1>3 DEF Schedule, Recover, Decide, Recoveries, TypeOK, RetryTypeOK

LEMMA RetryTypes ==
    ASSUME TypeOK, LatestThere, NEW a \in Agents, Retry(a), UNCHANGED approvalVars
    PROVE  TypeOK'
<1> USE DEF TypeOK, TurnTypeOK, RetryTypeOK, turn, recovering, Recover, Decide
<1>1. ApprovalTypeOK' BY DEF ApprovalTypeOK, approvalVars, Questions
<1>2. CASE RequestFails(a) BY <1>1, <1>2 DEF RequestFails, Enter, Phases, Recoveries
<1>3. CASE UpstreamAnswers(a) BY <1>1, <1>3 DEF UpstreamAnswers, Recoveries
<1>4. CASE PassesBeyond(a) BY <1>1, <1>4 DEF PassesBeyond, Recoveries
<1>5. CASE ListenerRuns(a)
  <2>1. /\ recovery' \in [Agents -> Recoveries] /\ retry' \in [Agents -> BOOLEAN]
        /\ retries' \in [Agents -> Seq(Records)]
    <3>1. CASE Schedule(a) BY <3>1, ScheduleTypes
    <3>2. CASE ~Schedule(a) BY <1>5, <3>2 DEF ListenerRuns, Recoveries
    <3> QED BY <3>1, <3>2
  <2> QED BY <1>1, <1>5, <2>1 DEF ListenerRuns
<1>6. CASE DownstreamAnswers(a) BY <1>1, <1>6 DEF DownstreamAnswers, Recoveries
<1>7. CASE DownstreamSettles(a)
  <2>1. /\ recovery' \in [Agents -> Recoveries] /\ retry' \in [Agents -> BOOLEAN]
        /\ retries' \in [Agents -> Seq(Records)]
    <3>1. CASE Schedule(a) BY <3>1, ScheduleTypes
    <3>2. CASE ~Schedule(a) BY <1>7, <3>2 DEF DownstreamSettles, Recoveries
    <3> QED BY <3>1, <3>2
  <2> QED BY <1>1, <1>7, <2>1 DEF DownstreamSettles
<1>8. CASE DelayEnds(a)
  <2>1. Record("started", policy[a], PreviousRetry(a)) \in Records
    BY PreviousIsNat, RecordTyped
  <2>2. Append(retries[a], Record("started", policy[a], PreviousRetry(a))) \in Seq(Records)
    BY <2>1, AppendIs
  <2> QED BY <1>1, <1>8, <2>2 DEF DelayEnds, Recoveries
<1>9. CASE DelayCancelled(a) BY <1>1, <1>9 DEF DelayCancelled, Recoveries
<1> QED BY <1>2, <1>3, <1>4, <1>5, <1>6, <1>7, <1>8, <1>9 DEF Retry

LEMMA PluginTypes ==
    ASSUME TypeOK, DisposePlugin \/ PluginDisposed \/ MountPlugin, UNCHANGED approvalVars
    PROVE  TypeOK'
<1>1. ApprovalTypeOK' BY DEF TypeOK, ApprovalTypeOK, approvalVars, Questions
<1> QED
  BY <1>1 DEF TypeOK, TurnTypeOK, RetryTypeOK, turn, recovering, DisposePlugin, PluginDisposed,
              MountPlugin

\* What Resolve leaves of the channel and its answers.
LEMMA ResolveTypes ==
    ASSUME TypeOK, NEW a \in Agents, NEW qs, NEW outcome \in Outcomes,
           Resolve(a, qs, outcome)
    PROVE  /\ channel' \in [Agents -> Seq(Channels)]
           /\ answer' \in [Agents -> Seq(Outcomes \cup {"none"})]
           /\ \A b \in Agents : Len(channel'[b]) = Len(channel[b]) /\ Len(answer'[b]) = Len(answer[b])
<1> DEFINE n == Len(asked[a])
           ch == [q \in 1..n |-> IF q \in qs THEN "answered" ELSE channel[a][q]]
           an == [q \in 1..n |-> IF q \in qs THEN outcome ELSE answer[a][q]]
<1>1. n \in Nat /\ n = Len(channel[a]) /\ n = Len(answer[a])
  BY DEF TypeOK, ApprovalTypeOK
<1>2. ch \in [1..n -> Channels] /\ an \in [1..n -> Outcomes \cup {"none"}]
  <2>1. channel[a] \in Seq(Channels) /\ answer[a] \in Seq(Outcomes \cup {"none"})
    BY DEF TypeOK, ApprovalTypeOK
  <2>2. \A q \in 1..n : channel[a][q] \in Channels /\ answer[a][q] \in Outcomes \cup {"none"}
    BY <1>1, <2>1, ElementOfSeq
  <2>3. "answered" \in Channels BY DEF Channels
  <2> QED BY <2>2, <2>3
<1>3. ch \in Seq(Channels) /\ Len(ch) = n BY <1>1, <1>2, OnQuestions
<1>4. an \in Seq(Outcomes \cup {"none"}) /\ Len(an) = n BY <1>1, <1>2, OnQuestions
<1>5. channel' = [channel EXCEPT ![a] = ch] /\ answer' = [answer EXCEPT ![a] = an]
  BY DEF Resolve, Questions
<1> QED BY <1>1, <1>3, <1>4, <1>5 DEF TypeOK, ApprovalTypeOK

\* One place of one agent's sequence is replaced, or one is added.
LEMMA SetAt ==
    ASSUME NEW S, NEW s \in [Agents -> Seq(S)], NEW a \in Agents, NEW q \in 1..Len(s[a]),
           NEW e \in S
    PROVE  /\ [s EXCEPT ![a][q] = e] \in [Agents -> Seq(S)]
           /\ \A b \in Agents : Len([s EXCEPT ![a][q] = e][b]) = Len(s[b])
<1>1. /\ [s[a] EXCEPT ![q] = e] \in Seq(S)
      /\ Len([s[a] EXCEPT ![q] = e]) = Len(s[a])
  BY ExceptSeq
<1> QED BY <1>1

LEMMA AddAt ==
    ASSUME NEW S, NEW s \in [Agents -> Seq(S)], NEW a \in Agents, NEW e \in S
    PROVE  /\ [s EXCEPT ![a] = Append(@, e)] \in [Agents -> Seq(S)]
           /\ \A b \in Agents : Len([s EXCEPT ![a] = Append(@, e)][b]) =
                                  IF b = a THEN Len(s[a]) + 1 ELSE Len(s[b])
<1>1. Append(s[a], e) \in Seq(S) /\ Len(Append(s[a], e)) = Len(s[a]) + 1 BY AppendIs
<1> QED BY <1>1

LEMMA AskTypes ==
    ASSUME TypeOK, NEW a \in Agents, NEW c \in Calls, Ask(a, c), UNCHANGED retryVars
    PROVE  TypeOK'
<1>1. TurnTypeOK' /\ RetryTypeOK'
  BY DEF Ask, turn, retryVars, recovering, TypeOK, TurnTypeOK, RetryTypeOK
<1>2. PICK outcome \in {"cancelled", "rejected", "racing"}, ch \in {"queued", "none"} :
        /\ race' = [race EXCEPT ![a] = Append(@, outcome)]
        /\ channel' = [channel EXCEPT ![a] = Append(@, ch)]
  BY DEF Ask
<1>3. /\ asked' = [asked EXCEPT ![a] = Append(@, c)]
      /\ decided' = [decided EXCEPT ![a] = Append(@, "none")]
      /\ answer' = [answer EXCEPT ![a] = Append(@, "none")]
      /\ record' = [record EXCEPT ![a] = Append(@, 0)]
      /\ UNCHANGED <<policyOf, channelUp, consent>> /\ Len(asked[a]) < MaxAsks
  BY DEF Ask
<1>4. /\ outcome \in Outcomes \cup {"racing"} /\ ch \in Channels
  BY DEF Outcomes, Channels
<1>5. /\ asked' \in [Agents -> Seq(Calls)]
      /\ decided' \in [Agents -> Seq(Outcomes \cup {"none"})]
      /\ race' \in [Agents -> Seq(Outcomes \cup {"racing"})]
      /\ channel' \in [Agents -> Seq(Channels)]
      /\ answer' \in [Agents -> Seq(Outcomes \cup {"none"})]
      /\ record' \in [Agents -> Seq(Nat)]
  BY <1>2, <1>3, <1>4, AddAt DEF TypeOK, ApprovalTypeOK
<1>6. \A b \in Agents :
        /\ Len(asked'[b]) = IF b = a THEN Len(asked[a]) + 1 ELSE Len(asked[b])
        /\ Len(decided'[b]) = IF b = a THEN Len(decided[a]) + 1 ELSE Len(decided[b])
        /\ Len(race'[b]) = IF b = a THEN Len(race[a]) + 1 ELSE Len(race[b])
        /\ Len(channel'[b]) = IF b = a THEN Len(channel[a]) + 1 ELSE Len(channel[b])
        /\ Len(answer'[b]) = IF b = a THEN Len(answer[a]) + 1 ELSE Len(answer[b])
        /\ Len(record'[b]) = IF b = a THEN Len(record[a]) + 1 ELSE Len(record[b])
  BY <1>2, <1>3, <1>4, AddAt DEF TypeOK, ApprovalTypeOK
<1>7. \A b \in Agents : Len(asked[b]) \in Nat BY DEF TypeOK, ApprovalTypeOK
<1> QED
  BY <1>1, <1>3, <1>5, <1>6, <1>7, MaxAsksAssumption DEF TypeOK, ApprovalTypeOK, Questions

\* The only record an entry may take is the one of its own question.
LEMMA OwnCandidate ==
    ASSUME TypeOK, AskInv, NEW a \in Agents, NEW q \in Questions(a),
           channel[a][q] = "queued", ~aborted[a]
    PROVE  Candidates(a, q) = {q}
<1>1. decided[a][q] = "none" BY DEF AskInv, RacesAgree
<1>2. \A p \in Questions(a) : Pending(a, p) => record[a][p] # q
  BY DEF AskInv, EntriesMatch, Pending
<1>3. q \in Candidates(a, q) BY <1>1, <1>2 DEF Candidates
<1>4. ASSUME NEW r \in Candidates(a, q), r # q PROVE FALSE
  <2>1. r \in Questions(a) /\ asked[a][r] = asked[a][q] /\ decided[a][r] = "none"
    BY <1>4 DEF Candidates
  <2>2. r < q \/ q < r BY <1>4, <2>1 DEF Questions, TypeOK, ApprovalTypeOK
  <2> QED BY <1>1, <2>1, <2>2 DEF AskInv, CallsAsk
<1> QED BY <1>3, <1>4

LEMMA Dispatched ==
    ASSUME TypeOK, AskInv, NEW a \in Agents, NEW q, Dispatch(a, q)
    PROVE  \/ \E o \in {"unavailable", "cancelled"} : Resolve(a, {q}, o) /\ UNCHANGED record
           \/ /\ channelUp /\ ~aborted[a] /\ UNCHANGED answer
              /\ channel' = [channel EXCEPT ![a][q] = "pending"]
              /\ record' = [record EXCEPT ![a][q] = q]
<1>1. q \in Questions(a) /\ channel[a][q] = "queued" BY DEF Dispatch
<1>2. CASE channelUp /\ ~aborted[a]
  <2>1. Candidates(a, q) = {q} BY <1>1, <1>2, OwnCandidate
  <2>2. q \in Nat BY <1>1 DEF Questions
  <2>3. (CHOOSE r \in {q} : \A s \in {q} : s <= r) = q BY <2>2
  <2>4. (CHOOSE r \in Candidates(a, q) : \A s \in Candidates(a, q) : s <= r) = q
    BY <2>1, <2>3
  <2>5. Candidates(a, q) # {} BY <2>1
  <2> QED BY <1>2, <2>4, <2>5 DEF Dispatch
<1>3. CASE ~(channelUp /\ ~aborted[a]) BY <1>3 DEF Dispatch
<1> QED BY <1>2, <1>3

\* A question that goes on: its channel, its race or its decision changes.
LEMMA QuestionTypes ==
    ASSUME TypeOK, AskInv, NEW a \in Agents, NEW q \in Nat, Question(a, q),
           UNCHANGED retryVars
    PROVE  TypeOK'
<1>1. TurnTypeOK' /\ RetryTypeOK'
  BY DEF Question, Dispatch, Respond, AnswerArrives, LogOutcome, turn, retryVars, recovering,
         TypeOK, TurnTypeOK, RetryTypeOK
<1>2. /\ q \in Questions(a) /\ UNCHANGED <<policyOf, asked, channelUp>>
      /\ q \in 1..Len(channel[a]) /\ q \in 1..Len(answer[a]) /\ q \in 1..Len(race[a])
      /\ q \in 1..Len(record[a]) /\ q \in 1..Len(decided[a])
  BY DEF Question, Dispatch, Respond, AnswerArrives, LogOutcome, TypeOK, ApprovalTypeOK, Questions
<1>3. "pending" \in Channels /\ "none" \in Channels BY DEF Channels
<1>4. race[a][q] \in Outcomes \cup {"racing"} /\ answer[a][q] \in Outcomes \cup {"none"}
  BY <1>2, ElementOfSeq DEF TypeOK, ApprovalTypeOK
<1>5. CASE Dispatch(a, q)
  <2>1. UNCHANGED <<decided, race, consent>> BY <1>5 DEF Dispatch
  <2>2. CASE \E o \in {"unavailable", "cancelled"} : Resolve(a, {q}, o) /\ UNCHANGED record
    <3>1. {"unavailable", "cancelled"} \subseteq Outcomes BY DEF Outcomes
    <3> QED BY <1>1, <1>2, <2>1, <2>2, <3>1, ResolveTypes DEF TypeOK, ApprovalTypeOK, Questions
  <2>3. CASE /\ channel' = [channel EXCEPT ![a][q] = "pending"] /\ UNCHANGED answer
             /\ record' = [record EXCEPT ![a][q] = q]
    <3>1. /\ channel' \in [Agents -> Seq(Channels)]
          /\ \A b \in Agents : Len(channel'[b]) = Len(channel[b])
      BY <1>2, <1>3, <2>3, SetAt DEF TypeOK, ApprovalTypeOK
    <3>2. /\ record' \in [Agents -> Seq(Nat)]
          /\ \A b \in Agents : Len(record'[b]) = Len(record[b])
      BY <1>2, <2>3, SetAt DEF TypeOK, ApprovalTypeOK
    <3> QED BY <1>1, <1>2, <2>1, <2>3, <3>1, <3>2 DEF TypeOK, ApprovalTypeOK, Questions
  <2> QED BY <1>5, <2>2, <2>3, Dispatched
<1>6. CASE Respond(a, q)
  <2>1. PICK o \in {"allowed-once", "rejected"} : Resolve(a, {q}, o) BY <1>6 DEF Respond
  <2>2. o \in Outcomes BY DEF Outcomes
  <2>3. /\ UNCHANGED <<decided, race, record>>
        /\ consent' \in [Agents -> SUBSET Nat]
        /\ \A b \in Agents : consent'[b] \subseteq Questions(b)
    <3>1. record[a][q] \in Questions(a) BY <1>2, <1>6 DEF Respond, AskInv, EntriesMatch
    <3> QED BY <1>2, <1>6, <3>1 DEF Respond, TypeOK, ApprovalTypeOK, Questions
  <2> QED BY <1>1, <1>2, <2>1, <2>2, <2>3, ResolveTypes DEF TypeOK, ApprovalTypeOK, Questions
<1>7. CASE AnswerArrives(a, q)
  <2>1. UNCHANGED <<decided, record, consent>> BY <1>7 DEF AnswerArrives
  <2>2. /\ channel' \in [Agents -> Seq(Channels)]
        /\ \A b \in Agents : Len(channel'[b]) = Len(channel[b])
    BY <1>2, <1>3, <1>7, SetAt DEF AnswerArrives, TypeOK, ApprovalTypeOK
  <2>3. /\ answer' \in [Agents -> Seq(Outcomes \cup {"none"})]
        /\ \A b \in Agents : Len(answer'[b]) = Len(answer[b])
    BY <1>2, <1>7, SetAt DEF AnswerArrives, TypeOK, ApprovalTypeOK
  <2>4. /\ race' \in [Agents -> Seq(Outcomes \cup {"racing"})]
        /\ \A b \in Agents : Len(race'[b]) = Len(race[b])
    <3>1. answer[a][q] \in Outcomes
      BY <1>2, <1>4, <1>7 DEF AnswerArrives, AskInv, RacesAgree
    <3> DEFINE e == IF race[a][q] = "racing" THEN answer[a][q] ELSE race[a][q]
    <3>2. e \in Outcomes \cup {"racing"} BY <1>4, <3>1
    <3>3. race' = [race EXCEPT ![a][q] = e] BY <1>7 DEF AnswerArrives
    <3>4. race \in [Agents -> Seq(Outcomes \cup {"racing"})] BY DEF TypeOK, ApprovalTypeOK
    <3> HIDE DEF e
    <3> QED BY <1>2, <3>2, <3>3, <3>4, SetAt
  <2> QED BY <1>1, <1>2, <2>1, <2>2, <2>3, <2>4 DEF TypeOK, ApprovalTypeOK, Questions
<1>8. CASE LogOutcome(a, q)
  <2>1. UNCHANGED <<race, channel, answer, record, consent>> /\ race[a][q] # "racing"
        /\ decided' = [decided EXCEPT ![a][q] = race[a][q]]
    BY <1>8 DEF LogOutcome
  <2>2. /\ decided' \in [Agents -> Seq(Outcomes \cup {"none"})]
        /\ \A b \in Agents : Len(decided'[b]) = Len(decided[b])
    BY <1>2, <1>4, <2>1, SetAt DEF TypeOK, ApprovalTypeOK
  <2> QED BY <1>1, <1>2, <2>1, <2>2 DEF TypeOK, ApprovalTypeOK, Questions
<1> QED BY <1>5, <1>6, <1>7, <1>8 DEF Question

LEMMA AbortTypes ==
    ASSUME TypeOK, NEW a \in Agents, Cancel(a)
    PROVE  TypeOK'
<1> DEFINE n == Len(asked[a])
           f == [q \in 1..n |-> IF race[a][q] = "racing" THEN "cancelled" ELSE race[a][q]]
<1>1. n \in Nat /\ n = Len(race[a]) /\ race[a] \in Seq(Outcomes \cup {"racing"})
  BY DEF TypeOK, ApprovalTypeOK
<1>2. "cancelled" \in Outcomes BY DEF Outcomes
<1>3. \A q \in 1..n : race[a][q] \in Outcomes \cup {"racing"} BY <1>1, ElementOfSeq
<1>4. f \in [1..n -> Outcomes \cup {"racing"}] BY <1>2, <1>3
<1>5. f \in Seq(Outcomes \cup {"racing"}) /\ Len(f) = n BY <1>1, <1>4, OnQuestions
<1>6. race' = [race EXCEPT ![a] = f] BY DEF Cancel, OnAbort, Questions
<1>7. /\ race' \in [Agents -> Seq(Outcomes \cup {"racing"})]
      /\ \A b \in Agents : Len(race'[b]) = Len(race[b])
  BY <1>1, <1>5, <1>6 DEF TypeOK, ApprovalTypeOK
<1>8. Resolve(a, {q \in Questions(a) : Pending(a, q)}, "cancelled") BY DEF Cancel, OnAbort
<1>9. UNCHANGED <<phase, retryVars, policyOf, asked, decided, record, channelUp, consent>>
      /\ aborted' = [aborted EXCEPT ![a] = TRUE]
  BY DEF Cancel
<1>10. TurnTypeOK' /\ RetryTypeOK'
  BY <1>9 DEF retryVars, recovering, TypeOK, TurnTypeOK, RetryTypeOK
<1> QED
  BY <1>2, <1>7, <1>8, <1>9, <1>10, ResolveTypes DEF TypeOK, ApprovalTypeOK, Questions

LEMMA LoopTypes ==
    ASSUME TypeOK, NEW a \in Agents, Loop(a)
    PROVE  TypeOK'
<1> USE DEF TypeOK, TurnTypeOK, RetryTypeOK
<1>1. <<>> \in Seq(Records) /\ <<>> \in Seq(Calls) BY EmptySeq
<1>2. ASSUME UNCHANGED approvalVars PROVE ApprovalTypeOK'
  BY <1>2 DEF ApprovalTypeOK, approvalVars, Questions
<1>3. CASE TurnStarts(a)
  BY <1>2, <1>3 DEF TurnStarts, Enter, Phases, retryVars, recovering
<1>4. CASE ResponseArrives(a) \/ RequestAborts(a)
  BY <1>1, <1>2, <1>4 DEF ResponseArrives, RequestAborts, Enter, Phases, recovering
<1>5. CASE LoopResumes(a)
  <2>1. /\ recovery' \in [Agents -> Recoveries] /\ retry' \in [Agents -> BOOLEAN]
        /\ listener' \in [Agents -> {"live", "stale", "none"}]
        /\ policy' \in [Agents -> Policies \cup {NoPolicy}] /\ failure' \in [Agents -> Failures]
    BY <1>5 DEF LoopResumes, Recovered, Recover, Recoveries, Failures
  <2>2. phase' \in [Agents -> Phases] /\ retries' \in [Agents -> Seq(Records)]
    BY <1>1, <1>5 DEF LoopResumes, Enter, Phases
  <2> QED BY <1>2, <1>5, <2>1, <2>2 DEF LoopResumes
<1>6. CASE StepEnds(a)
  <2>1. TurnTypeOK' /\ RetryTypeOK' /\ UNCHANGED <<policyOf, channelUp>>
    BY <1>6 DEF StepEnds, Enter, Phases, retryVars, recovering
  <2>2. /\ asked' = [asked EXCEPT ![a] = <<>>] /\ decided' = [decided EXCEPT ![a] = <<>>]
        /\ race' = [race EXCEPT ![a] = <<>>] /\ channel' = [channel EXCEPT ![a] = <<>>]
        /\ answer' = [answer EXCEPT ![a] = <<>>] /\ record' = [record EXCEPT ![a] = <<>>]
        /\ consent' = [consent EXCEPT ![a] = {}]
    BY <1>6 DEF StepEnds, ForgetQuestions
  <2>3. \A S : <<>> \in Seq(S) BY EmptySeq
  <2>4. /\ asked' \in [Agents -> Seq(Calls)]
        /\ decided' \in [Agents -> Seq(Outcomes \cup {"none"})]
        /\ race' \in [Agents -> Seq(Outcomes \cup {"racing"})]
        /\ channel' \in [Agents -> Seq(Channels)]
        /\ answer' \in [Agents -> Seq(Outcomes \cup {"none"})]
        /\ record' \in [Agents -> Seq(Nat)] /\ consent' \in [Agents -> SUBSET Nat]
    BY <2>2, <2>3 DEF ApprovalTypeOK
  <2>5. Len(<<>>) = 0 BY EmptySeq
  <2> QED BY <2>1, <2>2, <2>4, <2>5, MaxAsksAssumption DEF ApprovalTypeOK, Questions
<1>7. CASE Cancel(a) BY <1>7, AbortTypes
<1> QED BY <1>3, <1>4, <1>5, <1>6, <1>7 DEF Loop

LEMMA HostTypes ==
    ASSUME TypeOK, (\E a \in Agents : SetPolicy(a)) \/ CloseChannel \/ OpenChannel,
           UNCHANGED retryVars
    PROVE  TypeOK'
<1>1. TurnTypeOK' /\ RetryTypeOK'
  BY DEF SetPolicy, CloseChannel, OpenChannel, turn, retryVars, recovering, TypeOK, TurnTypeOK,
         RetryTypeOK
<1>2. CASE (\E a \in Agents : SetPolicy(a)) \/ OpenChannel
  BY <1>1, <1>2 DEF SetPolicy, OpenChannel, TypeOK, ApprovalTypeOK, Questions
<1>3. CASE CloseChannel
  <2> DEFINE ch(b) == [q \in 1..Len(asked[b]) |->
                         IF Pending(b, q) THEN "answered" ELSE channel[b][q]]
             an(b) == [q \in 1..Len(asked[b]) |->
                         IF Pending(b, q) THEN "cancelled" ELSE answer[b][q]]
  <2>1. ASSUME NEW b \in Agents
        PROVE  /\ ch(b) \in Seq(Channels) /\ Len(ch(b)) = Len(channel[b])
               /\ an(b) \in Seq(Outcomes \cup {"none"}) /\ Len(an(b)) = Len(answer[b])
    <3>1. /\ Len(asked[b]) \in Nat /\ Len(asked[b]) = Len(channel[b])
          /\ Len(asked[b]) = Len(answer[b])
          /\ channel[b] \in Seq(Channels) /\ answer[b] \in Seq(Outcomes \cup {"none"})
      BY DEF TypeOK, ApprovalTypeOK
    <3>2. \A q \in 1..Len(asked[b]) :
            channel[b][q] \in Channels /\ answer[b][q] \in Outcomes \cup {"none"}
      BY <3>1, ElementOfSeq
    <3>3. "answered" \in Channels /\ "cancelled" \in Outcomes BY DEF Channels, Outcomes
    <3>4. /\ ch(b) \in [1..Len(asked[b]) -> Channels]
          /\ an(b) \in [1..Len(asked[b]) -> Outcomes \cup {"none"}]
      BY <3>2, <3>3
    <3> HIDE DEF ch, an
    <3> QED BY <3>1, <3>4, OnQuestions
  <2>2. channel' = [b \in Agents |-> ch(b)] /\ answer' = [b \in Agents |-> an(b)]
    BY <1>3 DEF CloseChannel, Questions
  <2>3. channelUp' = FALSE /\ UNCHANGED <<policyOf, asked, decided, race, record, consent>>
    BY <1>3 DEF CloseChannel
  <2> HIDE DEF ch, an
  <2> QED BY <1>1, <2>1, <2>2, <2>3 DEF TypeOK, ApprovalTypeOK, Questions
<1> QED BY <1>2, <1>3

LEMMA TypesKept == ASSUME IInv, [Next]_vars PROVE TypeOK'
<1> USE DEF IInv, RetryInv
<1>1. CASE Next
  <2>1. ASSUME NEW a \in Agents, NEW c \in Calls, Ask(a, c), UNCHANGED retryVars PROVE TypeOK'
    BY <2>1, AskTypes
  <2>2. ASSUME NEW a \in Agents, NEW q \in 1..MaxAsks, Question(a, q), UNCHANGED retryVars
        PROVE  TypeOK'
    <3>1. q \in Nat BY MaxAsksAssumption
    <3> QED BY <2>2, <3>1, QuestionTypes
  <2> QED BY <1>1, <2>1, <2>2, LoopTypes, RetryTypes, PluginTypes, HostTypes DEF Next
<1>2. CASE UNCHANGED vars
  BY <1>2 DEF vars, turn, retryVars, recovering, approvalVars, TypeOK, TurnTypeOK, RetryTypeOK,
              ApprovalTypeOK, Questions
<1> QED BY <1>1, <1>2

(***************************************************************************)
(* The records of the retries.                                              *)
(***************************************************************************)

LEMMA RetryRecord ==
    ASSUME TypeOK, NEW a \in Agents, NEW p, NEW i \in RetriesOf(a, p)
    PROVE  i \in Nat /\ i \in 1..Len(retries[a]) /\ retries[a][i].attempt \in Nat
<1>1. retries[a] \in Seq(Records) BY DEF TypeOK, RetryTypeOK
<1>2. i \in 1..Len(retries[a]) BY DEF RetriesOf
<1>3. retries[a][i] \in Records BY <1>1, <1>2, ElementOfSeq
<1> QED BY <1>2, <1>3 DEF Records

LEMMA AppendedRecord ==
    ASSUME TypeOK, NEW a \in Agents, NEW r \in Records,
           retries' = [retries EXCEPT ![a] = Append(@, r)]
    PROVE  /\ \A b \in Agents : b # a => retries'[b] = retries[b]
           /\ Len(retries[a]) \in Nat /\ Len(retries'[a]) = Len(retries[a]) + 1
           /\ \A i \in 1..Len(retries[a]) : retries'[a][i] = retries[a][i]
           /\ retries'[a][Len(retries[a]) + 1] = r
           /\ \A b \in Agents : \A p : RetriesOf(b, p)' =
                IF b = a /\ r.type = "retry" /\ r.policy = p
                THEN RetriesOf(b, p) \cup {Len(retries[a]) + 1} ELSE RetriesOf(b, p)
<1>1. retries[a] \in Seq(Records) /\ retries'[a] = Append(retries[a], r)
  BY DEF TypeOK, RetryTypeOK
<1>2. /\ Len(retries[a]) \in Nat /\ Len(retries'[a]) = Len(retries[a]) + 1
      /\ \A i \in 1..Len(retries[a]) : retries'[a][i] = retries[a][i]
      /\ retries'[a][Len(retries[a]) + 1] = r
  BY <1>1, AppendIs
<1>3. \A b \in Agents : b # a => retries'[b] = retries[b] BY DEF TypeOK, RetryTypeOK
<1>4. ASSUME NEW b \in Agents, NEW p
      PROVE  RetriesOf(b, p)' =
                IF b = a /\ r.type = "retry" /\ r.policy = p
                THEN RetriesOf(b, p) \cup {Len(retries[a]) + 1} ELSE RetriesOf(b, p)
  <2>1. CASE b # a BY <1>3, <2>1 DEF RetriesOf
  <2>2. CASE b = a
    <3>1. RetriesOf(a, p)' = {i \in 1..(Len(retries[a]) + 1) :
                                retries'[a][i].type = "retry" /\ retries'[a][i].policy = p}
      BY <1>2 DEF RetriesOf
    <3>2. 1..(Len(retries[a]) + 1) = 1..Len(retries[a]) \cup {Len(retries[a]) + 1} BY <1>2
    <3> QED BY <1>2, <2>2, <3>1, <3>2 DEF RetriesOf
  <2> QED BY <2>1, <2>2
<1> QED BY <1>2, <1>3, <1>4

\* The latest retry has the highest number, and below it none is missing.
LEMMA PreviousIsLast ==
    ASSUME TypeOK, LatestThere, RetriesNumbered, NEW a \in Agents, policy[a] \in Policies
    PROVE  /\ \A i \in RetriesOf(a, policy[a]) : retries[a][i].attempt <= PreviousRetry(a)
           /\ \A n \in 1..PreviousRetry(a) : \E j \in RetriesOf(a, policy[a]) :
                retries[a][j].attempt = n
<1> DEFINE S == RetriesOf(a, policy[a])
           k == Latest(S)
<1>1. CASE S = {} BY <1>1 DEF PreviousRetry
<1>2. CASE S # {}
  <2>1. k \in S /\ \A j \in S : j <= k BY <1>2 DEF LatestThere, Latest
  <2>2. PreviousRetry(a) = retries[a][k].attempt BY <1>2 DEF PreviousRetry
  <2>3. \A i \in S : i \in Nat /\ retries[a][i].attempt \in Nat BY RetryRecord
  <2>4. /\ \A j \in S : j < k => retries[a][j].attempt < retries[a][k].attempt
        /\ \A n \in 1..(retries[a][k].attempt - 1) : \E j \in S : retries[a][j].attempt = n
    BY <2>1 DEF RetriesNumbered
  <2>5. ASSUME NEW i \in S PROVE retries[a][i].attempt <= retries[a][k].attempt
    <3>1. CASE i = k BY <2>3, <3>1
    <3>2. CASE i # k BY <2>1, <2>3, <2>4, <3>2
    <3> QED BY <3>1, <3>2
  <2>6. ASSUME NEW n \in 1..retries[a][k].attempt
        PROVE  \E j \in S : retries[a][j].attempt = n
    <3>1. CASE n = retries[a][k].attempt BY <2>1, <3>1
    <3>2. CASE n # retries[a][k].attempt BY <2>1, <2>3, <2>4, <3>2
    <3> QED BY <3>1, <3>2
  <2> HIDE DEF S, k
  <2> QED BY <2>2, <2>5, <2>6 DEF S
<1> QED BY <1>1, <1>2

\* A retry that is scheduled has the next number.
LEMMA Scheduled ==
    ASSUME TypeOK, LatestThere, RetriesNumbered, NEW a \in Agents, policy[a] \in Policies,
           policy[a].mode = "normal" => PreviousRetry(a) < policy[a].max,
           UNCHANGED policy,
           retries' = [retries EXCEPT ![a] =
                         Append(@, Record("retry", policy[a], PreviousRetry(a) + 1))]
    PROVE  /\ LatestThere' /\ RetriesNumbered'
           /\ Len(retries'[a]) > 0 /\ retries'[a][Len(retries'[a])].type = "retry"
           /\ retries'[a][Len(retries'[a])].policy = policy[a]
           /\ \A b \in Agents : b # a => retries'[b] = retries[b]
<1> DEFINE r == Record("retry", policy[a], PreviousRetry(a) + 1)
           l == Len(retries[a]) + 1
<1>1. PreviousRetry(a) \in Nat BY PreviousIsNat
<1>2. r \in Records BY <1>1, RecordTyped
<1>3. r.type = "retry" /\ r.policy = policy[a] /\ r.attempt = PreviousRetry(a) + 1 BY DEF Record
<1> HIDE DEF r
<1>4. /\ \A b \in Agents : b # a => retries'[b] = retries[b]
      /\ Len(retries[a]) \in Nat /\ Len(retries'[a]) = l
      /\ \A i \in 1..Len(retries[a]) : retries'[a][i] = retries[a][i]
      /\ retries'[a][l] = r
      /\ \A b \in Agents : \A p : RetriesOf(b, p)' =
           IF b = a /\ p = policy[a] THEN RetriesOf(b, p) \cup {l} ELSE RetriesOf(b, p)
  <2>1. retries' = [retries EXCEPT ![a] = Append(@, r)] BY DEF r
  <2>2. \A b \in Agents : \A p : RetriesOf(b, p)' =
           IF b = a /\ r.type = "retry" /\ r.policy = p
           THEN RetriesOf(b, p) \cup {Len(retries[a]) + 1} ELSE RetriesOf(b, p)
    BY <1>2, <2>1, AppendedRecord
  <2>3. \A b \in Agents : \A p : RetriesOf(b, p)' =
           IF b = a /\ p = policy[a] THEN RetriesOf(b, p) \cup {l} ELSE RetriesOf(b, p)
    BY <1>3, <2>2
  <2> QED BY <1>2, <2>1, <2>3, AppendedRecord
<1>5. \A b \in Agents : \A p : \A i \in RetriesOf(b, p) : i \in 1..Len(retries[b]) BY DEF RetriesOf
<1>6. LatestThere'
  <2>1. ASSUME NEW b \in Agents, NEW p \in Policies \cup {NoPolicy}, RetriesOf(b, p)' # {}
        PROVE  \E i \in RetriesOf(b, p)' : \A j \in RetriesOf(b, p)' : j <= i
    <3>1. CASE b = a /\ p = policy[a]
      <4>1. l \in RetriesOf(b, p)' /\ \A j \in RetriesOf(b, p)' : j <= l BY <1>4, <1>5, <3>1
      <4> QED BY <4>1
    <3>2. CASE ~(b = a /\ p = policy[a]) BY <1>4, <2>1, <3>2 DEF LatestThere
    <3> QED BY <3>1, <3>2
  <2> QED BY <2>1 DEF LatestThere
<1>7. RetriesNumbered'
  <2>1. ASSUME NEW b \in Agents, NEW p \in Policies, NEW i \in RetriesOf(b, p)'
        PROVE  /\ retries'[b][i].attempt >= 1
               /\ p.mode = "normal" => retries'[b][i].attempt <= p.max
               /\ \A j \in RetriesOf(b, p)' : j < i => retries'[b][j].attempt < retries'[b][i].attempt
               /\ \A n \in 1..(retries'[b][i].attempt - 1) :
                    \E j \in RetriesOf(b, p)' : j < i /\ retries'[b][j].attempt = n
    <3>1. CASE b = a /\ p = policy[a] /\ i = l
      <4>1. retries'[a][l].attempt = PreviousRetry(a) + 1 BY <1>3, <1>4
      <4>2. /\ \A j \in RetriesOf(a, p) : retries[a][j].attempt <= PreviousRetry(a)
            /\ \A n \in 1..PreviousRetry(a) : \E j \in RetriesOf(a, p) : retries[a][j].attempt = n
        BY <3>1, PreviousIsLast
      <4>3. \A j \in RetriesOf(a, p) : j < l /\ retries'[a][j] = retries[a][j] BY <1>4, <1>5
      <4>5. p.mode = "normal" => PreviousRetry(a) + 1 <= p.max
        BY <1>1, <3>1, PoliciesAssumption
      <4>6. \A j \in RetriesOf(a, p) : j \in Nat /\ retries[a][j].attempt \in Nat BY RetryRecord
      <4>7. ASSUME NEW j \in RetriesOf(a, p)
            PROVE  retries'[a][j].attempt < retries'[a][l].attempt
        <5>1. retries'[a][j].attempt = retries[a][j].attempt BY <4>3
        <5>2. retries[a][j].attempt \in Nat /\ retries[a][j].attempt <= PreviousRetry(a)
          BY <4>2, <4>6
        <5>3. \A x, y, n : (n \in Nat /\ x \in Nat /\ x <= n /\ y = n + 1) => x < y OBVIOUS
        <5> QED BY <1>1, <4>1, <5>1, <5>2, <5>3
      <4>8. \A n \in 1..PreviousRetry(a) :
              \E j \in RetriesOf(a, p) : j < l /\ retries'[a][j].attempt = n
        BY <4>2, <4>3
      <4>9. l \in Nat /\ retries'[a][l].attempt - 1 = PreviousRetry(a) BY <1>1, <1>4, <4>1
      <4>10. RetriesOf(b, p)' = RetriesOf(a, p) \cup {l} BY <1>4, <3>1
      <4> HIDE DEF l
      <4>11. ASSUME NEW j \in RetriesOf(b, p)', j < i
             PROVE  retries'[b][j].attempt < retries'[b][i].attempt
        <5>1. j # l BY <3>1, <4>9, <4>11
        <5>2. j \in RetriesOf(a, p) BY <4>10, <5>1
        <5> QED BY <3>1, <4>7, <5>2
      <4>12. \A n \in 1..(retries'[b][i].attempt - 1) :
              \E j \in RetriesOf(b, p)' : j < i /\ retries'[b][j].attempt = n
        BY <3>1, <4>8, <4>9, <4>10
      <4>13. retries'[b][i].attempt = PreviousRetry(a) + 1 BY <3>1, <4>1
      <4>14. retries'[b][i].attempt >= 1
        <5>1. \A x, n : (n \in Nat /\ x = n + 1) => x >= 1 OBVIOUS
        <5> QED BY <1>1, <4>13, <5>1
      <4>15. p.mode = "normal" => retries'[b][i].attempt <= p.max BY <4>5, <4>13
      <4> QED BY <4>11, <4>12, <4>14, <4>15
    <3>2. CASE ~(b = a /\ p = policy[a] /\ i = l)
      <4>1. i \in RetriesOf(b, p) BY <1>4, <3>2
      <4>2. /\ retries[b][i].attempt >= 1
            /\ p.mode = "normal" => retries[b][i].attempt <= p.max
            /\ \A j \in RetriesOf(b, p) : j < i => retries[b][j].attempt < retries[b][i].attempt
            /\ \A n \in 1..(retries[b][i].attempt - 1) :
                 \E j \in RetriesOf(b, p) : j < i /\ retries[b][j].attempt = n
        BY <4>1 DEF RetriesNumbered
      <4>3. \A j \in RetriesOf(b, p) : retries'[b][j] = retries[b][j] BY <1>4, <1>5
      <4>4. \A j \in RetriesOf(b, p)' : j < i => j \in RetriesOf(b, p)
        BY <1>4, <1>5, <4>1
      <4>5. \A j \in RetriesOf(b, p) : j \in RetriesOf(b, p)' BY <1>4
      <4> QED BY <4>1, <4>2, <4>3, <4>4, <4>5
    <3> QED BY <3>1, <3>2
  <2>2. ASSUME NEW b \in Agents, NEW i \in 1..Len(retries'[b]), retries'[b][i].type = "started"
        PROVE  i > 1 /\ retries'[b][i - 1] = [retries'[b][i] EXCEPT !.type = "retry"]
    <3>1. i \in 1..Len(retries[b]) /\ retries'[b][i] = retries[b][i] BY <1>3, <1>4, <2>2
    <3>2. i > 1 /\ retries[b][i - 1] = [retries[b][i] EXCEPT !.type = "retry"]
      BY <2>2, <3>1 DEF RetriesNumbered
    <3>3. retries'[b][i - 1] = retries[b][i - 1] BY <1>4, <3>1, <3>2
    <3> QED BY <3>1, <3>2, <3>3
  <2> QED BY <2>1, <2>2 DEF RetriesNumbered
<1> QED BY <1>3, <1>4, <1>6, <1>7

\* The wait of the last retry is over.
LEMMA Started ==
    ASSUME TypeOK, RetryInv, NEW a \in Agents, recovery[a] = "delay",
           retries' = [retries EXCEPT ![a] =
                         Append(@, Record("started", policy[a], PreviousRetry(a)))]
    PROVE  LatestThere' /\ RetriesNumbered'
<1> DEFINE r == Record("started", policy[a], PreviousRetry(a))
           k == Len(retries[a])
<1>1. /\ k > 0 /\ retries[a][k].type = "retry" /\ retries[a][k].policy = policy[a]
      /\ retries[a] \in Seq(Records) /\ policy[a] \in Policies \cup {NoPolicy}
  BY DEF RetryInv, DelayRecorded, TypeOK, RetryTypeOK
<1>2. k \in 1..k /\ k \in Nat BY <1>1
<1>3. k \in RetriesOf(a, policy[a]) BY <1>1, <1>2 DEF RetriesOf
<1>4. PreviousRetry(a) = retries[a][k].attempt
  <2>1. \A j \in RetriesOf(a, policy[a]) : j \in 1..k BY DEF RetriesOf
  <2>2. Latest(RetriesOf(a, policy[a])) = k
    <3> DEFINE S == RetriesOf(a, policy[a])
    <3> HIDE DEF S
    <3>1. k \in S /\ \A j \in S : j \in 1..k BY <1>3, <2>1 DEF S
    <3>2. \A j \in S : j <= k BY <3>1
    <3>3. \A i \in S : (\A j \in S : j <= i) => i = k BY <1>2, <3>1
    <3> QED BY <3>1, <3>2, <3>3 DEF S, Latest
  <2> QED BY <1>3, <2>2 DEF PreviousRetry
<1>5. r \in Records BY RecordTyped, PreviousIsNat DEF RetryInv
<1>6. r.type = "started" BY DEF Record
<1>7. retries[a][k] = [r EXCEPT !.type = "retry"]
  <2>1. retries[a][k] \in Records BY <1>1, <1>2, ElementOfSeq
  <2> QED BY <1>1, <1>4, <2>1 DEF Record, Records
<1> HIDE DEF r
<1>8. /\ \A b \in Agents : b # a => retries'[b] = retries[b]
      /\ Len(retries'[a]) = k + 1 /\ retries'[a][k + 1] = r
      /\ \A i \in 1..k : retries'[a][i] = retries[a][i]
      /\ \A b \in Agents : \A p : RetriesOf(b, p)' = RetriesOf(b, p)
  <2>1. retries' = [retries EXCEPT ![a] = Append(@, r)] BY DEF r
  <2>2. \A b \in Agents : \A p : RetriesOf(b, p)' =
           IF b = a /\ r.type = "retry" /\ r.policy = p
           THEN RetriesOf(b, p) \cup {k + 1} ELSE RetriesOf(b, p)
    BY <1>5, <2>1, AppendedRecord
  <2>3. \A b \in Agents : \A p : RetriesOf(b, p)' = RetriesOf(b, p) BY <1>6, <2>2
  <2> QED BY <1>5, <2>1, <2>3, AppendedRecord
<1>9. LatestThere' BY <1>8 DEF RetryInv, LatestThere
<1>10. RetriesNumbered'
  <2>1. \A b \in Agents : \A p : \A i \in RetriesOf(b, p) : retries'[b][i] = retries[b][i]
    BY <1>8 DEF RetriesOf
  <2>2. ASSUME NEW b \in Agents, NEW p \in Policies, NEW i \in RetriesOf(b, p)'
        PROVE  /\ retries'[b][i].attempt >= 1
               /\ p.mode = "normal" => retries'[b][i].attempt <= p.max
               /\ \A j \in RetriesOf(b, p)' : j < i => retries'[b][j].attempt < retries'[b][i].attempt
               /\ \A n \in 1..(retries'[b][i].attempt - 1) :
                    \E j \in RetriesOf(b, p)' : j < i /\ retries'[b][j].attempt = n
    <3>1. i \in RetriesOf(b, p) /\ RetriesOf(b, p)' = RetriesOf(b, p) BY <1>8, <2>2
    <3>2. /\ retries[b][i].attempt >= 1
          /\ p.mode = "normal" => retries[b][i].attempt <= p.max
          /\ \A j \in RetriesOf(b, p) : j < i => retries[b][j].attempt < retries[b][i].attempt
          /\ \A n \in 1..(retries[b][i].attempt - 1) :
               \E j \in RetriesOf(b, p) : j < i /\ retries[b][j].attempt = n
      BY <3>1 DEF RetryInv, RetriesNumbered
    <3>3. \A j \in RetriesOf(b, p) : retries'[b][j] = retries[b][j] BY <2>1
    <3> QED BY <3>1, <3>2, <3>3
  <2>3. ASSUME NEW b \in Agents, NEW i \in 1..Len(retries'[b]), retries'[b][i].type = "started"
        PROVE  i > 1 /\ retries'[b][i - 1] = [retries'[b][i] EXCEPT !.type = "retry"]
    <3>1. CASE b = a /\ i = k + 1
      <4>1. i > 1 /\ i - 1 = k BY <1>1, <1>2, <3>1
      <4>2. retries'[a][k] = retries[a][k] BY <1>2, <1>8
      <4> HIDE DEF k
      <4> QED BY <1>7, <1>8, <3>1, <4>1, <4>2
    <3>2. CASE ~(b = a /\ i = k + 1)
      <4>1. i \in 1..Len(retries[b]) /\ retries'[b][i] = retries[b][i] BY <1>2, <1>8, <3>2
      <4>2. i > 1 /\ retries[b][i - 1] = [retries[b][i] EXCEPT !.type = "retry"]
        BY <2>3, <4>1 DEF RetryInv, RetriesNumbered
      <4>3. retries'[b][i - 1] = retries[b][i - 1] BY <1>8, <4>1, <4>2
      <4> QED BY <4>1, <4>2, <4>3
    <3> QED BY <3>1, <3>2
  <2> QED BY <2>2, <2>3 DEF RetriesNumbered
<1> QED BY <1>9, <1>10

LEMMA RecordsSame ==
    ASSUME LatestThere, RetriesNumbered, UNCHANGED retries
    PROVE  LatestThere' /\ RetriesNumbered'
<1>1. \A b, p : RetriesOf(b, p)' = RetriesOf(b, p) BY DEF RetriesOf
<1>2. LatestThere' BY <1>1 DEF LatestThere
<1>3. RetriesNumbered'
  <2>1. ASSUME NEW b \in Agents, NEW p \in Policies, NEW i \in RetriesOf(b, p)
        PROVE  /\ retries'[b][i].attempt >= 1
               /\ p.mode = "normal" => retries'[b][i].attempt <= p.max
               /\ \A j \in RetriesOf(b, p)' : j < i => retries'[b][j].attempt < retries'[b][i].attempt
               /\ \A n \in 1..(retries'[b][i].attempt - 1) :
                    \E j \in RetriesOf(b, p)' : j < i /\ retries'[b][j].attempt = n
    BY <1>1, <2>1 DEF RetriesNumbered
  <2> QED BY <1>1, <2>1 DEF RetriesNumbered
<1> QED BY <1>2, <1>3

LEMMA RecordsLeft ==
    ASSUME TypeOK, LatestThere, RetriesNumbered, NEW a \in Agents,
           retries' = [retries EXCEPT ![a] = <<>>]
    PROVE  LatestThere' /\ RetriesNumbered'
<1>1. /\ retries'[a] = <<>> /\ Len(<<>>) = 0
      /\ \A b \in Agents : b # a => retries'[b] = retries[b]
  BY EmptySeq DEF TypeOK, RetryTypeOK
<1>2. \A p : RetriesOf(a, p)' = {} BY <1>1 DEF RetriesOf
<1>3. \A b \in Agents : \A p : b # a => RetriesOf(b, p)' = RetriesOf(b, p) BY <1>1 DEF RetriesOf
<1>4. LatestThere' BY <1>2, <1>3 DEF LatestThere
<1>5. RetriesNumbered' BY <1>1, <1>2, <1>3 DEF RetriesNumbered
<1> QED BY <1>4, <1>5

\* A retry is scheduled, or the recovery goes elsewhere.
LEMMA ScheduleKeeps ==
    ASSUME TypeOK, RetryInv, NEW a \in Agents, Schedule(a), phase[a] = "recover",
           listener[a] \in {"live", "stale"}, policy[a].mode \in {"normal", "always"},
           UNCHANGED <<turn, listener, policy>>
    PROVE  RetryInv'
<1> USE DEF turn
<1>1. policy[a] \in Policies BY DEF TypeOK, RetryTypeOK, NoPolicy
<1>2. CASE UNCHANGED retries /\ \E r \in {"delegated", "done"} : Recover(a, r)
  <2>1. LatestThere' /\ RetriesNumbered' BY <1>2, RecordsSame DEF RetryInv
  <2>2. Captured'
    BY <1>2 DEF RetryInv, Captured, Recover, TypeOK, RetryTypeOK
  <2>3. DelayRecorded' BY <1>2 DEF RetryInv, DelayRecorded, Recover, TypeOK, RetryTypeOK
  <2> QED BY <2>1, <2>2, <2>3 DEF RetryInv
<1>3. CASE /\ policy[a].mode = "normal" => ~(PreviousRetry(a) >= policy[a].max)
           /\ Recover(a, "delay")
           /\ retries' = [retries EXCEPT ![a] =
                            Append(@, Record("retry", policy[a], PreviousRetry(a) + 1))]
  <2>1. policy[a].mode = "normal" => PreviousRetry(a) < policy[a].max
    <3>1. PreviousRetry(a) \in Nat /\ policy[a].max \in Nat
      BY <1>1, PreviousIsNat, PoliciesAssumption DEF RetryInv
    <3>2. \A x, y \in Nat : ~(x >= y) => x < y OBVIOUS
    <3> QED BY <1>3, <3>1, <3>2
  <2>2. /\ LatestThere' /\ RetriesNumbered'
        /\ Len(retries'[a]) > 0 /\ retries'[a][Len(retries'[a])].type = "retry"
        /\ retries'[a][Len(retries'[a])].policy = policy[a]
        /\ \A b \in Agents : b # a => retries'[b] = retries[b]
    BY <1>1, <1>3, <2>1, Scheduled DEF RetryInv
  <2>3. Captured' BY <1>3 DEF RetryInv, Captured, Recover, TypeOK, RetryTypeOK
  <2>4. DelayRecorded' BY <1>3, <2>2 DEF RetryInv, DelayRecorded, Recover, TypeOK, RetryTypeOK
  <2> QED BY <2>2, <2>3, <2>4 DEF RetryInv
<1> QED BY <1>2, <1>3 DEF Schedule, Decide

\* A recovery goes on without a record, and does not wait.
LEMMA RecoveryGoesOn ==
    ASSUME TypeOK, RetryInv, NEW a \in Agents, NEW r \in Recoveries \ {"delay"}, Recover(a, r),
           phase[a] = "recover" \/ r = "none",
           r = "settling" => listener[a] \in {"live", "stale"} /\ policy[a].mode = "always",
           UNCHANGED <<turn, listener, policy, retries>>
    PROVE  RetryInv'
<1>1. LatestThere' /\ RetriesNumbered' BY RecordsSame DEF RetryInv
<1>2. Captured' BY DEF RetryInv, Captured, Recover, TypeOK, RetryTypeOK, turn
<1>3. DelayRecorded' BY DEF RetryInv, DelayRecorded, Recover, TypeOK, RetryTypeOK
<1> QED BY <1>1, <1>2, <1>3 DEF RetryInv

LEMMA RetryKeeps ==
    ASSUME TypeOK, RetryInv, NEW a \in Agents, Retry(a)
    PROVE  RetryInv'
<1>1. CASE RequestFails(a)
  <2>1. LatestThere' /\ RetriesNumbered' BY <1>1, RecordsSame DEF RequestFails, RetryInv
  <2>2. /\ phase' = [phase EXCEPT ![a] = "recover"]
        /\ recovery' = [recovery EXCEPT ![a] = "upstream"] /\ UNCHANGED retries
        /\ \A b \in Agents : b # a => listener'[b] = listener[b] /\ policy'[b] = policy[b]
    BY <1>1 DEF RequestFails, Enter, Recover, TypeOK, RetryTypeOK
  <2>3. Captured' BY <2>2 DEF RetryInv, Captured, TypeOK, TurnTypeOK, RetryTypeOK
  <2>4. DelayRecorded' BY <2>2 DEF RetryInv, DelayRecorded, TypeOK, RetryTypeOK
  <2> QED BY <2>1, <2>3, <2>4 DEF RetryInv
<1>2. ASSUME recovery[a] # "none" PROVE phase[a] = "recover" BY <1>2 DEF RetryInv, Captured
<1>3. CASE UpstreamAnswers(a) \/ PassesBeyond(a) \/ DownstreamAnswers(a) \/ DelayCancelled(a)
  <2>1. /\ recovery[a] # "none" /\ UNCHANGED <<turn, listener, policy, retries>>
        /\ Recover(a, "done") \/ Recover(a, "beyond")
    BY <1>3 DEF UpstreamAnswers, PassesBeyond, DownstreamAnswers, DelayCancelled, Decide
  <2> QED BY <1>2, <2>1, RecoveryGoesOn DEF Recoveries
<1>4. CASE ListenerRuns(a)
  <2>1. recovery[a] # "none" /\ UNCHANGED <<turn, listener, policy>> BY <1>4 DEF ListenerRuns
  <2>2. CASE listener[a] = "live" /\ policy[a].mode = "normal" /\ Schedule(a)
    BY <1>2, <2>1, <2>2, ScheduleKeeps
  <2>3. CASE /\ Recover(a, "settling") /\ UNCHANGED retries
             /\ listener[a] = "live" /\ policy[a].mode = "always"
    BY <1>2, <2>1, <2>3, RecoveryGoesOn DEF Recoveries
  <2>4. CASE (Recover(a, "done") \/ Recover(a, "delegated")) /\ UNCHANGED retries
    BY <1>2, <2>1, <2>4, RecoveryGoesOn DEF Recoveries
  <2> QED BY <1>4, <2>2, <2>3, <2>4 DEF ListenerRuns, Decide
<1>5. CASE DownstreamSettles(a)
  <2>1. recovery[a] = "settling" /\ UNCHANGED <<turn, listener, policy>>
    BY <1>5 DEF DownstreamSettles
  <2>2. listener[a] \in {"live", "stale"} /\ policy[a].mode = "always"
    BY <2>1 DEF RetryInv, Captured
  <2>3. CASE Schedule(a) BY <1>2, <2>1, <2>2, <2>3, ScheduleKeeps
  <2>4. CASE Recover(a, "done") /\ UNCHANGED retries
    BY <1>2, <2>1, <2>4, RecoveryGoesOn DEF Recoveries
  <2> QED BY <1>5, <2>3, <2>4 DEF DownstreamSettles, Decide
<1>6. CASE DelayEnds(a)
  <2>1. /\ recovery[a] = "delay" /\ UNCHANGED <<turn, listener, policy>> /\ Recover(a, "done")
        /\ retries' = [retries EXCEPT ![a] =
                         Append(@, Record("started", policy[a], PreviousRetry(a)))]
    BY <1>6 DEF DelayEnds, Decide
  <2>2. LatestThere' /\ RetriesNumbered' BY <2>1, Started
  <2>3. Captured' BY <1>2, <2>1 DEF RetryInv, Captured, Recover, TypeOK, RetryTypeOK, turn
  <2>4. DelayRecorded' BY <2>1 DEF RetryInv, DelayRecorded, Recover, TypeOK, RetryTypeOK
  <2> QED BY <2>2, <2>3, <2>4 DEF RetryInv
<1> QED BY <1>1, <1>3, <1>4, <1>5, <1>6 DEF Retry

LEMMA LoopKeepsRetries ==
    ASSUME TypeOK, RetryInv, NEW a \in Agents, Loop(a)
    PROVE  RetryInv'
<1> USE DEF TypeOK, TurnTypeOK, RetryTypeOK
<1>1. phase[a] # "recover" => recovery[a] = "none" BY DEF RetryInv, Captured
<1>2. CASE TurnStarts(a) \/ StepEnds(a) \/ Cancel(a)
  <2>1. UNCHANGED <<recovery, listener, policy, retries>>
    BY <1>2 DEF TurnStarts, StepEnds, Cancel, retryVars, recovering
  <2>2. /\ phase'[a] = phase[a] \/ phase[a] # "recover"
        /\ \A b \in Agents : b # a => phase'[b] = phase[b]
    BY <1>2 DEF TurnStarts, StepEnds, Cancel, Enter
  <2>3. LatestThere' /\ RetriesNumbered' BY <2>1, RecordsSame DEF RetryInv
  <2>4. Captured' BY <1>1, <2>1, <2>2 DEF RetryInv, Captured
  <2>5. DelayRecorded' BY <2>1 DEF RetryInv, DelayRecorded
  <2> QED BY <2>3, <2>4, <2>5 DEF RetryInv
<1>3. CASE ResponseArrives(a) \/ RequestAborts(a)
  <2>1. /\ UNCHANGED <<recovery, listener, policy>> /\ recovery[a] = "none"
        /\ retries' = [retries EXCEPT ![a] = <<>>]
        /\ \A b \in Agents : b # a => phase'[b] = phase[b] /\ retries'[b] = retries[b]
    BY <1>1, <1>3 DEF ResponseArrives, RequestAborts, Enter, recovering
  <2>2. LatestThere' /\ RetriesNumbered' BY <2>1, RecordsLeft DEF RetryInv
  <2>3. Captured' BY <2>1 DEF RetryInv, Captured
  <2>4. DelayRecorded' BY <2>1 DEF RetryInv, DelayRecorded
  <2> QED BY <2>2, <2>3, <2>4 DEF RetryInv
<1>4. CASE LoopResumes(a)
  <2>1. /\ recovery'[a] = "none"
        /\ \A b \in Agents : b # a => /\ phase'[b] = phase[b] /\ retries'[b] = retries[b]
                                      /\ recovery'[b] = recovery[b] /\ listener'[b] = listener[b]
                                      /\ policy'[b] = policy[b]
        /\ UNCHANGED retries \/ retries' = [retries EXCEPT ![a] = <<>>]
    BY <1>4 DEF LoopResumes, Recovered, Recover, Enter
  <2>2. LatestThere' /\ RetriesNumbered' BY <2>1, RecordsSame, RecordsLeft DEF RetryInv
  <2>3. Captured' BY <2>1 DEF RetryInv, Captured
  <2>4. DelayRecorded' BY <2>1 DEF RetryInv, DelayRecorded
  <2> QED BY <2>2, <2>3, <2>4 DEF RetryInv
<1> QED BY <1>2, <1>3, <1>4 DEF Loop

\* The plugin's own lifecycle, and everything that leaves the retries alone.
LEMMA PluginKeepsRetries ==
    ASSUME TypeOK, RetryInv, UNCHANGED <<turn, recovery, policy, retries>>,
           \A a \in Agents : listener[a] \in {"live", "stale"} => listener'[a] \in {"live", "stale"}
    PROVE  RetryInv'
<1>1. LatestThere' /\ RetriesNumbered' BY RecordsSame DEF RetryInv
<1>2. Captured' BY DEF RetryInv, Captured, turn
<1>3. DelayRecorded' BY DEF RetryInv, DelayRecorded
<1> QED BY <1>1, <1>2, <1>3 DEF RetryInv

LEMMA RetriesKept == ASSUME TypeOK, RetryInv, [Next]_vars PROVE RetryInv'
<1>1. ASSUME UNCHANGED <<turn, retryVars>> PROVE RetryInv'
  BY <1>1, PluginKeepsRetries DEF retryVars, recovering
<1>2. ASSUME NEW a \in Agents, NEW c \in Calls, Ask(a, c), UNCHANGED retryVars PROVE RetryInv'
  BY <1>1, <1>2 DEF Ask
<1>3. ASSUME NEW a \in Agents, NEW q, Question(a, q), UNCHANGED retryVars PROVE RetryInv'
  BY <1>1, <1>3 DEF Question, Dispatch, Respond, AnswerArrives, LogOutcome
<1>4. ASSUME (\E a \in Agents : SetPolicy(a)) \/ CloseChannel \/ OpenChannel, UNCHANGED retryVars
      PROVE  RetryInv'
  BY <1>1, <1>4 DEF SetPolicy, CloseChannel, OpenChannel
<1>5. ASSUME DisposePlugin \/ PluginDisposed \/ MountPlugin PROVE RetryInv'
  <2>1. UNCHANGED <<turn, recovery, policy, retries>>
    BY <1>5 DEF DisposePlugin, PluginDisposed, MountPlugin, recovering
  <2>2. \A a \in Agents : listener[a] \in {"live", "stale"} => listener'[a] \in {"live", "stale"}
    BY <1>5 DEF DisposePlugin, PluginDisposed, MountPlugin, recovering
  <2> QED BY <2>1, <2>2, PluginKeepsRetries
<1>6. CASE UNCHANGED vars BY <1>1, <1>6 DEF vars
<1> QED BY <1>2, <1>3, <1>4, <1>5, <1>6, LoopKeepsRetries, RetryKeeps DEF Next

(***************************************************************************)
(* The questions.                                                           *)
(***************************************************************************)

LEMMA SetElement ==
    ASSUME NEW S, NEW s \in [Agents -> Seq(S)], NEW a \in Agents, NEW q \in 1..Len(s[a]), NEW e
    PROVE  \A b \in Agents : \A r \in 1..Len(s[b]) :
             [s EXCEPT ![a][q] = e][b][r] = IF b = a /\ r = q THEN e ELSE s[b][r]
<1>1. s[a] \in Seq(S) /\ DOMAIN s[a] = 1..Len(s[a]) BY LenProperties
<1> QED BY <1>1

LEMMA ResolveElement ==
    ASSUME TypeOK, NEW a \in Agents, NEW qs, NEW outcome, Resolve(a, qs, outcome)
    PROVE  \A b \in Agents : \A r \in Questions(b) :
             /\ channel'[b][r] = IF b = a /\ r \in qs THEN "answered" ELSE channel[b][r]
             /\ answer'[b][r] = IF b = a /\ r \in qs THEN outcome ELSE answer[b][r]
<1>1. channel' = [channel EXCEPT ![a] =
                   [q \in Questions(a) |-> IF q \in qs THEN "answered" ELSE channel[a][q]]]
  BY DEF Resolve
<1>2. answer' = [answer EXCEPT ![a] =
                   [q \in Questions(a) |-> IF q \in qs THEN outcome ELSE answer[a][q]]]
  BY DEF Resolve
<1> QED BY <1>1, <1>2 DEF TypeOK, ApprovalTypeOK

\* The types of a question's places.
LEMMA QuestionTyped ==
    ASSUME TypeOK
    PROVE  \A b \in Agents : \A r \in Questions(b) :
             /\ r \in Nat /\ r \in 1..Len(decided[b]) /\ r \in 1..Len(race[b])
             /\ r \in 1..Len(channel[b]) /\ r \in 1..Len(answer[b]) /\ r \in 1..Len(record[b])
             /\ race[b][r] \in Outcomes \cup {"racing"} /\ answer[b][r] \in Outcomes \cup {"none"}
<1> SUFFICES ASSUME NEW b \in Agents, NEW r \in Questions(b)
             PROVE  /\ r \in Nat /\ r \in 1..Len(decided[b]) /\ r \in 1..Len(race[b])
                    /\ r \in 1..Len(channel[b]) /\ r \in 1..Len(answer[b])
                    /\ r \in 1..Len(record[b])
                    /\ race[b][r] \in Outcomes \cup {"racing"}
                    /\ answer[b][r] \in Outcomes \cup {"none"}
  OBVIOUS
<1>1. /\ r \in Nat /\ r \in 1..Len(decided[b]) /\ r \in 1..Len(race[b])
      /\ r \in 1..Len(channel[b]) /\ r \in 1..Len(answer[b]) /\ r \in 1..Len(record[b])
  BY DEF TypeOK, ApprovalTypeOK, Questions
<1>2. race[b] \in Seq(Outcomes \cup {"racing"}) /\ answer[b] \in Seq(Outcomes \cup {"none"})
  BY DEF TypeOK, ApprovalTypeOK
<1> QED BY <1>1, <1>2, ElementOfSeq

LEMMA LogOutcomeKeeps ==
    ASSUME TypeOK, AskInv, NEW a \in Agents, NEW q, LogOutcome(a, q)
    PROVE  AskInv'
<1>1. /\ q \in Questions(a) /\ race[a][q] # "racing"
      /\ UNCHANGED <<turn, policyOf, asked, race, channel, answer, record, channelUp, consent>>
  BY DEF LogOutcome
<1>2. race[a][q] # "none" BY <1>1, QuestionTyped DEF Outcomes
<1>3. \A b \in Agents : \A r \in Questions(b) :
        decided'[b][r] = IF b = a /\ r = q THEN race[a][q] ELSE decided[b][r]
  <2>1. decided' = [decided EXCEPT ![a][q] = race[a][q]] BY DEF LogOutcome
  <2>2. \A b \in Agents : \A r \in 1..Len(decided[b]) :
          decided'[b][r] = IF b = a /\ r = q THEN race[a][q] ELSE decided[b][r]
    BY <1>1, <2>1, QuestionTyped, SetElement DEF TypeOK, ApprovalTypeOK
  <2> QED BY <2>2, QuestionTyped
<1>4. \A b \in Agents : Questions(b)' = Questions(b) BY <1>1 DEF Questions
<1>5. CallsAsk' BY <1>1, <1>2, <1>3, <1>4 DEF AskInv, CallsAsk, turn
<1>6. RacesAgree' BY <1>1, <1>3, <1>4 DEF AskInv, RacesAgree, turn
<1>7. EntriesMatch' BY <1>1, <1>4 DEF AskInv, EntriesMatch, Pending, turn
<1>8. AllowedByClient' BY <1>1, <1>4 DEF AskInv, AllowedByClient
<1> QED BY <1>5, <1>6, <1>7, <1>8 DEF AskInv

LEMMA AnswerArrivesKeeps ==
    ASSUME TypeOK, AskInv, NEW a \in Agents, NEW q, AnswerArrives(a, q)
    PROVE  AskInv'
<1>1. /\ q \in Questions(a) /\ channel[a][q] = "answered"
      /\ UNCHANGED <<turn, policyOf, asked, decided, record, channelUp, consent>>
  BY DEF AnswerArrives
<1>2. /\ channel' = [channel EXCEPT ![a][q] = "none"] /\ answer' = [answer EXCEPT ![a][q] = "none"]
      /\ race' = [race EXCEPT ![a][q] = IF race[a][q] = "racing" THEN answer[a][q] ELSE race[a][q]]
  BY DEF AnswerArrives
<1>3. answer[a][q] \in Outcomes BY <1>1, QuestionTyped DEF AskInv, RacesAgree
<1>4. \A b \in Agents : \A r \in Questions(b) :
        /\ channel'[b][r] = IF b = a /\ r = q THEN "none" ELSE channel[b][r]
        /\ answer'[b][r] = IF b = a /\ r = q THEN "none" ELSE answer[b][r]
        /\ race'[b][r] = IF b = a /\ r = q
                         THEN IF race[a][q] = "racing" THEN answer[a][q] ELSE race[a][q]
                         ELSE race[b][r]
  <2>1. \A b \in Agents : \A r \in 1..Len(channel[b]) :
          channel'[b][r] = IF b = a /\ r = q THEN "none" ELSE channel[b][r]
    BY <1>1, <1>2, QuestionTyped, SetElement DEF TypeOK, ApprovalTypeOK
  <2>2. \A b \in Agents : \A r \in 1..Len(answer[b]) :
          answer'[b][r] = IF b = a /\ r = q THEN "none" ELSE answer[b][r]
    BY <1>1, <1>2, QuestionTyped, SetElement DEF TypeOK, ApprovalTypeOK
  <2>3. \A b \in Agents : \A r \in 1..Len(race[b]) :
          race'[b][r] = IF b = a /\ r = q
                        THEN IF race[a][q] = "racing" THEN answer[a][q] ELSE race[a][q]
                        ELSE race[b][r]
    BY <1>1, <1>2, QuestionTyped, SetElement DEF TypeOK, ApprovalTypeOK
  <2> QED BY <2>1, <2>2, <2>3, QuestionTyped
<1>5. \A b \in Agents : Questions(b)' = Questions(b) BY <1>1 DEF Questions
<1>6. CallsAsk' BY <1>1, <1>5 DEF AskInv, CallsAsk, turn
<1>7. RacesAgree' BY <1>1, <1>3, <1>4, <1>5 DEF AskInv, RacesAgree, turn, Outcomes
<1>8. EntriesMatch' BY <1>1, <1>4, <1>5 DEF AskInv, EntriesMatch, Pending, turn
<1>9. AllowedByClient' BY <1>1, <1>4, <1>5 DEF AskInv, AllowedByClient
<1> QED BY <1>6, <1>7, <1>8, <1>9 DEF AskInv

LEMMA RespondKeeps ==
    ASSUME TypeOK, AskInv, NEW a \in Agents, NEW q, Respond(a, q)
    PROVE  AskInv'
<1>1. /\ q \in Questions(a) /\ channel[a][q] = "pending"
      /\ UNCHANGED <<turn, policyOf, asked, decided, race, record, channelUp>>
  BY DEF Respond, Pending
<1>2. PICK o \in {"allowed-once", "rejected"} :
        /\ Resolve(a, {q}, o)
        /\ consent' = [consent EXCEPT ![a] =
                         IF o = "allowed-once" THEN @ \cup {record[a][q]} ELSE @]
  BY DEF Respond
<1>3. record[a][q] = q BY <1>1 DEF AskInv, EntriesMatch, Pending
<1>4. \A b \in Agents : \A r \in Questions(b) :
        /\ channel'[b][r] = IF b = a /\ r = q THEN "answered" ELSE channel[b][r]
        /\ answer'[b][r] = IF b = a /\ r = q THEN o ELSE answer[b][r]
  BY <1>2, ResolveElement
<1>5. \A b \in Agents : consent[b] \subseteq consent'[b] BY <1>2 DEF TypeOK, ApprovalTypeOK
<1>6. o = "allowed-once" => q \in consent'[a] BY <1>2, <1>3 DEF TypeOK, ApprovalTypeOK
<1>7. \A b \in Agents : Questions(b)' = Questions(b) BY <1>1 DEF Questions
<1>8. CallsAsk' BY <1>1, <1>7 DEF AskInv, CallsAsk, turn
<1>9. RacesAgree' BY <1>1, <1>4, <1>7 DEF AskInv, RacesAgree, turn
<1>10. EntriesMatch' BY <1>1, <1>4, <1>7 DEF AskInv, EntriesMatch, Pending, turn
<1>11. AllowedByClient' BY <1>1, <1>4, <1>5, <1>6, <1>7 DEF AskInv, AllowedByClient
<1> QED BY <1>8, <1>9, <1>10, <1>11 DEF AskInv

LEMMA DispatchKeeps ==
    ASSUME TypeOK, AskInv, NEW a \in Agents, NEW q, Dispatch(a, q)
    PROVE  AskInv'
<1>1. /\ q \in Questions(a) /\ channel[a][q] = "queued"
      /\ UNCHANGED <<turn, policyOf, asked, decided, race, channelUp, consent>>
  BY DEF Dispatch
<1>2. \A b \in Agents : Questions(b)' = Questions(b) BY <1>1 DEF Questions
<1>3. CallsAsk' BY <1>1, <1>2 DEF AskInv, CallsAsk, turn
<1>4. CASE \E o \in {"unavailable", "cancelled"} : Resolve(a, {q}, o) /\ UNCHANGED record
  <2>1. PICK o \in {"unavailable", "cancelled"} : Resolve(a, {q}, o) /\ UNCHANGED record
    BY <1>4
  <2>2. \A b \in Agents : \A r \in Questions(b) :
          /\ channel'[b][r] = IF b = a /\ r = q THEN "answered" ELSE channel[b][r]
          /\ answer'[b][r] = IF b = a /\ r = q THEN o ELSE answer[b][r]
    BY <2>1, ResolveElement
  <2>3. RacesAgree' BY <1>1, <1>2, <2>2 DEF AskInv, RacesAgree, turn
  <2>4. EntriesMatch' BY <1>1, <1>2, <2>1, <2>2 DEF AskInv, EntriesMatch, Pending, turn
  <2>5. AllowedByClient' BY <1>1, <1>2, <2>2 DEF AskInv, AllowedByClient
  <2> QED BY <1>3, <2>3, <2>4, <2>5 DEF AskInv
<1>5. CASE /\ channelUp /\ ~aborted[a] /\ UNCHANGED answer
           /\ channel' = [channel EXCEPT ![a][q] = "pending"]
           /\ record' = [record EXCEPT ![a][q] = q]
  <2>1. \A b \in Agents : \A r \in Questions(b) :
          /\ channel'[b][r] = IF b = a /\ r = q THEN "pending" ELSE channel[b][r]
          /\ record'[b][r] = IF b = a /\ r = q THEN q ELSE record[b][r]
    <3>1. \A b \in Agents : \A r \in 1..Len(channel[b]) :
            channel'[b][r] = IF b = a /\ r = q THEN "pending" ELSE channel[b][r]
      BY <1>1, <1>5, QuestionTyped, SetElement DEF TypeOK, ApprovalTypeOK
    <3>2. \A b \in Agents : \A r \in 1..Len(record[b]) :
            record'[b][r] = IF b = a /\ r = q THEN q ELSE record[b][r]
      BY <1>1, <1>5, QuestionTyped, SetElement DEF TypeOK, ApprovalTypeOK
    <3> QED BY <3>1, <3>2, QuestionTyped
  <2>2. race[a][q] = "racing" BY <1>1, <1>5 DEF AskInv, RacesAgree
  <2>3. RacesAgree' BY <1>1, <1>2, <1>5, <2>1 DEF AskInv, RacesAgree, turn
  <2>4. EntriesMatch' BY <1>1, <1>2, <1>5, <2>1, <2>2 DEF AskInv, EntriesMatch, Pending, turn
  <2>5. AllowedByClient' BY <1>1, <1>2, <1>5 DEF AskInv, AllowedByClient
  <2> QED BY <1>3, <2>3, <2>4, <2>5 DEF AskInv
<1> QED BY <1>4, <1>5, Dispatched

LEMMA AddElement ==
    ASSUME NEW S, NEW s \in [Agents -> Seq(S)], NEW a \in Agents, NEW e \in S
    PROVE  /\ \A b \in Agents : \A r \in 1..Len(s[b]) : [s EXCEPT ![a] = Append(@, e)][b][r] = s[b][r]
           /\ [s EXCEPT ![a] = Append(@, e)][a][Len(s[a]) + 1] = e
<1>1. /\ \A r \in 1..Len(s[a]) : Append(s[a], e)[r] = s[a][r]
      /\ Append(s[a], e)[Len(s[a]) + 1] = e
  BY AppendIs
<1> QED BY <1>1

LEMMA AskKeeps ==
    ASSUME TypeOK, AskInv, NEW a \in Agents, NEW c \in Calls, Ask(a, c)
    PROVE  AskInv'
<1> DEFINE n == Len(asked[a])
<1>1. PICK outcome \in {"cancelled", "rejected", "racing"}, ch \in {"queued", "none"} :
        /\ race' = [race EXCEPT ![a] = Append(@, outcome)]
        /\ channel' = [channel EXCEPT ![a] = Append(@, ch)]
        /\ aborted[a] => outcome # "racing"
        /\ ch = "queued" => outcome = "racing"
  BY DEF Ask
<1>2. /\ asked' = [asked EXCEPT ![a] = Append(@, c)]
      /\ decided' = [decided EXCEPT ![a] = Append(@, "none")]
      /\ answer' = [answer EXCEPT ![a] = Append(@, "none")]
      /\ record' = [record EXCEPT ![a] = Append(@, 0)]
      /\ UNCHANGED <<turn, policyOf, channelUp, consent>> /\ phase[a] = "calls"
      /\ \A q \in Questions(a) : asked[a][q] = c => decided[a][q] # "none"
  BY DEF Ask
<1>3. outcome \in Outcomes \cup {"racing"} /\ ch \in Channels BY DEF Outcomes, Channels
<1>4. /\ n \in Nat /\ n = Len(decided[a]) /\ n = Len(race[a]) /\ n = Len(channel[a])
      /\ n = Len(answer[a]) /\ n = Len(record[a])
  BY DEF TypeOK, ApprovalTypeOK
<1>5. /\ \A b \in Agents : b # a => Questions(b)' = Questions(b)
      /\ Questions(a)' = Questions(a) \cup {n + 1}
      /\ \A q \in Questions(a) : q < n + 1
  <2>1. \A b \in Agents : Len(asked'[b]) = IF b = a THEN n + 1 ELSE Len(asked[b])
    BY <1>2, AddAt DEF TypeOK, ApprovalTypeOK
  <2>2. 1..(n + 1) = 1..n \cup {n + 1} /\ \A q \in 1..n : q < n + 1 BY <1>4
  <2> QED BY <2>1, <2>2 DEF Questions
<1>6. /\ \A b \in Agents : \A r \in Questions(b) : asked'[b][r] = asked[b][r]
      /\ asked'[a][n + 1] = c
  BY <1>2, AddElement DEF TypeOK, ApprovalTypeOK, Questions
<1>7. /\ \A b \in Agents : \A r \in Questions(b) : decided'[b][r] = decided[b][r]
      /\ decided'[a][n + 1] = "none"
  <2>1. decided \in [Agents -> Seq(Outcomes \cup {"none"})] BY DEF TypeOK, ApprovalTypeOK
  <2>2. /\ \A b \in Agents : \A r \in 1..Len(decided[b]) : decided'[b][r] = decided[b][r]
        /\ decided'[a][Len(decided[a]) + 1] = "none"
    BY <1>2, <2>1, AddElement
  <2> QED BY <1>4, <2>2, QuestionTyped
<1>8. /\ \A b \in Agents : \A r \in Questions(b) : race'[b][r] = race[b][r]
      /\ race'[a][n + 1] = outcome
  <2>1. race \in [Agents -> Seq(Outcomes \cup {"racing"})] BY DEF TypeOK, ApprovalTypeOK
  <2>2. /\ \A b \in Agents : \A r \in 1..Len(race[b]) : race'[b][r] = race[b][r]
        /\ race'[a][Len(race[a]) + 1] = outcome
    BY <1>1, <1>3, <2>1, AddElement
  <2> QED BY <1>4, <2>2, QuestionTyped
<1>9. /\ \A b \in Agents : \A r \in Questions(b) : channel'[b][r] = channel[b][r]
      /\ channel'[a][n + 1] = ch
  <2>1. channel \in [Agents -> Seq(Channels)] BY DEF TypeOK, ApprovalTypeOK
  <2>2. /\ \A b \in Agents : \A r \in 1..Len(channel[b]) : channel'[b][r] = channel[b][r]
        /\ channel'[a][Len(channel[a]) + 1] = ch
    BY <1>1, <1>3, <2>1, AddElement
  <2> QED BY <1>4, <2>2, QuestionTyped
<1>10. /\ \A b \in Agents : \A r \in Questions(b) : answer'[b][r] = answer[b][r]
       /\ answer'[a][n + 1] = "none"
  <2>1. answer \in [Agents -> Seq(Outcomes \cup {"none"})] BY DEF TypeOK, ApprovalTypeOK
  <2>2. /\ \A b \in Agents : \A r \in 1..Len(answer[b]) : answer'[b][r] = answer[b][r]
        /\ answer'[a][Len(answer[a]) + 1] = "none"
    BY <1>2, <2>1, AddElement
  <2> QED BY <1>4, <2>2, QuestionTyped
<1>11. \A b \in Agents : \A r \in Questions(b) : record'[b][r] = record[b][r]
  <2>1. record \in [Agents -> Seq(Nat)] BY DEF TypeOK, ApprovalTypeOK
  <2>2. /\ \A b \in Agents : \A r \in 1..Len(record[b]) : record'[b][r] = record[b][r]
        /\ record'[a][Len(record[a]) + 1] = 0
    BY <1>2, <2>1, AddElement
  <2> QED BY <1>4, <2>2, QuestionTyped
<1> HIDE DEF n
<1>12. CallsAsk'
  <2>1. \A b \in Agents : phase'[b] # "calls" => asked'[b] = <<>>
    BY <1>2 DEF AskInv, CallsAsk, turn, TypeOK, ApprovalTypeOK
  <2>2. ASSUME NEW b \in Agents, NEW p \in Questions(b)', NEW q \in Questions(b)', p < q,
               asked'[b][p] = asked'[b][q]
        PROVE  decided'[b][p] # "none"
    <3>1. CASE p \in Questions(b) /\ q \in Questions(b)
      BY <1>6, <1>7, <2>2, <3>1 DEF AskInv, CallsAsk
    <3>2. CASE b = a /\ p \in Questions(a) /\ q = n + 1
      <4>1. asked'[a][p] = asked[a][p] /\ asked'[a][q] = c BY <1>6, <3>2
      <4>2. asked[a][p] = c BY <2>2, <3>2, <4>1
      <4> QED BY <1>2, <1>7, <3>2, <4>2
    <3>3. ~(b = a /\ p = n + 1)
      <4>1. ASSUME b = a, p = n + 1 PROVE FALSE
        <5>1. q \in Nat /\ (q < n + 1 \/ q = n + 1)
          BY <1>4, <1>5, <2>2, <4>1, QuestionTyped
        <5> QED BY <1>4, <2>2, <4>1, <5>1
      <4> QED BY <4>1
    <3> QED BY <1>5, <3>1, <3>2, <3>3
  <2> QED BY <2>1, <2>2 DEF CallsAsk
<1>13. RacesAgree'
  <2> SUFFICES ASSUME NEW b \in Agents, NEW q \in Questions(b)'
               PROVE  /\ decided'[b][q] # "none" =>
                           decided'[b][q] = race'[b][q] /\ race'[b][q] # "racing"
                      /\ aborted'[b] => race'[b][q] # "racing"
                      /\ channel'[b][q] = "queued" => race'[b][q] = "racing" \/ aborted'[b]
                      /\ channel'[b][q] = "answered" => answer'[b][q] # "none"
    BY DEF RacesAgree
  <2>1. CASE q \in Questions(b)
    <3>1. /\ decided[b][q] # "none" => decided[b][q] = race[b][q] /\ race[b][q] # "racing"
          /\ aborted[b] => race[b][q] # "racing"
          /\ channel[b][q] = "queued" => race[b][q] = "racing" \/ aborted[b]
          /\ channel[b][q] = "answered" => answer[b][q] # "none"
      BY <2>1 DEF AskInv, RacesAgree
    <3>2. /\ decided'[b][q] = decided[b][q] /\ race'[b][q] = race[b][q]
          /\ channel'[b][q] = channel[b][q] /\ answer'[b][q] = answer[b][q] /\ aborted' = aborted
      BY <1>2, <1>7, <1>8, <1>9, <1>10, <2>1 DEF turn
    <3> QED BY <3>1, <3>2
  <2>2. CASE b = a /\ q = n + 1 BY <1>1, <1>2, <1>7, <1>8, <1>9, <2>2 DEF turn
  <2> QED BY <1>5, <2>1, <2>2
<1>14. EntriesMatch'
  <2> SUFFICES ASSUME NEW b \in Agents, NEW q \in Questions(b)', channel'[b][q] = "pending"
               PROVE  record'[b][q] = q /\ race'[b][q] = "racing" /\ ~aborted'[b] /\ channelUp'
    BY DEF EntriesMatch, Pending
  <2>1. q \in Questions(b) BY <1>1, <1>5, <1>9
  <2>2. channel[b][q] = "pending" BY <1>9, <2>1
  <2>3. record[b][q] = q /\ race[b][q] = "racing" /\ ~aborted[b] /\ channelUp
    BY <2>1, <2>2 DEF AskInv, EntriesMatch, Pending
  <2>4. record'[b][q] = record[b][q] /\ race'[b][q] = race[b][q] BY <1>8, <1>11, <2>1
  <2> QED BY <1>2, <2>3, <2>4 DEF turn
<1>15. AllowedByClient'
  <2> SUFFICES ASSUME NEW b \in Agents, NEW q \in Questions(b)',
                      answer'[b][q] = "allowed-once" \/ race'[b][q] = "allowed-once"
               PROVE  q \in consent'[b]
    BY DEF AllowedByClient
  <2>1. q \in Questions(b)
    <3>1. ASSUME b = a, q = n + 1 PROVE FALSE BY <1>1, <1>8, <1>10, <3>1
    <3> QED BY <1>5, <3>1
  <2> QED BY <1>2, <1>8, <1>10, <2>1 DEF AskInv, AllowedByClient
<1> QED BY <1>12, <1>13, <1>14, <1>15 DEF AskInv

\* A turn that runs no calls goes on.
LEMMA NoCalls ==
    ASSUME AskInv, NEW a \in Agents, asked[a] = <<>>, UNCHANGED approvalVars,
           \A b \in Agents : b # a => phase'[b] = phase[b] /\ aborted'[b] = aborted[b]
    PROVE  AskInv'
<1>1. /\ Questions(a) = {} /\ \A b \in Agents : Questions(b)' = Questions(b)
      /\ UNCHANGED <<asked, decided, race, channel, answer, record, channelUp, consent>>
  BY EmptySeq DEF Questions, approvalVars
<1>2. CallsAsk' BY <1>1 DEF AskInv, CallsAsk
<1>3. RacesAgree' BY <1>1 DEF AskInv, RacesAgree
<1>4. EntriesMatch' BY <1>1 DEF AskInv, EntriesMatch, Pending
<1>5. AllowedByClient' BY <1>1 DEF AskInv, AllowedByClient
<1> QED BY <1>2, <1>3, <1>4, <1>5 DEF AskInv

LEMMA CancelKeeps ==
    ASSUME TypeOK, AskInv, NEW a \in Agents, Cancel(a)
    PROVE  AskInv'
<1>1. /\ UNCHANGED <<phase, asked, decided, record, channelUp, consent>>
      /\ aborted' = [aborted EXCEPT ![a] = TRUE]
      /\ \A b \in Agents : Questions(b)' = Questions(b)
  BY DEF Cancel, Questions
<1>2. \A b \in Agents : \A r \in Questions(b) :
        /\ channel'[b][r] = IF b = a /\ Pending(b, r) THEN "answered" ELSE channel[b][r]
        /\ answer'[b][r] = IF b = a /\ Pending(b, r) THEN "cancelled" ELSE answer[b][r]
  <2>1. Resolve(a, {q \in Questions(a) : Pending(a, q)}, "cancelled") BY DEF Cancel, OnAbort
  <2> QED BY <2>1, ResolveElement
<1>3. \A b \in Agents : \A r \in Questions(b) :
        race'[b][r] = IF b = a /\ race[b][r] = "racing" THEN "cancelled" ELSE race[b][r]
  BY DEF Cancel, OnAbort, TypeOK, ApprovalTypeOK
<1>4. \A b \in Agents : aborted'[b] = (b = a \/ aborted[b]) BY <1>1 DEF TypeOK, TurnTypeOK
<1>5. CallsAsk' BY <1>1 DEF AskInv, CallsAsk
<1>6. RacesAgree'
  <2> SUFFICES ASSUME NEW b \in Agents, NEW q \in Questions(b)
               PROVE  /\ decided'[b][q] # "none" =>
                           decided'[b][q] = race'[b][q] /\ race'[b][q] # "racing"
                      /\ aborted'[b] => race'[b][q] # "racing"
                      /\ channel'[b][q] = "queued" => race'[b][q] = "racing" \/ aborted'[b]
                      /\ channel'[b][q] = "answered" => answer'[b][q] # "none"
    BY <1>1 DEF RacesAgree
  <2>1. /\ decided[b][q] # "none" => decided[b][q] = race[b][q] /\ race[b][q] # "racing"
        /\ aborted[b] => race[b][q] # "racing"
        /\ channel[b][q] = "queued" => race[b][q] = "racing" \/ aborted[b]
        /\ channel[b][q] = "answered" => answer[b][q] # "none"
    BY DEF AskInv, RacesAgree
  <2>2. CASE b = a BY <1>1, <1>2, <1>3, <1>4, <2>1, <2>2
  <2>3. CASE b # a BY <1>1, <1>2, <1>3, <1>4, <2>1, <2>3
  <2> QED BY <2>2, <2>3
<1>7. EntriesMatch' BY <1>1, <1>2, <1>3, <1>4 DEF AskInv, EntriesMatch, Pending
<1>8. AllowedByClient' BY <1>1, <1>2, <1>3 DEF AskInv, AllowedByClient
<1> QED BY <1>5, <1>6, <1>7, <1>8 DEF AskInv

LEMMA StepEndsKeeps ==
    ASSUME TypeOK, AskInv, NEW a \in Agents, StepEnds(a)
    PROVE  AskInv'
<1>1. /\ asked'[a] = <<>> /\ UNCHANGED <<aborted, channelUp>>
      /\ \A b \in Agents : b # a =>
           /\ phase'[b] = phase[b] /\ asked'[b] = asked[b] /\ decided'[b] = decided[b]
           /\ race'[b] = race[b] /\ channel'[b] = channel[b] /\ answer'[b] = answer[b]
           /\ record'[b] = record[b] /\ consent'[b] = consent[b]
  BY DEF StepEnds, Enter, ForgetQuestions, TypeOK, TurnTypeOK, ApprovalTypeOK
<1>2. /\ Questions(a)' = {} /\ \A b \in Agents : b # a => Questions(b)' = Questions(b)
  BY <1>1, EmptySeq DEF Questions
<1>3. CallsAsk' BY <1>1, <1>2 DEF AskInv, CallsAsk
<1>4. RacesAgree' BY <1>1, <1>2 DEF AskInv, RacesAgree
<1>5. EntriesMatch' BY <1>1, <1>2 DEF AskInv, EntriesMatch, Pending
<1>6. AllowedByClient' BY <1>1, <1>2 DEF AskInv, AllowedByClient
<1> QED BY <1>3, <1>4, <1>5, <1>6 DEF AskInv

LEMMA CloseChannelKeeps ==
    ASSUME TypeOK, AskInv, CloseChannel
    PROVE  AskInv'
<1>1. /\ UNCHANGED <<turn, asked, decided, race, record, consent>> /\ channelUp' = FALSE
      /\ \A b \in Agents : Questions(b)' = Questions(b)
  BY DEF CloseChannel, Questions
<1>2. \A b \in Agents : \A r \in Questions(b) :
        /\ channel'[b][r] = IF Pending(b, r) THEN "answered" ELSE channel[b][r]
        /\ answer'[b][r] = IF Pending(b, r) THEN "cancelled" ELSE answer[b][r]
  BY DEF CloseChannel
<1>3. CallsAsk' BY <1>1 DEF AskInv, CallsAsk, turn
<1>4. RacesAgree' BY <1>1, <1>2 DEF AskInv, RacesAgree, turn
<1>5. EntriesMatch' BY <1>1, <1>2 DEF AskInv, EntriesMatch, Pending, turn
<1>6. AllowedByClient' BY <1>1, <1>2 DEF AskInv, AllowedByClient
<1> QED BY <1>3, <1>4, <1>5, <1>6 DEF AskInv

LEMMA QuestionsKept == ASSUME IInv, [Next]_vars PROVE AskInv'
<1> USE DEF IInv
<1>1. ASSUME UNCHANGED <<turn, approvalVars>> PROVE AskInv'
  <2>1. UNCHANGED <<asked, decided, race, channel, answer, record, channelUp, consent>>
    BY <1>1 DEF approvalVars
  <2>2. CallsAsk' /\ RacesAgree' BY <1>1, <2>1 DEF AskInv, CallsAsk, RacesAgree, Questions, turn
  <2>3. EntriesMatch' BY <1>1, <2>1 DEF AskInv, EntriesMatch, Pending, Questions, turn
  <2>4. AllowedByClient' BY <2>1 DEF AskInv, AllowedByClient, Questions
  <2> QED BY <2>2, <2>3, <2>4 DEF AskInv
<1>2. ASSUME NEW a \in Agents, Loop(a) PROVE AskInv'
  <2>1. CASE TurnStarts(a) \/ ResponseArrives(a) \/ RequestAborts(a) \/ LoopResumes(a)
    <3>1. phase[a] # "calls"
      BY <2>1 DEF TurnStarts, ResponseArrives, RequestAborts, LoopResumes, RetryInv, Captured
    <3>2. UNCHANGED approvalVars
      BY <2>1 DEF TurnStarts, ResponseArrives, RequestAborts, LoopResumes
    <3>3. \A b \in Agents : b # a => phase'[b] = phase[b] /\ aborted'[b] = aborted[b]
      BY <2>1 DEF TurnStarts, ResponseArrives, RequestAborts, LoopResumes, Enter, TypeOK, TurnTypeOK
    <3> QED BY <3>1, <3>2, <3>3, NoCalls DEF AskInv, CallsAsk
  <2> QED BY <1>2, <2>1, StepEndsKeeps, CancelKeeps DEF Loop
<1>3. ASSUME NEW a \in Agents, Retry(a), UNCHANGED approvalVars PROVE AskInv'
  <2>1. CASE RequestFails(a)
    <3>1. /\ phase[a] # "calls"
          /\ \A b \in Agents : b # a => phase'[b] = phase[b] /\ aborted'[b] = aborted[b]
      BY <2>1 DEF RequestFails, Enter, TypeOK, TurnTypeOK
    <3> QED BY <1>3, <3>1, NoCalls DEF AskInv, CallsAsk
  <2>2. CASE ~RequestFails(a)
    <3>1. UNCHANGED turn
      BY <1>3, <2>2 DEF Retry, UpstreamAnswers, PassesBeyond, ListenerRuns, DownstreamAnswers,
                        DownstreamSettles, DelayEnds, DelayCancelled
    <3> QED BY <1>1, <1>3, <3>1
  <2> QED BY <2>1, <2>2
<1>4. ASSUME DisposePlugin \/ PluginDisposed \/ MountPlugin, UNCHANGED approvalVars PROVE AskInv'
  BY <1>1, <1>4 DEF DisposePlugin, PluginDisposed, MountPlugin
<1>5. ASSUME NEW a \in Agents, NEW q, Question(a, q) PROVE AskInv'
  BY <1>5, DispatchKeeps, RespondKeeps, AnswerArrivesKeeps, LogOutcomeKeeps DEF Question
<1>6. ASSUME (\E a \in Agents : SetPolicy(a)) \/ OpenChannel PROVE AskInv'
  <2>1. UNCHANGED <<turn, asked, decided, race, channel, answer, record, consent>>
    BY <1>6 DEF SetPolicy, OpenChannel
  <2>2. channelUp => channelUp' BY <1>6 DEF SetPolicy, OpenChannel
  <2>3. CallsAsk' /\ RacesAgree' BY <2>1 DEF AskInv, CallsAsk, RacesAgree, Questions, turn
  <2>4. EntriesMatch' BY <2>1, <2>2 DEF AskInv, EntriesMatch, Pending, Questions, turn
  <2>5. AllowedByClient' BY <2>1 DEF AskInv, AllowedByClient, Questions
  <2> QED BY <2>3, <2>4, <2>5 DEF AskInv
<1>7. CASE UNCHANGED vars BY <1>1, <1>7 DEF vars
<1> QED BY <1>2, <1>3, <1>4, <1>5, <1>6, <1>7, AskKeeps, CloseChannelKeeps DEF Next

(***************************************************************************)
(* The theorems.                                                            *)
(***************************************************************************)

LEMMA InitHolds == Init => IInv
<1> SUFFICES ASSUME Init PROVE IInv OBVIOUS
<1> USE DEF Init, TurnInit, RetryInit, ApprovalInit, NoQuestions
<1>1. \A S : <<>> \in Seq(S) /\ Len(<<>>) = 0 BY EmptySeq
<1>2. \A a \in Agents : Questions(a) = {} BY <1>1 DEF Questions
<1>3. \A a \in Agents : \A p : RetriesOf(a, p) = {} BY <1>1 DEF RetriesOf
<1>4. TypeOK
  <2>1. TurnTypeOK BY DEF TurnTypeOK, Phases
  <2>2. RetryTypeOK BY <1>1 DEF RetryTypeOK, Recoveries, Failures
  <2>3. ApprovalTypeOK BY <1>1, <1>2, MaxAsksAssumption DEF ApprovalTypeOK
  <2> QED BY <2>1, <2>2, <2>3 DEF TypeOK
<1>5. RetryInv
  BY <1>1, <1>3 DEF RetryInv, Captured, DelayRecorded, LatestThere, RetriesNumbered
<1>6. AskInv BY <1>2 DEF AskInv, CallsAsk, RacesAgree, EntriesMatch, AllowedByClient
<1> QED BY <1>4, <1>5, <1>6 DEF IInv

\* The invariant holds of every reachable state: the types, how the recovery,
\* the loop and the channel's entries stand to each other.
THEOREM Inductive == Spec => []IInv
<1>1. IInv /\ [Next]_vars => IInv' BY TypesKept, RetriesKept, QuestionsKept DEF IInv
<1> QED BY <1>1, InitHolds, PTL DEF Spec

\* Every variable has its type, for any agents, calls and policies.
THEOREM TypeCorrect == Spec => []TypeOK
<1>1. IInv => TypeOK BY DEF IInv
<1> QED BY <1>1, Inductive, PTL

\* A policy's retries are numbered without a gap and within its bound,
\* whichever plugin instance counts them (recover, backoff).
THEOREM RetriesInOrder == Spec => []RetriesNumbered
<1>1. IInv => RetriesNumbered BY DEF IInv, RetryInv
<1> QED BY <1>1, Inductive, PTL

\* What the channel shows can still be answered and carries its own record
\* (the host's approval registry).
THEOREM EntriesPaired == Spec => []EntriesMatch
<1>1. IInv => EntriesMatch BY DEF IInv, AskInv
<1> QED BY <1>1, Inductive, PTL

LEMMA ScheduleIsLive ==
    ASSUME TypeOK, NEW a \in Agents, Schedule(a), listener[a] \in {"live", "stale"},
           NEW b \in Agents, Len(retries'[b]) > Len(retries[b])
    PROVE  ~aborted[b] /\ listener[b] = "live"
<1>1. Len(retries[b]) \in Nat BY DEF TypeOK, RetryTypeOK
<1>2. ~UNCHANGED retries BY <1>1
<1>3. /\ ~Cancelled(a)
      /\ retries' = [retries EXCEPT ![a] =
                       Append(@, Record("retry", policy[a], PreviousRetry(a) + 1))]
  BY <1>2 DEF Schedule
<1>4. b = a BY <1>1, <1>3 DEF TypeOK, RetryTypeOK
<1> QED BY <1>3, <1>4 DEF Cancelled

LEMMA RecordIsLive ==
    ASSUME IInv, Next, NEW b \in Agents, Len(retries'[b]) > Len(retries[b])
    PROVE  ~aborted[b] /\ listener[b] = "live"
<1> USE DEF IInv
<1>1. Len(retries[b]) \in Nat BY DEF TypeOK, RetryTypeOK
<1>2. ~UNCHANGED retries /\ ~UNCHANGED retryVars BY <1>1 DEF retryVars
<1>3. ASSUME NEW a \in Agents, retries' = [retries EXCEPT ![a] = <<>>] PROVE FALSE
  <2>1. retries'[b] = <<>> \/ retries'[b] = retries[b] BY <1>3 DEF TypeOK, RetryTypeOK
  <2> QED BY <1>1, <2>1, EmptySeq
<1>4. ASSUME NEW a \in Agents, Loop(a) PROVE FALSE
  BY <1>2, <1>3, <1>4 DEF Loop, TurnStarts, ResponseArrives, RequestAborts, LoopResumes, StepEnds,
                          Cancel
<1>5. ASSUME NEW a \in Agents, Retry(a) PROVE ~aborted[b] /\ listener[b] = "live"
  <2>1. CASE DelayEnds(a)
    <3>1. b = a BY <1>1, <2>1 DEF DelayEnds, TypeOK, RetryTypeOK
    <3>2. listener[a] \in {"live", "stale"} BY <2>1 DEF DelayEnds, RetryInv, Captured
    <3> QED BY <2>1, <3>1, <3>2 DEF DelayEnds, Cancelled
  <2>2. CASE ~DelayEnds(a)
    <3>1. Schedule(a) /\ listener[a] \in {"live", "stale"}
      BY <1>2, <1>5, <2>2 DEF Retry, RequestFails, UpstreamAnswers, PassesBeyond, ListenerRuns,
                              DownstreamAnswers, DownstreamSettles, DelayCancelled, RetryInv, Captured
    <3> QED BY <3>1, ScheduleIsLive
  <2> QED BY <2>1, <2>2
<1>6. ~(DisposePlugin \/ PluginDisposed \/ MountPlugin)
  BY <1>2 DEF DisposePlugin, PluginDisposed, MountPlugin
<1> QED BY <1>2, <1>4, <1>5, <1>6 DEF Next

LEMMA NoRequestAfterCancel ==
    ASSUME IInv, Next, NEW b \in Agents, aborted[b], phase[b] = "recover"
    PROVE  phase'[b] # "request"
<1> USE DEF IInv, TypeOK, TurnTypeOK
<1>1. ASSUME NEW a \in Agents, Loop(a) PROVE phase'[b] # "request"
  BY <1>1 DEF Loop, TurnStarts, ResponseArrives, RequestAborts, LoopResumes, StepEnds, Cancel, Enter
<1>2. ASSUME NEW a \in Agents, Retry(a) PROVE phase'[b] # "request"
  BY <1>2 DEF Retry, RequestFails, UpstreamAnswers, PassesBeyond, ListenerRuns, DownstreamAnswers,
              DownstreamSettles, DelayEnds, DelayCancelled, Enter, turn
<1>3. ASSUME UNCHANGED turn PROVE phase'[b] # "request" BY <1>3 DEF turn
<1> QED
  BY <1>1, <1>2, <1>3 DEF Next, DisposePlugin, PluginDisposed, MountPlugin, Ask, Question, Dispatch,
       Respond, AnswerArrives, LogOutcome, SetPolicy, CloseChannel, OpenChannel

\* No recovery of a cancelled turn or of a disposed plugin logs a retry, and a
\* cancelled turn never requests again (recover, backoff, step).
THEOREM QuietKept == Spec => QuietAfterEnd
<1>1. IInv /\ [Next]_vars =>
        [\A a \in Agents :
           /\ Len(retries'[a]) > Len(retries[a]) => ~aborted[a] /\ listener[a] = "live"
           /\ aborted[a] => ~(phase[a] = "recover" /\ phase'[a] = "request")]_vars
  BY RecordIsLive, NoRequestAfterCancel
<1> QED BY <1>1, Inductive, PTL DEF Spec, QuietAfterEnd

LEMMA NothingAllowedAfterCancel ==
    ASSUME IInv, Next, NEW b \in Agents, aborted[b], NEW r \in Questions(b) \cap DOMAIN race'[b],
           race'[b][r] = "allowed-once"
    PROVE  race[b][r] = "allowed-once"
<1> USE DEF IInv
<1>1. ASSUME UNCHANGED race PROVE race[b][r] = "allowed-once" BY <1>1
<1>2. ASSUME NEW a \in Agents, NEW c \in Calls, Ask(a, c) PROVE race[b][r] = "allowed-once"
  <2>1. PICK outcome \in {"cancelled", "rejected", "racing"} :
          race' = [race EXCEPT ![a] = Append(@, outcome)]
    BY <1>2 DEF Ask
  <2>2. outcome \in Outcomes \cup {"racing"} BY DEF Outcomes
  <2>3. \A q \in 1..Len(race[b]) : race'[b][q] = race[b][q]
    BY <2>1, <2>2, AddElement DEF TypeOK, ApprovalTypeOK
  <2> QED BY <2>3, QuestionTyped
<1>3. ASSUME NEW a \in Agents, StepEnds(a) PROVE race[b][r] = "allowed-once"
  <2>1. race'[b] = IF b = a THEN <<>> ELSE race[b]
    BY <1>3 DEF StepEnds, ForgetQuestions, TypeOK, ApprovalTypeOK
  <2>2. DOMAIN <<>> = {} OBVIOUS
  <2> QED BY <2>1, <2>2
<1>4. ASSUME NEW a \in Agents, Cancel(a) PROVE race[b][r] = "allowed-once"
  <2>1. b # a BY <1>4 DEF Cancel
  <2>2. race'[b] = race[b] BY <1>4, <2>1 DEF Cancel, OnAbort, TypeOK, ApprovalTypeOK
  <2> QED BY <2>2
<1>5. ASSUME NEW a \in Agents, NEW q, AnswerArrives(a, q) PROVE race[b][r] = "allowed-once"
  <2>1. /\ q \in Questions(a)
        /\ race' = [race EXCEPT ![a][q] = IF race[a][q] = "racing" THEN answer[a][q] ELSE race[a][q]]
    BY <1>5 DEF AnswerArrives
  <2>2. \A s \in 1..Len(race[b]) : race'[b][s] =
          IF b = a /\ s = q THEN IF race[a][q] = "racing" THEN answer[a][q] ELSE race[a][q]
          ELSE race[b][s]
    BY <2>1, QuestionTyped, SetElement DEF TypeOK, ApprovalTypeOK
  <2>3. race[b][r] # "racing" /\ r \in 1..Len(race[b])
    BY QuestionTyped DEF AskInv, RacesAgree
  <2> QED BY <2>2, <2>3
<1>6. ASSUME NEW a \in Agents, Loop(a) PROVE race[b][r] = "allowed-once"
  BY <1>1, <1>3, <1>4, <1>6 DEF Loop, TurnStarts, ResponseArrives, RequestAborts, LoopResumes,
                                approvalVars
<1>7. ASSUME NEW a \in Agents, NEW q, Question(a, q) PROVE race[b][r] = "allowed-once"
  BY <1>1, <1>5, <1>7 DEF Question, Dispatch, Respond, LogOutcome
<1>8. ASSUME UNCHANGED approvalVars PROVE race[b][r] = "allowed-once"
  BY <1>1, <1>8 DEF approvalVars
<1>9. ASSUME (\E a \in Agents : SetPolicy(a)) \/ CloseChannel \/ OpenChannel
      PROVE  race[b][r] = "allowed-once"
  BY <1>1, <1>9 DEF SetPolicy, CloseChannel, OpenChannel
<1> QED BY <1>2, <1>6, <1>7, <1>8, <1>9 DEF Next

LEMMA DecidedInCalls ==
    ASSUME IInv, Next, NEW b \in Agents, decided'[b] # decided[b]
    PROVE  phase[b] = "calls"
<1> USE DEF IInv
<1>1. ASSUME UNCHANGED decided PROVE FALSE BY <1>1
<1>2. ASSUME NEW a \in Agents, NEW c \in Calls, Ask(a, c) PROVE phase[b] = "calls"
  BY <1>2 DEF Ask, TypeOK, ApprovalTypeOK
<1>3. ASSUME NEW a \in Agents, StepEnds(a) PROVE phase[b] = "calls"
  BY <1>3 DEF StepEnds, ForgetQuestions, TypeOK, ApprovalTypeOK
<1>4. ASSUME NEW a \in Agents, NEW q, LogOutcome(a, q) PROVE phase[b] = "calls"
  <2>1. b = a /\ q \in Questions(a) BY <1>4 DEF LogOutcome, TypeOK, ApprovalTypeOK
  <2>2. asked[a] # <<>> BY <2>1, EmptySeq DEF Questions
  <2> QED BY <2>1, <2>2 DEF AskInv, CallsAsk
<1>5. ASSUME NEW a \in Agents, Loop(a) PROVE phase[b] = "calls"
  BY <1>1, <1>3, <1>5 DEF Loop, TurnStarts, ResponseArrives, RequestAborts, LoopResumes, Cancel,
                          approvalVars
<1>6. ASSUME NEW a \in Agents, NEW q, Question(a, q) PROVE phase[b] = "calls"
  BY <1>1, <1>4, <1>6 DEF Question, Dispatch, Respond, AnswerArrives
<1>7. ASSUME UNCHANGED approvalVars PROVE FALSE BY <1>1, <1>7 DEF approvalVars
<1>8. ASSUME (\E a \in Agents : SetPolicy(a)) \/ CloseChannel \/ OpenChannel PROVE FALSE
  BY <1>1, <1>8 DEF SetPolicy, CloseChannel, OpenChannel
<1> QED BY <1>2, <1>5, <1>6, <1>7, <1>8 DEF Next

\* An answer counts for its own call, in the step that asked, and nothing is
\* allowed behind a cancel (request, decide, the host's approval registry).
THEOREM AnswersKept == Spec => AnswersInPlace
<1>1. IInv => \A a \in Agents : \A q \in Questions(a) :
                 decided[a][q] = "allowed-once" => q \in consent[a]
  BY DEF IInv, AskInv, RacesAgree, AllowedByClient
<1>2. IInv /\ [Next]_vars =>
        [\A a \in Agents : aborted[a] => \A q \in Questions(a) \cap DOMAIN race'[a] :
           race'[a][q] = "allowed-once" => race[a][q] = "allowed-once"]_vars
  BY NothingAllowedAfterCancel
<1>3. IInv /\ [Next]_vars =>
        [\A a \in Agents : decided'[a] # decided[a] => phase[a] = "calls"]_vars
  BY DecidedInCalls
<1> QED
  BY <1>1, <1>2, <1>3, Inductive, EntriesPaired, PTL
  DEF Spec, AnswersInPlace, ConsentOnly, AuditInStep

=============================================================================
