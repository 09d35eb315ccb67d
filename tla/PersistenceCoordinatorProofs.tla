---------------------- MODULE PersistenceCoordinatorProofs ----------------------
(***************************************************************************)
(* Proofs about PersistenceCoordinator, for every finite set of callers,    *)
(* every set of calls they may make and every bound on events and troubles. *)
(***************************************************************************)
EXTENDS PersistenceCoordinator, SequenceTheorems, FiniteSetTheorems, TLAPS

(***************************************************************************)
(* Vocabulary.                                                              *)
(***************************************************************************)

\* A caller that reserves, from its commit on; one whose commit was made.
Claiming == {"committing", "refused", "invalid", "committed", "aborted", "holding"}
Keeping == {"committed", "aborted", "holding"}

\* Stages of a caller that was given a source.
Sourced == {"loaded", "parked", "checking", "current", "stale"} \cup Claiming

Claims(c) == caller[c].stage \in Claiming
Keeps(c) == caller[c].stage \in Keeping

Kinds == {"load", "commit", "check", "append", "write", "suffix", "forget"}
ByCaller == {"commit", "check", "append"}
BySession == {"write", "suffix", "forget"}

Places == 1..Len(chain)
Pending(i) == chain[i].kind \in ByCaller /\ chain[i].step # "dropped"
Commits(i) == chain[i].kind = "commit" /\ chain[i].step # "dropped"

\* Where a caller stands whose operation is pending.
Awaited(kind) ==
    IF kind = "commit" THEN "committing" ELSE IF kind = "check" THEN "checking" ELSE "appending"

Sources == [no : Nat, rev : Nat, open : BOOLEAN]
Logs == [len : Nat, open : BOOLEAN]
Records == [stage : Stages, call : {"none", "prepare", "load", "inspect", "append"},
            no : Nat, src : Sources, from : Nat, missed : Nat, ahead : Nat]
Entries == [no : Nat, phase : Phases, src : Sources]
States == [known : BOOLEAN, cursor : Nat, owner : Nat]
Sessions == [no : Nat, phase : {"none", "live", "retiring", "stuck"}, len : Nat,
             open : BOOLEAN, written : Nat, init : {"ready", "running", "failed"}]
Spendings == [events : Nat, foreign : Nat, evictions : Nat, failures : Nat]
Ops == [kind : Kinds, by : Nat \cup Callers, src : Sources, to : Logs,
        step : {"queued", "dropped", "adopted", "stale", "repair", "writing"}]

(***************************************************************************)
(* The inductive invariant, by parts.                                       *)
(***************************************************************************)

Typed ==
    /\ stored \in Logs /\ stored.len > 0
    /\ entry \in Entries /\ chain \in Seq(Ops) /\ state \in States
    /\ session \in Sessions /\ caller \in [Callers -> Records]
    /\ spent \in Spendings /\ slipped \in BOOLEAN
    /\ entry.phase = "none" <=> entry.no = None
    /\ entry.no = None => entry = NoEntry

\* An operation of each kind, and how far it may be.  Only the head runs.
OpFits(op) ==
    /\ op.kind = "load" => op.by \in Nat \ {None} /\ op.step = "queued"
    /\ op.kind \in ByCaller => op.by \in Callers
    /\ op.kind = "commit" => op.step \in {"queued", "dropped", "repair"}
    /\ op.kind = "check" => op.step \in {"queued", "dropped"}
    /\ op.kind = "append" => op.step # "dropped"
    /\ op.kind \in {"write", "suffix"} => op.step \in {"queued", "writing"}
    /\ op.kind = "forget" => op.step = "queued"
OpsFit ==
    /\ \A i \in Places : OpFits(chain[i])
    /\ \A i \in Places : i > 1 => chain[i].step \in {"queued", "dropped"}

\* What a caller does where it stands.
Fit(r) ==
    /\ r.stage = "appending" <=> r.call = "append"
    /\ r.stage \in {"checking", "current", "stale"} => r.call = "inspect"
    /\ r.stage \in {"again", "waiting", "loading", "loaded", "parked"} =>
            r.call \in {"prepare", "load", "inspect"}
    /\ r.stage \in Claiming \cup {"flushing"} => r.call \in {"prepare", "load"}
    /\ r.stage \in Sourced \cup {"loading"} => r.no # None

\* A source that is as long as the log shows its end.
Fits(s) == s.rev <= stored.len /\ (s.rev = stored.len => s.open = stored.open)
Fitting(r) == r.stage # "flushing" => Fits(r.src)

\* Whoever was given the source of the entry still has it.
Shared(r) ==
    r.stage \in Sourced /\ r.no = entry.no => entry.phase # "loading" /\ r.src = entry.src

\* What was accepted before a call is in the log or in the session, and where
\* it is when the call has found its source.
Informed(r) ==
    /\ r.from <= stored.len \/ (session.no # None /\ r.from <= session.len)
    /\ r.call = "inspect" =>
            \/ r.from <= stored.len
            \/ /\ r.stage = "waiting" /\ session.no = r.no
               /\ session.phase \in {"retiring", "stuck"}
    /\ spent.foreign = 0 /\ Live /\ r.call # "append" => r.from <= session.len
    /\ r.stage \in Keeping \cup {"current"} => r.from <= Length(r.src)
    /\ r.stage = "flushing" =>
            /\ \/ r.src.rev <= stored.len
               \/ session.no # None /\ session.no = r.no /\ r.src.rev <= session.len
            /\ spent.foreign = 0 => r.from <= r.src.rev

\* ViewsMatchTheLog, for one call.
Honest(r) == /\ r.missed > 0 => r.stage = "borrowed" /\ spent.foreign > 0
             /\ r.ahead = 0

CallersFine ==
    \A c \in Callers : /\ Fit(caller[c]) /\ Fitting(caller[c]) /\ Shared(caller[c])
                       /\ Informed(caller[c]) /\ Honest(caller[c])

\* The sources of the entry and of the operations fit the log too.
SourcesFit == Fits(entry.src) /\ \A i \in Places : Fits(chain[i].src)

\* A pending operation is awaited by its caller, who has no other one.
Answered ==
    /\ \A i \in Places : Pending(i) =>
            /\ caller[chain[i].by].stage = Awaited(chain[i].kind)
            /\ chain[i].kind = "commit" => caller[chain[i].by].src = chain[i].src
    /\ \A i, j \in Places : Pending(i) /\ Pending(j) /\ chain[i].by = chain[j].by => i = j

\* A number is claimed by one caller, and the entry's phase is his.
OneClaim ==
    /\ \A c, d \in Callers : Claims(c) /\ Claims(d) /\ caller[c].no = caller[d].no => c = d
    /\ \A c \in Callers : Claims(c) /\ caller[c].no = entry.no =>
            entry.phase = IF caller[c].stage = "holding" THEN "reserved" ELSE "committing"
    /\ \A c \in Callers : caller[c].stage = "holding" => entry.no = caller[c].no

\* A read of the entry comes before its phase, and behind every commit of an
\* earlier entry.
ReadsQueued ==
    /\ \A i \in Places : chain[i].kind = "load" /\ chain[i].by = entry.no =>
            entry.phase = "loading"
    /\ \A i, j \in Places :
            chain[i].kind = "load" /\ chain[j].kind = "load" /\ chain[i].by = chain[j].by => i = j
    /\ entry.phase = "loading" =>
            \E l \in Places : /\ chain[l].kind = "load" /\ chain[l].by = entry.no
                              /\ \A i \in Places : Commits(i) => i < l
    /\ entry.phase \notin {"none", "loading"} =>
            \A i \in Places : Commits(i) => caller[chain[i].by].no = entry.no

\* What the operation at the head may count on while it is under way.
Running(step) == Len(chain) > 0 /\ chain[1].step = step
Adopting == Len(chain) > 0 /\ chain[1].kind = "append"
            /\ chain[1].step \in {"adopted", "stale", "repair"}
HeadHolds ==
    /\ Adopting => entry.phase \in {"none", "loading"} /\ ~state.known
    /\ Running("writing") =>
            /\ \A c \in Callers : Keeps(c) => caller[c].no # entry.no
            /\ chain[1].kind # "append" => chain[1].to.len > state.cursor
    /\ Running("repair") /\ chain[1].kind = "commit" /\ spent.foreign = 0 =>
            chain[1].src.open /\ chain[1].src.rev = stored.len

\* The session owns the state, and has one operation on the chain at most.
Owns ==
    /\ session.phase = "none" <=> session.no = None
    /\ state.owner = session.no /\ (state.owner # None => state.known)
    /\ \A i, j \in Places : chain[i].kind \in BySession /\ chain[j].kind \in BySession => i = j
    /\ \A i \in Places :
        /\ chain[i].kind \in BySession => session.no # None
        /\ chain[i].kind = "suffix" => session.init = "running"
        /\ chain[i].kind \in {"write", "forget"} => session.init = "ready"
        /\ chain[i].kind = "forget" =>
                session.phase = "retiring" /\ session.written = session.len
        /\ chain[i].kind \in {"write", "suffix"} => chain[i].to.len > session.written

\* How far the cursor and the session's writes are.
Counts ==
    /\ state.known => state.cursor <= stored.len
    /\ session.no # None => session.written <= state.cursor
    /\ session.no # None /\ ~slipped => session.written = state.cursor

\* Who reserved the entry found it as it is stored, and no source of an entry
\* shows less than what is stored, but for what another process wrote.
EntryCurrent ==
    /\ \A c \in Callers : Keeps(c) /\ caller[c].no = entry.no =>
            /\ state = Committed(caller[c].src)
            /\ spent.foreign = 0 => stored.len = state.cursor /\ ~stored.open
    /\ spent.foreign = 0 /\ entry.phase \notin {"none", "loading"} =>
            stored.len <= Length(entry.src)

IInv ==
    /\ Typed /\ OpsFit /\ CallersFine /\ SourcesFit /\ Answered /\ OneClaim
    /\ ReadsQueued /\ HeadHolds /\ Owns /\ Counts /\ EntryCurrent

(***************************************************************************)
(* Records and how they change.                                             *)
(***************************************************************************)

\* A record that settling a reservation may have moved from q to r.
Like(r, q) ==
    /\ r.call = q.call /\ r.no = q.no /\ r.src = q.src /\ r.from = q.from
    /\ r.missed = q.missed /\ r.ahead = q.ahead
    /\ r.stage = q.stage \/ (q.stage = "parked" /\ r.stage = "loaded")

\* A call that is over.
Ended(r) ==
    /\ r.stage \in {"done", "borrowed", "rejected"} /\ r.call = "none" /\ r.no = None
    /\ r.src = NoSource /\ r.from = 0

Others(c) == \A d \in Callers : d # c => Like(caller'[d], caller[d])
OthersStay(c) == \A d \in Callers : d # c => caller'[d] = caller[d]

\* A rejected call.
LEMMA RejectedRecord ==
    LET r == [Idle EXCEPT !.stage = "rejected"]
    IN  r \in Records /\ r.stage = "rejected" /\ Ended(r) /\ r.missed = 0 /\ r.ahead = 0
BY DEF Idle, Records, Stages, Sources, NoSource, None, Ended

\* A call that returned a view.
LEMMA ReturnedRecord ==
    ASSUME Typed, NEW r \in Records, NEW view \in Nat, NEW stage \in {"done", "borrowed"}
    PROVE  LET q == Returns(r, view, stage)
           IN  /\ q \in Records /\ q.stage = stage /\ Ended(q)
               /\ q.missed = IF r.from > view THEN r.from - view ELSE 0
               /\ q.ahead = IF r.call \in {"prepare", "load"} /\ view > stored.len
                              THEN view - stored.len ELSE 0
<1>1. r.from \in Nat /\ stored.len \in Nat BY DEF Typed, Records, Logs
<1> DEFINE m == IF r.from > view THEN r.from - view ELSE 0
           a == IF r.call \in {"prepare", "load"} /\ view > stored.len
                  THEN view - stored.len ELSE 0
<1>2. m \in Nat BY <1>1
<1>3. a \in Nat BY <1>1
<1> HIDE DEF m, a
<1>4. Returns(r, view, stage) = [Idle EXCEPT !.stage = stage, !.missed = m, !.ahead = a]
  BY DEF Returns, m, a
<1>5. LET q == [Idle EXCEPT !.stage = stage, !.missed = m, !.ahead = a]
      IN  q \in Records /\ q.stage = stage /\ Ended(q) /\ q.missed = m /\ q.ahead = a
  BY <1>2, <1>3 DEF Idle, Records, Stages, Sources, NoSource, None, Ended
<1> QED BY <1>4, <1>5 DEF m, a

\* One caller gets a new record.
LEMMA OneCaller ==
    ASSUME Typed, NEW c \in Callers, NEW r \in Records
    PROVE  LET cs == [caller EXCEPT ![c] = r]
           IN  /\ cs \in [Callers -> Records] /\ cs[c] = r
               /\ \A d \in Callers : d # c => cs[d] = caller[d]
BY DEF Typed

\* A caller goes to another stage.
LEMMA SetEffect ==
    ASSUME Typed, NEW c \in Callers, NEW s \in Stages
    PROVE  LET cs == Set(c, s)
           IN  /\ cs \in [Callers -> Records]
               /\ \A d \in Callers : d # c => cs[d] = caller[d]
               /\ cs[c].stage = s /\ cs[c].call = caller[c].call /\ cs[c].no = caller[c].no
               /\ cs[c].src = caller[c].src /\ cs[c].from = caller[c].from
               /\ cs[c].missed = caller[c].missed /\ cs[c].ahead = caller[c].ahead
<1> DEFINE r == [caller[c] EXCEPT !.stage = s]
<1>1. caller[c] \in Records BY DEF Typed
<1>2. /\ r \in Records /\ r.stage = s /\ r.call = caller[c].call /\ r.no = caller[c].no
      /\ r.src = caller[c].src /\ r.from = caller[c].from
      /\ r.missed = caller[c].missed /\ r.ahead = caller[c].ahead
  BY <1>1 DEF Records
<1>3. Set(c, s) = [caller EXCEPT ![c] = r] BY DEF Set
<1> HIDE DEF r
<1> QED BY <1>2, <1>3, OneCaller

\* A call goes back to the top of its loop.
LEMMA RetriesEffect ==
    ASSUME Typed, NEW c \in Callers
    PROVE  LET cs == Retries(c)
           IN  /\ cs \in [Callers -> Records]
               /\ \A d \in Callers : d # c => cs[d] = caller[d]
               /\ cs[c].stage = "again" /\ cs[c].call = caller[c].call /\ cs[c].no = None
               /\ cs[c].src = NoSource /\ cs[c].from = caller[c].from
               /\ cs[c].missed = caller[c].missed /\ cs[c].ahead = caller[c].ahead
<1> DEFINE r == [caller[c] EXCEPT !.stage = "again", !.no = None, !.src = NoSource]
<1>1. caller[c] \in Records BY DEF Typed
<1>2. NoSource \in Sources /\ None \in Nat /\ "again" \in Stages
  BY DEF NoSource, Sources, None, Stages
<1>3. /\ r \in Records /\ r.stage = "again" /\ r.call = caller[c].call /\ r.no = None
      /\ r.src = NoSource /\ r.from = caller[c].from
      /\ r.missed = caller[c].missed /\ r.ahead = caller[c].ahead
  BY <1>1, <1>2 DEF Records
<1>4. Retries(c) = [caller EXCEPT ![c] = r] BY DEF Retries
<1> HIDE DEF r
<1> QED BY <1>3, <1>4, OneCaller

\* A call is rejected.
LEMMA RejectsEffect ==
    ASSUME Typed, NEW c \in Callers
    PROVE  LET cs == Rejects(c)
           IN  /\ cs \in [Callers -> Records]
               /\ \A d \in Callers : d # c => cs[d] = caller[d]
               /\ Ended(cs[c]) /\ cs[c].stage = "rejected" /\ cs[c].missed = 0 /\ cs[c].ahead = 0
<1> DEFINE r == [Idle EXCEPT !.stage = "rejected"]
<1>1. r \in Records /\ r.stage = "rejected" /\ Ended(r) /\ r.missed = 0 /\ r.ahead = 0
  BY RejectedRecord
<1>2. Rejects(c) = [caller EXCEPT ![c] = r] BY DEF Rejects
<1> HIDE DEF r
<1> QED BY <1>1, <1>2, OneCaller

\* Settling a reservation changes nobody but who is parked.
LEMMA SettleEffect ==
    ASSUME NEW cs \in [Callers -> Records]
    PROVE  /\ Settle(cs) \in [Callers -> Records]
           /\ \A d \in Callers : Like(Settle(cs)[d], cs[d])
           /\ \A d \in Callers : cs[d].stage # "parked" => Settle(cs)[d] = cs[d]
<1>1. \A d \in Callers : Settle(cs)[d] =
        IF cs[d].stage = "parked" /\ cs[d].no = entry.no
          THEN [cs[d] EXCEPT !.stage = "loaded"] ELSE cs[d]
  BY DEF Settle
<1>2. ASSUME NEW d \in Callers
      PROVE  LET q == [cs[d] EXCEPT !.stage = "loaded"]
             IN  q \in Records /\ (cs[d].stage = "parked" => Like(q, cs[d]))
  BY DEF Records, Stages, Like
<1>3. \A d \in Callers : Settle(cs)[d] \in Records BY <1>1, <1>2
<1>4. Settle(cs) \in [Callers -> Records] BY <1>3 DEF Settle
<1>5. \A d \in Callers : Like(Settle(cs)[d], cs[d]) BY <1>1, <1>2 DEF Like
<1> QED BY <1>1, <1>4, <1>5

(***************************************************************************)
(* Numbers and the chain.                                                   *)
(***************************************************************************)

\* Another finite set does not cover a longer interval.
LEMMA Spare ==
    ASSUME NEW S, IsFiniteSet(S)
    PROVE  \E n \in 1..(Cardinality(S) + 1) : n \notin S
<1>1. Cardinality(S) \in Nat BY FS_CardinalityType
<1> DEFINE I == 1..(Cardinality(S) + 1)
<1>2. IsFiniteSet(I) /\ Cardinality(I) = Cardinality(S) + 1
  <2>1. 1 \in Int /\ Cardinality(S) + 1 \in Int BY <1>1
  <2> QED BY <1>1, <2>1, FS_Interval
<1> HIDE DEF I
<1>3. ~(I \subseteq S)
  <2> SUFFICES ASSUME I \in SUBSET S PROVE FALSE OBVIOUS
  <2>1. Cardinality(I) <= Cardinality(S) BY FS_Subset
  <2> QED BY <1>1, <1>2, <2>1
<1> QED BY <1>3 DEF I

\* The values a function takes on a finite set are finitely many.
LEMMA FiniteRange ==
    ASSUME NEW S, IsFiniteSet(S), NEW f, DOMAIN f = S, f = [x \in S |-> f[x]]
    PROVE  IsFiniteSet({f[x] : x \in S})
<1> DEFINE T == {f[x] : x \in S}
<1>1. f \in Surjection(S, T) BY DEF Surjection
<1> QED BY <1>1, FS_Surjection

\* A number nobody holds: no entry, session, caller or queued read.
LEMMA FreshIsFree ==
    ASSUME Typed
    PROVE  /\ Fresh \in Nat \ {None} /\ Fresh # entry.no /\ Fresh # session.no
           /\ \A c \in Callers : caller[c].no # Fresh
           /\ \A i \in Places : chain[i].kind = "load" => chain[i].by # Fresh
<1> DEFINE numbers == {caller[c].no : c \in Callers}
           reads == {j \in DOMAIN chain : chain[j].kind = "load"}
           loads == {chain[i].by : i \in reads}
           used == {entry.no, session.no} \cup numbers \cup loads
<1>1. IsFiniteSet(numbers)
  <2> DEFINE f == [c \in Callers |-> caller[c].no]
  <2>1. IsFiniteSet({f[c] : c \in Callers})
    <3>1. DOMAIN f = Callers /\ f = [x \in Callers |-> f[x]] OBVIOUS
    <3> HIDE DEF f
    <3> QED BY <3>1, CallersAssumption, FiniteRange
  <2> QED BY <2>1
<1>2. IsFiniteSet(loads)
  <2>1. DOMAIN chain = 1..Len(chain) /\ Len(chain) \in Nat BY LenProperties DEF Typed
  <2>2. IsFiniteSet(1..Len(chain)) BY <2>1, FS_Interval
  <2>3. IsFiniteSet(reads) BY <2>1, <2>2, FS_Subset
  <2> DEFINE f == [i \in reads |-> chain[i].by]
  <2>4. IsFiniteSet({f[i] : i \in reads})
    <3>1. DOMAIN f = reads /\ f = [x \in reads |-> f[x]] OBVIOUS
    <3> HIDE DEF f, reads
    <3> QED BY <2>3, <3>1, FiniteRange
  <2> QED BY <2>4
<1>3. IsFiniteSet({entry.no, session.no})
  <2>1. IsFiniteSet({entry.no}) /\ IsFiniteSet({session.no}) BY FS_Singleton
  <2>2. {entry.no, session.no} = {entry.no} \cup {session.no} OBVIOUS
  <2> QED BY <2>1, <2>2, FS_Union
<1>4. IsFiniteSet(used)
  <2> HIDE DEF numbers, loads
  <2>1. IsFiniteSet({entry.no, session.no} \cup numbers) BY <1>1, <1>3, FS_Union
  <2> QED BY <1>2, <2>1, FS_Union
<1>5. Fresh = CHOOSE n \in 1..(Cardinality(used) + 1) : n \notin used
  BY DEF Fresh
<1>6. \E n \in 1..(Cardinality(used) + 1) : n \notin used
  <2> HIDE DEF used
  <2> QED BY <1>4, Spare
<1>7. Fresh \in 1..(Cardinality(used) + 1) /\ Fresh \notin used
  <2> HIDE DEF used
  <2> QED BY <1>5, <1>6
<1>8. Cardinality(used) \in Nat
  <2> HIDE DEF used
  <2> QED BY <1>4, FS_CardinalityType
<1>9. Fresh \in Nat \ {None}
  <2> HIDE DEF used
  <2> QED BY <1>7, <1>8 DEF None
<1>10. Fresh \notin numbers /\ Fresh \notin loads /\ Fresh # entry.no /\ Fresh # session.no
  BY <1>7
<1>11. \A i \in Places : chain[i].kind = "load" => chain[i].by \in loads
  <2>1. DOMAIN chain = Places BY LenProperties DEF Typed, Places
  <2> QED BY <2>1
<1> QED BY <1>9, <1>10, <1>11

\* An operation joins the end of the chain; the first one leaves it.
Joined(op) ==
    /\ chain' \in Seq(Ops) /\ Len(chain') = Len(chain) + 1
    /\ \A i \in Places : chain'[i] = chain[i]
    /\ chain'[Len(chain) + 1] = op
Shifted ==
    /\ Len(chain) > 0 /\ chain' \in Seq(Ops) /\ Len(chain') = Len(chain) - 1
    /\ \A i \in 1..Len(chain') : chain'[i] = chain[i + 1]
Stepped(op) ==
    /\ Len(chain) > 0 /\ chain' \in Seq(Ops) /\ Len(chain') = Len(chain)
    /\ chain'[1] = op /\ \A i \in Places : i > 1 => chain'[i] = chain[i]

\* The chain is a sequence of operations.
LEMMA ChainTyped ==
    ASSUME Typed
    PROVE  Len(chain) \in Nat /\ \A i \in Places : chain[i] \in Ops
BY LenProperties DEF Typed, Places

\* Serialize puts an operation at the end of the chain.
LEMMA SerializeEffect ==
    ASSUME Typed, NEW op \in Ops, Serialize(op) PROVE Joined(op)
BY AppendProperties DEF Typed, Serialize, Joined, Places

\* OpEnds takes the first operation from it.
LEMMA OpEndsEffect ==
    ASSUME Typed, chain # <<>>, OpEnds PROVE Shifted
<1>1. chain \in Seq(Ops) /\ chain' = Tail(chain) BY DEF Typed, OpEnds
<1>2. Len(chain) \in Nat \ {0} BY <1>1, EmptySeq
<1>3. /\ Tail(chain) \in Seq(Ops) /\ Len(Tail(chain)) = Len(chain) - 1
      /\ \A i \in 1..Len(Tail(chain)) : Tail(chain)[i] = chain[i + 1]
  BY <1>1, HeadTailProperties
<1> QED BY <1>1, <1>2, <1>3 DEF Shifted

\* The first operation, whichever way it is named.
LEMMA HeadIsFirst ==
    ASSUME Typed, chain # <<>>
    PROVE  /\ Head(chain) = chain[1] /\ Len(chain) > 0 /\ 1 \in Places /\ chain[1] \in Ops
<1>1. chain \in Seq(Ops) BY DEF Typed
<1>2. Len(chain) \in Nat \ {0} BY <1>1, EmptySeq
<1>3. 1 \in Places BY <1>2 DEF Places
<1> QED BY <1>1, <1>2, <1>3, ChainTyped

\* The first operation is replaced.
LEMMA HeadReplaced ==
    ASSUME Typed, chain # <<>>, NEW op \in Ops, chain' = [chain EXCEPT ![1] = op]
    PROVE  Stepped(op)
<1>1. Len(chain) > 0 /\ 1 \in Places BY HeadIsFirst
<1>2. chain \in Seq(Ops) /\ Len(chain) \in Nat BY ChainTyped DEF Typed
<1>3. /\ chain' \in Seq(Ops) /\ Len(chain') = Len(chain)
      /\ \A j \in 1..Len(chain) : chain'[j] = IF j = 1 THEN op ELSE chain[j]
  BY <1>1, <1>2, ExceptSeq DEF Places
<1> QED BY <1>1, <1>2, <1>3 DEF Stepped, Places

\* The first operation goes on to its next step.
LEMMA OpGoesToEffect ==
    ASSUME Typed, chain # <<>>, NEW step,
           step \in {"queued", "dropped", "adopted", "stale", "repair", "writing"},
           OpGoesTo(step)
    PROVE  \E op \in Ops : /\ Stepped(op) /\ op.kind = chain[1].kind /\ op.by = chain[1].by
                           /\ op.src = chain[1].src /\ op.to = chain[1].to /\ op.step = step
<1> DEFINE op == [chain[1] EXCEPT !.step = step]
<1>1. chain[1] \in Ops BY HeadIsFirst
<1>2. /\ op \in Ops /\ op.kind = chain[1].kind /\ op.by = chain[1].by
      /\ op.src = chain[1].src /\ op.to = chain[1].to /\ op.step = step
  BY <1>1 DEF Ops
<1>3. chain' = [chain EXCEPT ![1] = op] BY DEF OpGoesTo
<1> HIDE DEF op
<1>4. Stepped(op) BY <1>2, <1>3, HeadReplaced
<1> QED BY <1>2, <1>4

\* An operation as it joins the chain.
LEMMA NewOp ==
    ASSUME NEW kind \in Kinds, NEW by \in Nat \cup Callers, NEW src \in Sources, NEW to \in Logs
    PROVE  LET op == Op(kind, by, src, to)
           IN  /\ op \in Ops /\ op.kind = kind /\ op.by = by /\ op.src = src /\ op.to = to
               /\ op.step = "queued"
BY DEF Op, Ops

\* What the absence of each thing looks like.
LEMMA NoThings ==
    /\ NoSource \in Sources /\ NoPosition \in Logs /\ NoEntry \in Entries /\ None \in Nat
    /\ NoEntry.no = None /\ NoEntry.phase = "none" /\ NoEntry.src = NoSource
    /\ NoSource.rev = 0 /\ NoSource.open = FALSE
    /\ NoSession \in Sessions /\ NoSession.no = None /\ NoSession.phase = "none"
    /\ NoState \in States /\ NoState.owner = None /\ NoState.known = FALSE
BY DEF NoSource, NoPosition, NoEntry, NoSession, NoState, None, Sources, Logs, Entries,
       Phases, Sessions, States

(***************************************************************************)
(* Parts of the invariant under parts of a step.                            *)
(***************************************************************************)

Fine(r) == Fit(r) /\ Fitting(r) /\ Shared(r) /\ Informed(r) /\ Honest(r)

\* Stages whose callers wait for an operation of theirs.
Awaits == {"committing", "checking", "appending"}

\* Only callers that wait for no operation move, but for the head's caller.
MovesFree == \A d \in Callers : Like(caller'[d], caller[d]) \/ caller[d].stage \notin Awaits
MovesHead ==
    \A d \in Callers : \/ Like(caller'[d], caller[d]) \/ caller[d].stage \notin Awaits
                       \/ Pending(1) /\ chain[1].by = d

\* Nobody begins to claim a number or changes the one he claims.
ClaimsStay ==
    \A d \in Callers : caller'[d].stage \in Claiming =>
        /\ caller[d].stage \in Claiming /\ caller'[d].no = caller[d].no
        /\ caller'[d].stage = "holding" <=> caller[d].stage = "holding"
        /\ caller'[d].src = caller[d].src
KeepsStay ==
    \A d \in Callers : caller'[d].stage \in Keeping =>
        /\ caller[d].stage \in Keeping
        /\ caller'[d].no = caller[d].no /\ caller'[d].src = caller[d].src

\* The entry stays, is forgotten, or goes from one reader to another.
EntryGoesOn ==
    \/ entry' = entry
    \/ entry' = NoEntry
    \/ /\ entry'.no = entry.no /\ entry'.src = entry.src
       /\ entry.phase \notin {"none", "loading"} /\ entry'.phase \notin {"none", "loading"}

LogGrows == stored' = stored \/ stored'.len > stored.len
SessionGoesOn ==
    /\ session'.no = session.no /\ session'.len >= session.len
    /\ session'.phase = "live" => session.phase = "live"
    /\ session.phase \in {"retiring", "stuck"} => session'.phase \in {"retiring", "stuck"}
ForeignStays == spent'.foreign = spent.foreign

\* Whoever keeps his place keeps what the invariant says of him.
LEMMA OthersInformed ==
    ASSUME Typed, Typed', CallersFine, LogGrows, SessionGoesOn,
           spent'.foreign >= spent.foreign,
           NEW d \in Callers, Like(caller'[d], caller[d])
    PROVE  /\ Fit(caller[d])' /\ Fitting(caller[d])' /\ Informed(caller[d])'
           /\ Honest(caller[d])'
<1>1. /\ Fit(caller[d]) /\ Fitting(caller[d]) /\ Shared(caller[d]) /\ Informed(caller[d])
      /\ Honest(caller[d])
  BY DEF CallersFine
<1> DEFINE r == caller'[d]
           q == caller[d]
<1>2. r \in Records /\ q \in Records /\ Like(r, q) BY DEF Typed
<1>3. /\ stored \in Logs /\ stored' \in Logs /\ session \in Sessions /\ session' \in Sessions
      /\ spent \in Spendings /\ spent' \in Spendings
  BY DEF Typed
<1>4. Fit(q) /\ Fitting(q) /\ Shared(q) /\ Informed(q) /\ Honest(q) BY <1>1
<1> HIDE DEF r, q
<1>5. Fit(r)
  BY <1>2, <1>4 DEF Fit, Like, Sourced, Claiming
<1>6. r.stage # "flushing" =>
        r.src.rev <= stored'.len /\ (r.src.rev = stored'.len => r.src.open = stored'.open)
  BY <1>2, <1>3, <1>4 DEF Fitting, Fits, Like, LogGrows, Logs, Records, Sources
<1>8. r.from <= stored'.len \/ (session'.no # None /\ r.from <= session'.len)
  BY <1>2, <1>3, <1>4 DEF Informed, Like, LogGrows, SessionGoesOn, Logs, Records, Sessions
<1>9. r.call = "inspect" =>
            \/ r.from <= stored'.len
            \/ /\ r.stage = "waiting" /\ session'.no = r.no
               /\ session'.phase \in {"retiring", "stuck"}
  BY <1>2, <1>3, <1>4 DEF Informed, Like, LogGrows, SessionGoesOn, Logs, Records, Sessions
<1>10. spent'.foreign = 0 /\ session'.phase = "live" /\ r.call # "append" => r.from <= session'.len
  BY <1>2, <1>3, <1>4
  DEF Informed, Like, SessionGoesOn, Live, Spendings, Records, Sessions
<1>11. r.stage \in Keeping \cup {"current"} => r.from <= Length(r.src)
  BY <1>2, <1>4 DEF Informed, Like, Keeping
<1>12. r.stage = "flushing" =>
            /\ \/ r.src.rev <= stored'.len
               \/ session'.no # None /\ session'.no = r.no /\ r.src.rev <= session'.len
            /\ spent'.foreign = 0 => r.from <= r.src.rev
  BY <1>2, <1>3, <1>4
  DEF Informed, Like, LogGrows, SessionGoesOn, Spendings, Logs, Records, Sources, Sessions
<1>13. (r.missed > 0 => r.stage = "borrowed" /\ spent'.foreign > 0) /\ r.ahead = 0
  BY <1>2, <1>3, <1>4 DEF Honest, Like, Spendings, Records
<1> QED
  BY <1>5, <1>6, <1>8, <1>9, <1>10, <1>11, <1>12, <1>13
  DEF Fitting, Fits, Informed, Live, Length, Honest, r

\* Likewise with the source he has, when the entry goes on.
LEMMA OthersFine ==
    ASSUME Typed, Typed', CallersFine, LogGrows, EntryGoesOn, SessionGoesOn,
           spent'.foreign >= spent.foreign,
           NEW d \in Callers, Like(caller'[d], caller[d])
    PROVE  Fine(caller[d])'
<1>1. Fit(caller[d])' /\ Fitting(caller[d])' /\ Informed(caller[d])' /\ Honest(caller[d])'
  BY OthersInformed
<1>2. Fit(caller[d]) /\ Shared(caller[d]) BY DEF CallersFine
<1>3. Shared(caller[d])'
  BY <1>1, <1>2, NoThings DEF Shared, Like, EntryGoesOn, Sourced, Claiming, Fit
<1> QED BY <1>1, <1>3 DEF Fine

\* What a call that is over has to say for itself.
LEMMA EndedFine ==
    ASSUME Typed, Typed', NEW c \in Callers, Ended(caller'[c]), caller'[c].ahead = 0,
           caller'[c].missed > 0 => caller'[c].stage = "borrowed" /\ spent'.foreign > 0
    PROVE  Fine(caller[c])'
BY NoThings
DEF Fine, Ended, Fit, Fitting, Fits, Shared, Informed, Honest, Sourced, Claiming, Keeping,
    Live, Typed, Logs, Sessions

\* The callers are fine when each of them is.
LEMMA CallersFineFrom ==
    ASSUME \A d \in Callers : Fine(caller[d])' PROVE CallersFine'
BY DEF CallersFine, Fine

\* The chain as it is, shifted or with its head changed, and the callers it
\* answers.
LEMMA SameAnswered ==
    ASSUME Typed, OpsFit, Answered, UNCHANGED chain, MovesFree
    PROVE  Answered'
<1> SUFFICES ASSUME NEW i \in Places, Pending(i)
             PROVE  Like(caller'[chain[i].by], caller[chain[i].by])
  BY DEF Answered, Pending, Places, Like, Awaited
<1>1. chain[i].by \in Callers BY DEF OpsFit, OpFits, Pending
<1>2. caller[chain[i].by].stage \in Awaits BY DEF Answered, Awaited, Awaits, Pending, ByCaller
<1> QED BY <1>1, <1>2 DEF MovesFree

\* The places of a chain that shifts.
LEMMA ShiftedPlaces ==
    ASSUME Typed, Shifted
    PROVE  /\ Len(chain) \in Nat \ {0} /\ Len(chain') \in Nat
           /\ \A i \in Places' : i + 1 \in Places /\ i + 1 # 1 /\ chain'[i] = chain[i + 1]
BY ChainTyped DEF Shifted, Places

\* Answers go on when the first operation ends.
LEMMA ShiftedAnswered ==
    ASSUME Typed, OpsFit, Answered, Shifted, MovesHead
    PROVE  Answered'
<1>1. /\ Len(chain) \in Nat \ {0} /\ Len(chain') \in Nat
      /\ \A i \in Places' : i + 1 \in Places /\ i + 1 # 1 /\ chain'[i] = chain[i + 1]
  BY ShiftedPlaces
<1>2. 1 \in Places BY <1>1 DEF Places
<1>3. ASSUME NEW i \in Places', Pending(i)'
      PROVE  /\ caller'[chain'[i].by].stage = Awaited(chain'[i].kind)
             /\ chain'[i].kind = "commit" => caller'[chain'[i].by].src = chain'[i].src
  <2>1. i + 1 \in Places /\ i + 1 # 1 /\ chain'[i] = chain[i + 1] /\ Pending(i + 1)
    BY <1>1, <1>3 DEF Pending
  <2> DEFINE d == chain[i + 1].by
  <2>2. d \in Callers BY <2>1 DEF OpsFit, OpFits, Pending
  <2>3. /\ caller[d].stage = Awaited(chain[i + 1].kind)
        /\ chain[i + 1].kind = "commit" => caller[d].src = chain[i + 1].src
    BY <2>1 DEF Answered
  <2>4. caller[d].stage \in Awaits BY <2>3 DEF Awaited, Awaits
  <2>5. ~(Pending(1) /\ chain[1].by = d) BY <1>2, <2>1 DEF Answered
  <2>6. Like(caller'[d], caller[d]) BY <2>2, <2>4, <2>5 DEF MovesHead
  <2> QED BY <2>1, <2>3, <2>4, <2>6 DEF Like, Awaits
<1>4. ASSUME NEW i \in Places', NEW j \in Places', Pending(i)', Pending(j)',
             chain'[i].by = chain'[j].by
      PROVE  i = j
  <2>1. /\ i + 1 \in Places /\ chain'[i] = chain[i + 1] /\ Pending(i + 1)
        /\ j + 1 \in Places /\ chain'[j] = chain[j + 1] /\ Pending(j + 1)
    BY <1>1, <1>4 DEF Pending
  <2>2. i + 1 = j + 1 BY <1>4, <2>1 DEF Answered
  <2> QED BY <1>1, <2>2 DEF Places
<1> QED BY <1>3, <1>4 DEF Answered

\* The places of a chain that grows.
LEMMA JoinedPlaces ==
    ASSUME Typed, NEW op, Joined(op)
    PROVE  /\ Len(chain) \in Nat /\ Places' = Places \cup {Len(chain) + 1}
           /\ Len(chain) + 1 \notin Places
           /\ \A i \in Places : chain'[i] = chain[i]
           /\ chain'[Len(chain) + 1] = op
BY ChainTyped DEF Joined, Places

\* Answers go on when an operation joins, with its caller.
LEMMA JoinedAnswered ==
    ASSUME Typed, OpsFit, Answered, NEW op, Joined(op), MovesFree,
           op.kind \notin ByCaller \/
             /\ op.by \in Callers /\ caller[op.by].stage \notin Awaits
             /\ caller'[op.by].stage = Awaited(op.kind)
             /\ op.kind = "commit" => caller'[op.by].src = op.src
    PROVE  Answered'
<1> DEFINE n == Len(chain) + 1
<1>1. /\ Places' = Places \cup {n} /\ n \notin Places
      /\ \A i \in Places : chain'[i] = chain[i]
      /\ chain'[n] = op
  BY JoinedPlaces
<1> HIDE DEF n
<1>2. ASSUME NEW i \in Places, Pending(i)
      PROVE  /\ Like(caller'[chain[i].by], caller[chain[i].by])
             /\ caller[chain[i].by].stage \in Awaits
  <2>1. chain[i].by \in Callers BY <1>2 DEF OpsFit, OpFits, Pending
  <2>2. caller[chain[i].by].stage \in Awaits
    BY <1>2 DEF Answered, Awaited, Awaits, Pending, ByCaller
  <2> QED BY <2>1, <2>2 DEF MovesFree
<1>3. ASSUME NEW i \in Places', Pending(i)'
      PROVE  /\ caller'[chain'[i].by].stage = Awaited(chain'[i].kind)
             /\ chain'[i].kind = "commit" => caller'[chain'[i].by].src = chain'[i].src
  <2>1. CASE i = n BY <1>1, <1>3, <2>1 DEF Pending
  <2>2. CASE i \in Places
    <3>1. Pending(i) /\ chain'[i] = chain[i] BY <1>1, <1>3, <2>2 DEF Pending
    <3> QED BY <1>2, <2>2, <3>1 DEF Answered, Like, Awaits
  <2> QED BY <1>1, <2>1, <2>2
<1>4. ASSUME NEW i \in Places', NEW j \in Places', Pending(i)', Pending(j)',
             chain'[i].by = chain'[j].by
      PROVE  i = j
  <2>1. CASE i \in Places /\ j \in Places
    BY <1>1, <1>4, <2>1 DEF Answered, Pending
  <2>2. ASSUME NEW k \in Places, chain'[k].kind \in ByCaller, chain'[k].step # "dropped",
               chain'[n].kind \in ByCaller
        PROVE  chain'[k].by # chain'[n].by
    <3>1. chain'[k] = chain[k] /\ chain'[n] = op BY <1>1, <2>2
    <3>2. caller[chain[k].by].stage \in Awaits BY <1>2, <2>2, <3>1 DEF Pending
    <3>3. caller[op.by].stage \notin Awaits BY <2>2, <3>1
    <3> QED BY <3>1, <3>2, <3>3
  <2>3. CASE i \in Places /\ j = n BY <1>4, <2>2, <2>3 DEF Pending
  <2>4. CASE i = n /\ j \in Places BY <1>4, <2>2, <2>4 DEF Pending
  <2> QED BY <1>1, <2>1, <2>3, <2>4
<1> QED BY <1>3, <1>4 DEF Answered

\* The places of a chain whose first operation goes on.
LEMMA SteppedPlaces ==
    ASSUME Typed, NEW op, Stepped(op)
    PROVE  /\ Places' = Places /\ 1 \in Places /\ chain'[1] = op
           /\ \A i \in Places : i # 1 => chain'[i] = chain[i]
BY ChainTyped DEF Stepped, Places

\* Answers go on when the first operation does.
LEMMA SteppedAnswered ==
    ASSUME Typed, OpsFit, Answered, NEW op, Stepped(op), MovesFree, chain[1].step # "dropped",
           op.kind = chain[1].kind, op.by = chain[1].by,
           op.kind = "commit" => op.src = chain[1].src
    PROVE  Answered'
<1>1. /\ Places' = Places /\ 1 \in Places /\ chain'[1] = op
      /\ \A i \in Places : i # 1 => chain'[i] = chain[i]
  BY SteppedPlaces
<1>2. \A i \in Places : /\ Pending(i)' => Pending(i)
                        /\ chain'[i].kind = chain[i].kind /\ chain'[i].by = chain[i].by
                        /\ chain'[i].kind = "commit" => chain'[i].src = chain[i].src
  BY <1>1 DEF Pending
<1>3. ASSUME NEW i \in Places, Pending(i)
      PROVE  /\ Like(caller'[chain[i].by], caller[chain[i].by])
             /\ caller[chain[i].by].stage \in Awaits
  <2>1. chain[i].by \in Callers BY <1>3 DEF OpsFit, OpFits, Pending
  <2>2. caller[chain[i].by].stage \in Awaits
    BY <1>3 DEF Answered, Awaited, Awaits, Pending, ByCaller
  <2> QED BY <2>1, <2>2 DEF MovesFree
<1>4. ASSUME NEW i \in Places', Pending(i)'
      PROVE  /\ caller'[chain'[i].by].stage = Awaited(chain'[i].kind)
             /\ chain'[i].kind = "commit" => caller'[chain'[i].by].src = chain'[i].src
  <2>1. i \in Places /\ Pending(i) BY <1>1, <1>2, <1>4
  <2> QED BY <1>2, <1>3, <2>1 DEF Answered, Like, Awaits
<1>5. ASSUME NEW i \in Places', NEW j \in Places', Pending(i)', Pending(j)',
             chain'[i].by = chain'[j].by
      PROVE  i = j
  BY <1>1, <1>2, <1>5 DEF Answered
<1> QED BY <1>4, <1>5 DEF Answered

\* Whose commit is on the chain keeps his number.
LEMMA CommitterStays ==
    ASSUME OpsFit, Answered, MovesFree, NEW i \in Places, Commits(i)
    PROVE  chain[i].by \in Callers /\ caller'[chain[i].by].no = caller[chain[i].by].no
<1>1. chain[i].by \in Callers BY DEF OpsFit, OpFits, Commits, ByCaller
<1>2. caller[chain[i].by].stage \in Awaits
  BY DEF Answered, Awaited, Awaits, Pending, Commits, ByCaller
<1> QED BY <1>1, <1>2 DEF MovesFree, Like

\* What is known of the reads and commits stays with the chain.
LEMMA SameReads ==
    ASSUME Typed, OpsFit, Answered, ReadsQueued, UNCHANGED chain, MovesFree, EntryGoesOn
    PROVE  ReadsQueued'
<1>1. \A i \in Places : Commits(i) => caller'[chain[i].by].no = caller[chain[i].by].no
  BY CommitterStays
<1>2. \A i \in Places : chain[i].kind = "load" => chain[i].by # None BY DEF OpsFit, OpFits
<1>3. CASE entry' = entry BY <1>1, <1>3 DEF ReadsQueued, Places, Commits
<1>4. CASE entry' = NoEntry
  BY <1>2, <1>4, NoThings DEF ReadsQueued, Places
<1>5. CASE /\ entry'.no = entry.no
           /\ entry.phase \notin {"none", "loading"} /\ entry'.phase \notin {"none", "loading"}
  BY <1>1, <1>5 DEF ReadsQueued, Places, Commits
<1> QED BY <1>3, <1>4, <1>5 DEF EntryGoesOn

\* It stays when the first operation ends, unless that is the entry's read.
LEMMA ShiftedReads ==
    ASSUME Typed, OpsFit, Answered, ReadsQueued, Shifted, MovesHead, EntryGoesOn,
           entry' = NoEntry \/ ~(chain[1].kind = "load" /\ chain[1].by = entry.no)
    PROVE  ReadsQueued'
<1>1. /\ Len(chain) \in Nat \ {0} /\ Len(chain') \in Nat /\ 1 \in Places
      /\ \A i \in Places' : i + 1 \in Places /\ i + 1 # 1 /\ chain'[i] = chain[i + 1]
  BY ShiftedPlaces DEF Places
<1>2. ASSUME NEW i \in Places', Commits(i)'
      PROVE  Commits(i + 1) /\ caller'[chain'[i].by].no = caller[chain[i + 1].by].no
  <2>1. i + 1 \in Places /\ i + 1 # 1 /\ chain'[i] = chain[i + 1] /\ Commits(i + 1)
    BY <1>1, <1>2 DEF Commits
  <2> DEFINE d == chain[i + 1].by
  <2>2. d \in Callers BY <2>1 DEF OpsFit, OpFits, Commits, ByCaller
  <2>3. Pending(i + 1) BY <2>1 DEF Pending, Commits, ByCaller
  <2>4. caller[d].stage \in Awaits BY <2>1, <2>3 DEF Answered, Awaited, Awaits
  <2>5. ~(Pending(1) /\ chain[1].by = d) BY <1>1, <2>1, <2>3 DEF Answered
  <2>6. Like(caller'[d], caller[d]) BY <2>2, <2>4, <2>5 DEF MovesHead
  <2> QED BY <2>1, <2>6 DEF Like
<1>3. \A i, j \in Places' :
        chain'[i].kind = "load" /\ chain'[j].kind = "load" /\ chain'[i].by = chain'[j].by => i = j
  <2> SUFFICES ASSUME NEW i \in Places', NEW j \in Places', chain'[i].kind = "load",
                      chain'[j].kind = "load", chain'[i].by = chain'[j].by
               PROVE  i = j
    OBVIOUS
  <2>1. i + 1 = j + 1 BY <1>1 DEF ReadsQueued
  <2> QED BY <1>1, <2>1 DEF Places
<1>4. \A i \in Places' : chain'[i].kind = "load" => chain'[i].by # None
  BY <1>1 DEF OpsFit, OpFits
<1>5. CASE entry' = NoEntry
  BY <1>3, <1>4, <1>5, NoThings DEF ReadsQueued
<1>6. ASSUME entry'.no = entry.no, entry'.phase = "loading" <=> entry.phase = "loading",
             entry'.phase = "none" <=> entry.phase = "none",
             ~(chain[1].kind = "load" /\ chain[1].by = entry.no)
      PROVE  ReadsQueued'
  <2>1. \A i \in Places' : chain'[i].kind = "load" /\ chain'[i].by = entry'.no =>
            entry'.phase = "loading"
    BY <1>1, <1>6 DEF ReadsQueued
  <2>2. ASSUME entry'.phase = "loading"
        PROVE  \E l \in Places' : /\ chain'[l].kind = "load" /\ chain'[l].by = entry'.no
                                  /\ \A i \in Places' : Commits(i)' => i < l
    <3>1. PICK l \in Places : /\ chain[l].kind = "load" /\ chain[l].by = entry.no
                              /\ \A i \in Places : Commits(i) => i < l
      BY <1>6, <2>2 DEF ReadsQueued
    <3>2. l # 1 BY <1>6, <3>1
    <3>3. l - 1 \in Places' /\ (l - 1) + 1 = l BY <1>1, <3>1, <3>2 DEF Places, Shifted
    <3>4. chain'[l - 1] = chain[l]
      <4>1. chain'[l - 1] = chain[(l - 1) + 1] BY <1>1, <3>3
      <4> QED BY <3>3, <4>1
    <3>5. \A i \in Places' : Commits(i)' => i < l - 1
      <4> SUFFICES ASSUME NEW i \in Places', Commits(i)' PROVE i < l - 1 OBVIOUS
      <4>1. i + 1 \in Places /\ Commits(i + 1) BY <1>1, <1>2
      <4>2. i + 1 < l BY <3>1, <4>1
      <4> QED BY <1>1, <3>3, <4>2 DEF Places
    <3> QED BY <1>6, <3>1, <3>3, <3>4, <3>5
  <2>3. entry'.phase \notin {"none", "loading"} =>
            \A i \in Places' : Commits(i)' => caller'[chain'[i].by].no = entry'.no
    BY <1>1, <1>2, <1>6 DEF ReadsQueued
  <2> QED BY <1>3, <2>1, <2>2, <2>3 DEF ReadsQueued
<1> QED BY <1>5, <1>6 DEF EntryGoesOn

\* It stays when an operation joins that is no read, and no commit but the
\* entry's.
LEMMA JoinedReads ==
    ASSUME Typed, OpsFit, Answered, ReadsQueued, NEW op, Joined(op), MovesFree, EntryGoesOn,
           op.kind # "load",
           op.kind = "commit" =>
                /\ entry'.phase \notin {"none", "loading"} /\ caller'[op.by].no = entry'.no
    PROVE  ReadsQueued'
<1> DEFINE n == Len(chain) + 1
<1>1. /\ Places' = Places \cup {n} /\ n \notin Places
      /\ \A i \in Places : chain'[i] = chain[i]
      /\ chain'[n] = op
  BY JoinedPlaces
<1>2. \A i \in Places : i < n BY ChainTyped DEF Places
<1> HIDE DEF n
<1>3. \A i \in Places : Commits(i) => caller'[chain[i].by].no = caller[chain[i].by].no
  BY CommitterStays
<1>4. \A i \in Places : chain[i].kind = "load" => chain[i].by # None BY DEF OpsFit, OpFits
<1>5. \A i \in Places' : /\ chain'[i].kind = "load" => i \in Places /\ chain'[i] = chain[i]
                         /\ i \in Places => (Commits(i)' <=> Commits(i))
                         /\ Commits(i)' => i \in Places \/ op.kind = "commit"
  BY <1>1 DEF Commits
<1>6. \A i, j \in Places' :
        chain'[i].kind = "load" /\ chain'[j].kind = "load" /\ chain'[i].by = chain'[j].by => i = j
  BY <1>5 DEF ReadsQueued
<1>7. CASE entry' = NoEntry
  BY <1>4, <1>5, <1>6, <1>7, NoThings DEF ReadsQueued
<1>8. ASSUME entry'.no = entry.no, entry'.phase = "loading" <=> entry.phase = "loading",
             entry'.phase = "none" <=> entry.phase = "none"
      PROVE  ReadsQueued'
  <2>1. \A i \in Places' : chain'[i].kind = "load" /\ chain'[i].by = entry'.no =>
            entry'.phase = "loading"
    BY <1>5, <1>8 DEF ReadsQueued
  <2>2. ASSUME entry'.phase = "loading"
        PROVE  \E l \in Places' : /\ chain'[l].kind = "load" /\ chain'[l].by = entry'.no
                                  /\ \A i \in Places' : Commits(i)' => i < l
    <3>1. PICK l \in Places : /\ chain[l].kind = "load" /\ chain[l].by = entry.no
                              /\ \A i \in Places : Commits(i) => i < l
      BY <1>8, <2>2 DEF ReadsQueued
    <3>2. \A i \in Places' : Commits(i)' => i < l BY <1>5, <2>2, <3>1
    <3> QED BY <1>1, <1>8, <3>1, <3>2
  <2>3. ASSUME entry'.phase \notin {"none", "loading"}, NEW i \in Places', Commits(i)'
        PROVE  caller'[chain'[i].by].no = entry'.no
    <3>1. CASE i \in Places
      <4>1. Commits(i) /\ chain'[i] = chain[i] BY <1>1, <1>5, <2>3, <3>1
      <4>2. caller[chain[i].by].no = entry.no BY <1>8, <2>3, <3>1, <4>1 DEF ReadsQueued
      <4> QED BY <1>3, <1>8, <3>1, <4>1, <4>2
    <3>2. CASE i = n
      <4>1. chain'[i] = op /\ op.kind = "commit" BY <1>1, <2>3, <3>2 DEF Commits
      <4> QED BY <4>1
    <3> QED BY <1>1, <3>1, <3>2
  <2> QED BY <1>6, <2>1, <2>2, <2>3 DEF ReadsQueued
<1> QED BY <1>7, <1>8 DEF EntryGoesOn

\* It stays when the first operation goes on.
LEMMA SteppedReads ==
    ASSUME Typed, OpsFit, Answered, ReadsQueued, NEW op, Stepped(op), MovesFree, EntryGoesOn,
           op.kind = chain[1].kind, op.by = chain[1].by, chain[1].step # "dropped"
    PROVE  ReadsQueued'
<1>1. /\ Places' = Places /\ 1 \in Places /\ chain'[1] = op
      /\ \A i \in Places : i # 1 => chain'[i] = chain[i]
  BY SteppedPlaces
<1>2. \A i \in Places : /\ chain'[i].kind = chain[i].kind /\ chain'[i].by = chain[i].by
                        /\ Commits(i)' => Commits(i)
  BY <1>1 DEF Commits
<1>3. \A i \in Places : Commits(i) => caller'[chain[i].by].no = caller[chain[i].by].no
  BY CommitterStays
<1>4. \A i \in Places : chain[i].kind = "load" => chain[i].by # None BY DEF OpsFit, OpFits
<1>5. \A i, j \in Places' :
        chain'[i].kind = "load" /\ chain'[j].kind = "load" /\ chain'[i].by = chain'[j].by => i = j
  BY <1>1, <1>2 DEF ReadsQueued
<1>6. CASE entry' = NoEntry
  BY <1>1, <1>2, <1>4, <1>5, <1>6, NoThings DEF ReadsQueued
<1>7. ASSUME entry'.no = entry.no, entry'.phase = "loading" <=> entry.phase = "loading",
             entry'.phase = "none" <=> entry.phase = "none"
      PROVE  ReadsQueued'
  <2>1. \A i \in Places' : chain'[i].kind = "load" /\ chain'[i].by = entry'.no =>
            entry'.phase = "loading"
    BY <1>1, <1>2, <1>7 DEF ReadsQueued
  <2>2. ASSUME entry'.phase = "loading"
        PROVE  \E l \in Places' : /\ chain'[l].kind = "load" /\ chain'[l].by = entry'.no
                                  /\ \A i \in Places' : Commits(i)' => i < l
    <3>1. PICK l \in Places : /\ chain[l].kind = "load" /\ chain[l].by = entry.no
                              /\ \A i \in Places : Commits(i) => i < l
      BY <1>7, <2>2 DEF ReadsQueued
    <3>2. \A i \in Places' : Commits(i)' => i < l BY <1>1, <1>2, <3>1
    <3> QED BY <1>1, <1>2, <1>7, <3>1, <3>2
  <2>3. ASSUME entry'.phase \notin {"none", "loading"}, NEW i \in Places', Commits(i)'
        PROVE  caller'[chain'[i].by].no = entry'.no
    <3>1. Commits(i) /\ chain'[i].by = chain[i].by /\ i \in Places BY <1>1, <1>2, <2>3
    <3>2. caller[chain[i].by].no = entry.no BY <1>7, <2>3, <3>1 DEF ReadsQueued
    <3> QED BY <1>3, <1>7, <3>1, <3>2
  <2> QED BY <1>5, <2>1, <2>2, <2>3 DEF ReadsQueued
<1> QED BY <1>6, <1>7 DEF EntryGoesOn

\* The claims, when nobody begins one.
LEMMA SameClaims ==
    ASSUME OneClaim, ClaimsStay, entry'.no = entry.no, entry'.phase = entry.phase
    PROVE  OneClaim'
BY DEF OneClaim, ClaimsStay, Claims, Claiming

\* The entry is forgotten while nobody holds it.
LEMMA LeftClaims ==
    ASSUME OneClaim, ClaimsStay, CallersFine', entry' = NoEntry,
           \A d \in Callers : caller'[d].stage # "holding"
    PROVE  OneClaim'
<1>1. \A d \in Callers : Claims(d)' => caller'[d].no # None
  BY DEF CallersFine, Fit, Claims, Sourced
<1> QED BY <1>1, NoThings DEF OneClaim, ClaimsStay, Claims

\* The entry becomes ready, and nobody claims it any more.
LEMMA ReadyClaims ==
    ASSUME OneClaim, ClaimsStay, entry'.no = entry.no,
           \A d \in Callers : Claims(d)' => caller'[d].no # entry.no /\ caller'[d].stage # "holding"
    PROVE  OneClaim'
<1>1. \A c \in Callers : caller'[c].stage # "holding" BY DEF Claims, Claiming
<1>2. \A c, d \in Callers : Claims(c)' /\ Claims(d)' /\ caller'[c].no = caller'[d].no => c = d
  BY DEF OneClaim, ClaimsStay, Claims
<1> QED BY <1>1, <1>2 DEF OneClaim

\* The entry's currency, when it and the log stay, or when it is forgotten.
LEMMA SameCurrent ==
    ASSUME EntryCurrent, KeepsStay, entry'.no = entry.no, entry'.src = entry.src,
           entry'.phase \notin {"none", "loading"} => entry.phase \notin {"none", "loading"},
           UNCHANGED <<state, stored>>, ForeignStays
    PROVE  EntryCurrent'
<1>1. ASSUME NEW c \in Callers, Keeps(c)', caller'[c].no = entry'.no
      PROVE  Keeps(c) /\ caller[c].no = entry.no /\ caller'[c].src = caller[c].src
  BY <1>1 DEF KeepsStay, Keeps
<1> QED BY <1>1 DEF EntryCurrent, ForeignStays, Committed, Length

\* A forgotten entry is current.
LEMMA LeftCurrent ==
    ASSUME CallersFine', entry' = NoEntry
    PROVE  EntryCurrent'
<1>1. \A d \in Callers : Keeps(d)' => caller'[d].no # None
  BY DEF CallersFine, Fit, Keeps, Keeping, Sourced, Claiming
<1> QED BY <1>1, NoThings DEF EntryCurrent

\* What the head counts on, when it stays and nothing is written.
LEMMA SameHead ==
    ASSUME Typed, HeadHolds, CallersFine', UNCHANGED <<state, stored>>, ForeignStays,
           Len(chain) > 0 => Len(chain') > 0 /\ chain'[1] = chain[1],
           Len(chain) = 0 => Len(chain') = 0 \/ chain'[1].step = "queued",
           KeepsStay, EntryGoesOn
    PROVE  HeadHolds'
<1>1. Len(chain) \in Nat BY ChainTyped
<1>2. CASE Len(chain) = 0 BY <1>2 DEF HeadHolds, Running, Adopting
<1>3. CASE Len(chain) > 0
  <2>1. Len(chain') > 0 /\ chain'[1] = chain[1] BY <1>3
  <2>2. Adopting' => entry'.phase \in {"none", "loading"} /\ ~state'.known
    BY <1>3, <2>1, NoThings DEF HeadHolds, Adopting, EntryGoesOn
  <2>3. ASSUME Running("writing")', NEW c \in Callers, Keeps(c)' PROVE caller'[c].no # entry'.no
    <3>1. Keeps(c) /\ caller'[c].no = caller[c].no BY <2>3 DEF KeepsStay, Keeps
    <3>2. caller[c].no # entry.no BY <1>3, <2>1, <2>3, <3>1 DEF HeadHolds, Running
    <3>3. caller'[c].no # None
      BY <2>3 DEF CallersFine, Fit, Keeps, Keeping, Sourced, Claiming
    <3> QED BY <3>1, <3>2, <3>3, NoThings DEF EntryGoesOn
  <2>4. Running("writing")' => (chain'[1].kind # "append" => chain'[1].to.len > state'.cursor)
    BY <1>3, <2>1 DEF HeadHolds, Running
  <2>5. Running("repair")' /\ chain'[1].kind = "commit" /\ spent'.foreign = 0 =>
            chain'[1].src.open /\ chain'[1].src.rev = stored'.len
    BY <1>3, <2>1 DEF HeadHolds, Running, ForeignStays
  <2> QED BY <2>2, <2>3, <2>4, <2>5 DEF HeadHolds
<1> QED BY <1>1, <1>2, <1>3

\* An operation that reaches the head has not begun.
LEMMA ShiftedOps ==
    ASSUME Typed, OpsFit, Shifted
    PROVE  OpsFit' /\ HeadHolds'
<1>1. /\ Len(chain) \in Nat \ {0} /\ Len(chain') \in Nat
      /\ \A i \in Places' : i + 1 \in Places /\ i + 1 > 1 /\ chain'[i] = chain[i + 1]
  BY ShiftedPlaces DEF Places
<1>2. OpsFit' BY <1>1 DEF OpsFit
<1>3. Len(chain') > 0 => chain'[1].step \in {"queued", "dropped"}
  <2>1. Len(chain') > 0 => 1 \in Places' BY <1>1 DEF Places
  <2> QED BY <1>1, <2>1 DEF OpsFit
<1> QED BY <1>2, <1>3 DEF HeadHolds, Running, Adopting

\* The operations fit when one joins.
LEMMA JoinedOps ==
    ASSUME Typed, OpsFit, NEW op \in Ops, Joined(op), OpFits(op), op.step = "queued"
    PROVE  OpsFit'
BY JoinedPlaces DEF OpsFit

\* They fit when the first one goes on as one of its kind.
LEMMA SteppedOps ==
    ASSUME Typed, OpsFit, NEW op \in Ops, Stepped(op), OpFits(op)
    PROVE  OpsFit'
<1>1. /\ Places' = Places /\ 1 \in Places /\ chain'[1] = op
      /\ \A i \in Places : i # 1 => chain'[i] = chain[i]
  BY SteppedPlaces
<1>2. \A i \in Places' : i > 1 => chain'[i] = chain[i] BY <1>1 DEF Places
<1> QED BY <1>1, <1>2 DEF OpsFit

\* The sources still fit the log.
LEMMA FitsGrow ==
    ASSUME Typed, Typed', LogGrows, NEW s \in Sources, Fits(s)
    PROVE  Fits(s)'
BY DEF Fits, LogGrows, Typed, Logs, Sources

(***************************************************************************)
(* Steps that leave the log, the state and the session alone.               *)
(***************************************************************************)

Quiet ==
    /\ UNCHANGED <<stored, state, session, slipped>>
    /\ ForeignStays /\ KeepsStay /\ EntryGoesOn

\* Whoever moves is fine where he comes to.
FineAfter == \A d \in Callers : Like(caller'[d], caller[d]) \/ Fine(caller[d])'

\* Who claims nothing new, and changes no commit of his.
GoesOn(r, q) ==
    \/ Like(r, q)
    \/ r.stage \notin Claiming
    \/ /\ q.stage \in Claiming \ {"holding"} /\ r.stage \in Claiming \ {"holding"}
       /\ r.no = q.no /\ r.src = q.src /\ (r.stage \in Keeping => q.stage \in Keeping)

\* A step in which every caller goes on begins no claim.
LEMMA GoingOn ==
    ASSUME \A d \in Callers : GoesOn(caller'[d], caller[d])
    PROVE  ClaimsStay /\ KeepsStay
BY DEF GoesOn, Like, ClaimsStay, KeepsStay, Claiming, Keeping

\* What a bound is spent on.
LEMMA SpendEffect ==
    ASSUME Typed, NEW what \in {"events", "foreign", "evictions", "failures"}, Spend(what)
    PROVE  /\ spent' \in Spendings /\ spent'.foreign >= spent.foreign
           /\ what # "foreign" => spent'.foreign = spent.foreign
           /\ what = "foreign" => spent'.foreign > 0
BY DEF Typed, Spend, Spendings

\* Every caller is fine after a quiet step.
LEMMA QuietCallers ==
    ASSUME IInv, Typed', Quiet, FineAfter
    PROVE  CallersFine'
<1>1. LogGrows /\ EntryGoesOn /\ SessionGoesOn /\ spent'.foreign >= spent.foreign
  BY DEF Quiet, LogGrows, SessionGoesOn, ForeignStays, IInv, Typed, Sessions, Spendings, Live
<1>2. \A d \in Callers : Fine(caller[d])' BY <1>1, OthersFine DEF FineAfter, IInv
<1> QED BY <1>2, CallersFineFrom

\* What is known of the entry and of the numbers after a quiet step.
LEMMA QuietEntry ==
    ASSUME IInv, Typed', Quiet, CallersFine'
    PROVE  EntryCurrent' /\ Fits(entry.src)' /\ Counts'
<1>1. EntryCurrent'
  <2>1. CASE entry' = NoEntry BY <2>1, LeftCurrent
  <2>2. CASE entry' # NoEntry
    BY <2>2, SameCurrent DEF Quiet, EntryGoesOn, IInv
  <2> QED BY <2>1, <2>2
<1>2. Fits(entry.src)'
  BY NoThings DEF Quiet, EntryGoesOn, IInv, SourcesFit, Fits, Typed, Logs
<1>3. Counts' BY DEF Quiet, Counts, IInv
<1> QED BY <1>1, <1>2, <1>3

\* A quiet step that leaves the chain alone.
LEMMA QuietSame ==
    ASSUME IInv, Typed', Quiet, FineAfter, UNCHANGED chain, MovesFree, OneClaim'
    PROVE  IInv'
<1>1. CallersFine' BY QuietCallers
<1>2. EntryCurrent' /\ Fits(entry.src)' /\ Counts' BY <1>1, QuietEntry
<1>3. OpsFit' /\ Owns' BY DEF Quiet, OpsFit, Owns, IInv, Places
<1>4. SourcesFit' BY <1>2 DEF Quiet, SourcesFit, IInv, Places, Fits
<1>5. Answered' /\ ReadsQueued' BY SameAnswered, SameReads DEF Quiet, IInv
<1>6. HeadHolds' BY <1>1, SameHead DEF Quiet, IInv
<1> QED BY <1>1, <1>2, <1>3, <1>4, <1>5, <1>6 DEF IInv

\* The session's operations, and the sources, when an operation of another kind
\* joins the chain.
LEMMA JoinedOwns ==
    ASSUME Typed, Owns, UNCHANGED <<state, session>>, NEW op, Joined(op),
           op.kind \notin BySession
    PROVE  Owns'
<1>1. /\ Places' = Places \cup {Len(chain) + 1}
      /\ \A i \in Places : chain'[i] = chain[i]
      /\ chain'[Len(chain) + 1] = op
  BY JoinedPlaces
<1>2. \A i \in Places' : chain'[i].kind \in BySession => i \in Places /\ chain'[i] = chain[i]
  BY <1>1
<1>3. /\ session.phase = "none" <=> session.no = None
      /\ state.owner = session.no /\ (state.owner # None => state.known)
      /\ \A i, j \in Places :
            chain[i].kind \in BySession /\ chain[j].kind \in BySession => i = j
  BY DEF Owns
<1>4. \A i \in Places :
            /\ chain[i].kind \in BySession => session.no # None
            /\ chain[i].kind = "suffix" => session.init = "running"
            /\ chain[i].kind \in {"write", "forget"} => session.init = "ready"
            /\ chain[i].kind = "forget" =>
                    session.phase = "retiring" /\ session.written = session.len
            /\ chain[i].kind \in {"write", "suffix"} => chain[i].to.len > session.written
  BY DEF Owns
<1> QED BY <1>2, <1>3, <1>4 DEF Owns, BySession

\* The sources fit when an operation joins whose source does.
LEMMA JoinedSources ==
    ASSUME Typed, SourcesFit, UNCHANGED stored, NEW op, Joined(op), Fits(op.src),
           Fits(entry.src)'
    PROVE  SourcesFit'
<1>1. \A i \in Places' : Fits(chain'[i].src) BY JoinedPlaces DEF SourcesFit
<1> QED BY <1>1 DEF SourcesFit, Fits

\* A quiet step that puts a caller's operation on the chain.
LEMMA QuietJoined ==
    ASSUME IInv, Typed', Quiet, FineAfter, MovesFree, OneClaim',
           NEW op \in Ops, Joined(op), OpFits(op), op.step = "queued", Fits(op.src),
           op.kind \in ByCaller, caller[op.by].stage \notin Awaits,
           caller'[op.by].stage = Awaited(op.kind),
           op.kind = "commit" =>
                /\ caller'[op.by].src = op.src
                /\ entry'.phase \notin {"none", "loading"} /\ caller'[op.by].no = entry'.no
    PROVE  IInv'
<1>1. CallersFine' BY QuietCallers
<1>2. EntryCurrent' /\ Fits(entry.src)' /\ Counts' BY <1>1, QuietEntry
<1>3. /\ Len(chain) \in Nat /\ Places' = Places \cup {Len(chain) + 1}
      /\ Len(chain) + 1 \notin Places
      /\ \A i \in Places : chain'[i] = chain[i]
      /\ chain'[Len(chain) + 1] = op
  BY JoinedPlaces DEF IInv
<1>4. OpsFit' BY JoinedOps DEF IInv
<1>5. Owns' BY JoinedOwns DEF Quiet, IInv, ByCaller, BySession
<1>6. SourcesFit' BY <1>2, JoinedSources DEF Quiet, IInv
<1>7. op.by \in Callers /\ op.kind # "load" BY DEF OpFits, ByCaller
<1>8. Answered' BY <1>7, JoinedAnswered DEF IInv
<1>9. ReadsQueued' BY <1>7, JoinedReads DEF Quiet, IInv
<1>10. HeadHolds'
  <2>1. Len(chain) > 0 => Len(chain') > 0 /\ chain'[1] = chain[1]
    BY <1>3 DEF Joined, Places
  <2>2. Len(chain) = 0 => chain'[1].step = "queued" BY <1>3
  <2> QED BY <1>1, <2>1, <2>2, SameHead DEF Quiet, IInv
<1> QED BY <1>1, <1>2, <1>4, <1>5, <1>6, <1>8, <1>9, <1>10 DEF IInv

\* The session's operations on a chain that shifts.
LEMMA ShiftedOwns ==
    ASSUME Typed, Owns, Shifted
    PROVE  /\ \A i, j \in Places' :
                chain'[i].kind \in BySession /\ chain'[j].kind \in BySession => i = j
           /\ \A i \in Places' :
                /\ chain'[i].kind \in BySession => session.no # None
                /\ chain'[i].kind = "suffix" => session.init = "running"
                /\ chain'[i].kind \in {"write", "forget"} => session.init = "ready"
                /\ chain'[i].kind = "forget" =>
                        session.phase = "retiring" /\ session.written = session.len
                /\ chain'[i].kind \in {"write", "suffix"} => chain'[i].to.len > session.written
           /\ chain[1].kind \in BySession => \A i \in Places' : chain'[i].kind \notin BySession
<1>1. /\ Len(chain) \in Nat \ {0} /\ Len(chain') \in Nat /\ 1 \in Places
      /\ \A i \in Places' : i + 1 \in Places /\ i + 1 # 1 /\ chain'[i] = chain[i + 1]
  BY ShiftedPlaces DEF Places
<1>2. ASSUME NEW i \in Places', NEW j \in Places', chain'[i].kind \in BySession,
             chain'[j].kind \in BySession
      PROVE  i = j
  <2>1. i + 1 = j + 1 BY <1>1, <1>2 DEF Owns
  <2> QED BY <1>1, <2>1 DEF Places
<1>3. \A i \in Places' :
                /\ chain'[i].kind \in BySession => session.no # None
                /\ chain'[i].kind = "suffix" => session.init = "running"
                /\ chain'[i].kind \in {"write", "forget"} => session.init = "ready"
                /\ chain'[i].kind = "forget" =>
                        session.phase = "retiring" /\ session.written = session.len
                /\ chain'[i].kind \in {"write", "suffix"} => chain'[i].to.len > session.written
  BY <1>1 DEF Owns
<1>4. chain[1].kind \in BySession => \A i \in Places' : chain'[i].kind \notin BySession
  BY <1>1 DEF Owns
<1> QED BY <1>2, <1>3, <1>4

\* A source fits the log after the step.
FitsThen(s) == s.rev <= stored'.len /\ (s.rev = stored'.len => s.open = stored'.open)

\* The sources of the operations on a chain that shifts.
LEMMA ShiftedSources ==
    ASSUME IInv, Typed', Shifted, LogGrows
    PROVE  \A i \in Places' : FitsThen(chain'[i].src)
<1>1. \A i \in Places' : i + 1 \in Places /\ chain'[i] = chain[i + 1]
  BY ShiftedPlaces DEF IInv
<1>2. \A i \in Places : Fits(chain[i].src) /\ chain[i].src \in Sources
  BY ChainTyped DEF IInv, SourcesFit, Ops
<1>3. ASSUME NEW s \in Sources, Fits(s) PROVE FitsThen(s)
  BY <1>3, FitsGrow DEF IInv, Fits, FitsThen
<1> QED BY <1>1, <1>2, <1>3

\* A quiet step that ends the first operation.
LEMMA QuietShifted ==
    ASSUME IInv, Typed', Quiet, FineAfter, Shifted, MovesHead, OneClaim',
           entry' = NoEntry \/ ~(chain[1].kind = "load" /\ chain[1].by = entry.no)
    PROVE  IInv'
<1>1. CallersFine' BY QuietCallers
<1>2. EntryCurrent' /\ Fits(entry.src)' /\ Counts' BY <1>1, QuietEntry
<1>3. OpsFit' /\ HeadHolds' BY ShiftedOps DEF IInv
<1>4. Owns' BY ShiftedOwns DEF Quiet, IInv, Owns
<1>5. SourcesFit'
  <2>1. LogGrows BY DEF Quiet, LogGrows
  <2> QED BY <1>2, <2>1, ShiftedSources DEF SourcesFit, Fits, FitsThen
<1>6. Answered' /\ ReadsQueued' BY ShiftedAnswered, ShiftedReads DEF Quiet, IInv
<1> QED BY <1>1, <1>2, <1>3, <1>4, <1>5, <1>6 DEF IInv

(***************************************************************************)
(* The reactions of a call.                                                 *)
(***************************************************************************)

\* remove: whoever was parked may look again, whether the entry goes or not.
LEMMA RemoveEffect ==
    ASSUME NEW no, NEW cs \in [Callers -> Records], Remove(no, cs)
    PROVE  /\ caller' \in [Callers -> Records]
           /\ \A d \in Callers : Like(caller'[d], cs[d])
           /\ \A d \in Callers : cs[d].stage # "parked" => caller'[d] = cs[d]
           /\ (entry.no = no /\ entry' = NoEntry) \/ (entry.no # no /\ entry' = entry)
<1>1. CASE entry.no = no
  <2>1. caller' = Settle(cs) /\ entry' = NoEntry BY <1>1 DEF Remove
  <2> QED BY <1>1, <2>1, SettleEffect
<1>2. CASE entry.no # no
  <2>1. caller' = cs /\ entry' = entry BY <1>2 DEF Remove
  <2> QED BY <1>2, <2>1 DEF Like
<1> QED BY <1>1, <1>2

\* makeReady likewise.
LEMMA MakeReadyEffect ==
    ASSUME NEW no, NEW src, NEW cs \in [Callers -> Records], MakeReady(no, src, cs)
    PROVE  /\ caller' \in [Callers -> Records]
           /\ \A d \in Callers : Like(caller'[d], cs[d])
           /\ \A d \in Callers : cs[d].stage # "parked" => caller'[d] = cs[d]
           /\ \/ entry.no = no /\ entry' = [no |-> no, phase |-> "ready", src |-> src]
              \/ entry.no # no /\ entry' = entry
<1>1. CASE entry.no = no
  <2>1. caller' = Settle(cs) /\ entry' = [no |-> no, phase |-> "ready", src |-> src]
    BY <1>1 DEF MakeReady
  <2> QED BY <1>1, <2>1, SettleEffect
<1>2. CASE entry.no # no
  <2>1. caller' = cs /\ entry' = entry BY <1>2 DEF MakeReady
  <2> QED BY <1>2, <2>1 DEF Like
<1> QED BY <1>1, <1>2

\* The types, when only entry, chain, callers and the bounds move.
LEMMA TypedFrom ==
    ASSUME Typed, UNCHANGED <<stored, state, session, slipped>>, entry' \in Entries,
           entry'.phase = "none" <=> entry'.no = None, entry'.no = None => entry' = NoEntry,
           chain' \in Seq(Ops), caller' \in [Callers -> Records], spent' \in Spendings
    PROVE  Typed'
BY DEF Typed, None, NoEntry, NoSource

\* A step of one caller that has no operation pending; the others stay, or
\* leave the place they were parked at.
Steps(c) ==
    /\ UNCHANGED <<stored, chain, state, session, spent, slipped>>
    /\ caller' \in [Callers -> Records] /\ Others(c)
    /\ caller[c].stage \notin Awaits

\* Such a step keeps the types.
LEMMA StepTyped ==
    ASSUME IInv, NEW c \in Callers, Steps(c), entry' = entry \/ entry' = NoEntry
    PROVE  Typed'
<1>1. /\ entry' \in Entries
      /\ entry'.phase = "none" <=> entry'.no = None
      /\ entry'.no = None => entry' = NoEntry
  BY NoThings DEF IInv, Typed
<1> QED BY <1>1, TypedFrom DEF IInv, Typed, Steps

\* Such a step keeps the invariant when the caller is fine where he comes to,
\* and claims nothing new; the entry stays, or goes while nobody else holds it.
LEMMA StepKeeps ==
    ASSUME IInv, NEW c \in Callers, Steps(c), Fine(caller[c])',
           GoesOn(caller'[c], caller[c]), caller'[c].stage # "holding",
           \/ entry' = entry
           \/ entry' = NoEntry /\ \A d \in Callers : d # c => caller[d].stage # "holding"
    PROVE  IInv'
<1>1. Typed' BY StepTyped
<1>2. \A d \in Callers : GoesOn(caller'[d], caller[d]) BY DEF Steps, Others, GoesOn
<1>3. ClaimsStay /\ KeepsStay BY <1>2, GoingOn
<1>4. Quiet /\ FineAfter /\ MovesFree
  BY <1>3 DEF Quiet, FineAfter, MovesFree, Steps, Others, EntryGoesOn, ForeignStays
<1>5. CallersFine' BY <1>1, <1>4, QuietCallers
<1>6. OneClaim'
  <2>1. CASE entry' = entry BY <1>3, <2>1, SameClaims DEF IInv
  <2>2. CASE entry' = NoEntry /\ \A d \in Callers : d # c => caller[d].stage # "holding"
    <3>1. \A d \in Callers : caller'[d].stage # "holding"
      BY <2>2 DEF Steps, Others, Like
    <3> QED BY <1>3, <1>5, <2>2, <3>1, LeftClaims DEF IInv
  <2> QED BY <2>1, <2>2
<1> QED BY <1>1, <1>4, <1>6, QuietSame DEF Steps

\* A call that ends in such a step.
LEMMA EndKeeps ==
    ASSUME IInv, NEW c \in Callers, Steps(c), Ended(caller'[c]), caller'[c].ahead = 0,
           caller'[c].missed > 0 => caller'[c].stage = "borrowed" /\ spent.foreign > 0,
           \/ entry' = entry
           \/ entry' = NoEntry /\ \A d \in Callers : d # c => caller[d].stage # "holding"
    PROVE  IInv'
<1>1. Typed' BY StepTyped
<1>2. spent'.foreign = spent.foreign BY DEF Steps
<1>3. Fine(caller[c])' BY <1>1, <1>2, EndedFine DEF IInv
<1>4. caller'[c].stage \notin Claiming BY DEF Ended, Claiming
<1> QED BY <1>3, <1>4, StepKeeps DEF GoesOn, Claiming

\* A claimer's entry has no other holder.
LEMMA NoOtherHolder ==
    ASSUME IInv, NEW c \in Callers, Claims(c), caller[c].no = entry.no, NEW d \in Callers, d # c
    PROVE  caller[d].stage # "holding"
BY DEF IInv, OneClaim, Claims, Claiming

\* What a call is when it begins to look for its source.
Starting(r) ==
    /\ r \in Records /\ r.call \in {"prepare", "load", "inspect"}
    /\ Fits(r.src) /\ r.missed = 0 /\ r.ahead = 0
    /\ r.from <= stored.len \/ (session.no # None /\ r.from <= session.len)
    /\ spent.foreign = 0 /\ Live => r.from <= session.len

\* One caller gets a record, and nothing else moves.
LEMMA OneSteps ==
    ASSUME IInv, NEW c \in Callers, caller[c].stage \notin Awaits, NEW r \in Records,
           caller' = [caller EXCEPT ![c] = r],
           UNCHANGED <<stored, chain, state, session, spent, slipped>>
    PROVE  Steps(c) /\ caller'[c] = r
BY OneCaller DEF IInv, Steps, Others, Like

\* A live session's snapshot is taken.
LEMMA SnapshotKeeps ==
    ASSUME IInv, NEW c \in Callers, Steps(c), Live, NEW r \in Records,
           r.call = "load", Starting(r), caller'[c] = Snapshot(r),
           \/ entry' = entry
           \/ entry' = NoEntry /\ \A d \in Callers : d # c => caller[d].stage # "holding"
    PROVE  IInv'
<1> DEFINE src == [NoSource EXCEPT !.rev = session.len, !.open = session.open]
<1>1. /\ src \in Sources /\ src.rev = session.len /\ session.no \in Nat
  BY DEF IInv, Typed, Sessions, Sources, NoSource, None
<1>2. "flushing" \in Stages BY DEF Stages
<1> HIDE DEF src
<1> DEFINE q == [r EXCEPT !.stage = "flushing", !.no = session.no, !.src = src]
<1>3. /\ q.stage = "flushing" /\ q.no = session.no /\ q.src = src
      /\ q.call = r.call /\ q.from = r.from /\ q.missed = r.missed /\ q.ahead = r.ahead
  BY DEF Records
<1>4. /\ caller'[c].stage = "flushing" /\ caller'[c].no = session.no /\ caller'[c].src = src
      /\ caller'[c].call = "load" /\ caller'[c].from = r.from
      /\ caller'[c].missed = 0 /\ caller'[c].ahead = 0
  <2>1. caller'[c] = q BY DEF Snapshot, src
  <2> HIDE DEF q
  <2> QED BY <1>3, <2>1 DEF Starting
<1> HIDE DEF q
<1>5. session.no # None BY DEF IInv, Owns, Live
<1>6. /\ stored' = stored /\ session' = session /\ spent' = spent BY DEF Steps
<1>7. session.len \in Nat /\ stored.len \in Nat /\ r.from \in Nat
  BY DEF IInv, Typed, Sessions, Logs, Records
<1>8. Fine(caller[c])'
  <2>1. Fit(caller[c])' BY <1>4 DEF Fit, Sourced, Claiming
  <2>2. Fitting(caller[c])' BY <1>4 DEF Fitting
  <2>3. Shared(caller[c])' BY <1>4 DEF Shared, Sourced, Claiming
  <2>4. Informed(caller[c])'
    BY <1>1, <1>4, <1>5, <1>6, <1>7 DEF Informed, Starting, Live, Keeping
  <2>5. Honest(caller[c])' BY <1>4 DEF Honest
  <2> QED BY <2>1, <2>2, <2>3, <2>4, <2>5 DEF Fine
<1> QED BY <1>4, <1>8, StepKeeps DEF GoesOn, Claiming

\* entryFor without an entry: a new one, and the read that fills it.
LEMMA LookFreshKeeps ==
    ASSUME IInv, NEW c \in Callers, caller[c].stage \notin Awaits, NEW r, Starting(r),
           r.call = "inspect" => r.from <= stored.len,
           entry = NoEntry, ~Live,
           entry' = [NoEntry EXCEPT !.no = Fresh, !.phase = "loading"],
           Serialize(Op("load", Fresh, NoSource, NoPosition)),
           caller' = [caller EXCEPT ![c] = [r EXCEPT !.stage = "loading", !.no = Fresh]],
           UNCHANGED <<stored, state, session, spent, slipped>>
    PROVE  IInv'
<1> DEFINE n == Fresh
           op == Op("load", n, NoSource, NoPosition)
           q == [r EXCEPT !.stage = "loading", !.no = n]
<1>1. /\ n \in Nat \ {None} /\ n # entry.no /\ n # session.no
      /\ \A d \in Callers : caller[d].no # n
      /\ \A i \in Places : chain[i].kind = "load" => chain[i].by # n
  BY FreshIsFree DEF IInv
<1> HIDE DEF n
<1>2. /\ op \in Ops /\ op.kind = "load" /\ op.by = n /\ op.src = NoSource /\ op.step = "queued"
  BY <1>1, NewOp, NoThings DEF Kinds
<1>3. /\ q \in Records /\ q.stage = "loading" /\ q.no = n /\ q.src = r.src
      /\ q.call = r.call /\ q.from = r.from /\ q.missed = r.missed /\ q.ahead = r.ahead
  BY <1>1 DEF Records, Starting, Stages
<1>4. /\ entry' \in Entries /\ entry'.no = n /\ entry'.phase = "loading"
      /\ entry'.src = NoSource
  BY <1>1 DEF NoEntry, Entries, Phases, NoSource, Sources, None, n
<1>5. Serialize(op) /\ caller' = [caller EXCEPT ![c] = q] BY DEF n
<1> HIDE DEF op, q
<1>6. Joined(op) BY <1>2, <1>5, SerializeEffect DEF IInv
<1>7. /\ caller' \in [Callers -> Records] /\ caller'[c] = q
      /\ \A d \in Callers : d # c => caller'[d] = caller[d]
  BY <1>3, <1>5, OneCaller DEF IInv
<1>8. Typed'
  <2>1. chain' \in Seq(Ops) BY <1>6 DEF Joined
  <2> QED BY <1>1, <1>4, <1>7, <2>1, TypedFrom DEF IInv, Typed
<1>9. CallersFine'
  <2>1. ASSUME NEW d \in Callers, d # c PROVE Fine(caller[d])'
    <3>1. Fine(caller[d]) /\ caller'[d] = caller[d] /\ caller'[d].no # n
      BY <1>1, <1>7, <2>1 DEF IInv, CallersFine, Fine
    <3>2. Shared(caller[d])' BY <1>4, <3>1 DEF Shared
    <3> QED BY <3>1, <3>2 DEF Fine, Fitting, Fits, Informed, Live, Honest
  <2>2. Fine(caller[c])'
    <3>1. Fit(caller[c])' BY <1>1, <1>3, <1>7 DEF Fit, Sourced, Claiming, Starting
    <3>2. Fitting(caller[c])' BY <1>3, <1>7 DEF Fitting, Starting, Fits
    <3>3. Shared(caller[c])' BY <1>3, <1>7 DEF Shared, Sourced, Claiming
    <3>4. Informed(caller[c])' BY <1>3, <1>7 DEF Informed, Starting, Keeping, Live
    <3>5. Honest(caller[c])' BY <1>3, <1>7 DEF Honest, Starting
    <3> QED BY <3>1, <3>2, <3>3, <3>4, <3>5 DEF Fine
  <2>3. \A d \in Callers : Fine(caller[d])' BY <2>1, <2>2
  <2> QED BY <2>3, CallersFineFrom
<1>10. OpsFit'
  <2>1. OpFits(op) BY <1>1, <1>2 DEF OpFits, ByCaller
  <2> QED BY <1>2, <1>6, <2>1, JoinedOps DEF IInv
<1>11. SourcesFit'
  <2>1. Fits(NoSource) /\ Fits(entry.src)' BY <1>4, NoThings DEF Fits, IInv, Typed, Logs
  <2> QED BY <1>2, <1>6, <2>1, JoinedSources DEF IInv
<1>12. MovesFree BY <1>7 DEF MovesFree, Like
<1>13. Answered' BY <1>2, <1>6, <1>12, JoinedAnswered DEF IInv, ByCaller
<1>14. \A d \in Callers : Claims(d)' => Claims(d) /\ caller'[d] = caller[d] /\ caller'[d].no # n
  BY <1>1, <1>3, <1>7 DEF Claims, Claiming
<1>15. OneClaim'
  <2>1. \A d \in Callers : caller[d].stage # "holding"
    BY NoThings DEF IInv, OneClaim, CallersFine, Fit, Sourced, Claiming
  <2>2. \A d \in Callers : caller'[d].stage # "holding" BY <1>3, <1>7, <2>1
  <2> QED BY <1>4, <1>14, <2>2 DEF OneClaim, IInv
<1>16. /\ Len(chain) \in Nat /\ Places' = Places \cup {Len(chain) + 1}
       /\ Len(chain) + 1 \notin Places
       /\ \A i \in Places : chain'[i] = chain[i]
       /\ chain'[Len(chain) + 1] = op
  BY <1>6, JoinedPlaces DEF IInv
<1>17. ReadsQueued'
  <2>1. \A i, j \in Places' :
            chain'[i].kind = "load" /\ chain'[j].kind = "load" /\ chain'[i].by = chain'[j].by => i = j
    BY <1>1, <1>2, <1>16 DEF IInv, ReadsQueued
  <2>2. \A i \in Places' : Commits(i)' => i < Len(chain) + 1
    <3>1. \A i \in Places : i < Len(chain) + 1 BY <1>16 DEF Places
    <3>2. \A i \in Places' : Commits(i)' => i # Len(chain) + 1
      BY <1>2, <1>16 DEF Commits
    <3> QED BY <1>16, <3>1, <3>2
  <2> QED BY <1>2, <1>4, <1>16, <2>1, <2>2 DEF ReadsQueued
<1>18. HeadHolds'
  <2>1. CASE Len(chain) = 0
    BY <1>2, <1>16, <2>1 DEF HeadHolds, Running, Adopting
  <2>2. CASE Len(chain) > 0
    <3>1. Len(chain') > 0 /\ chain'[1] = chain[1] BY <1>6, <1>16, <2>2 DEF Joined, Places
    <3>2. \A d \in Callers : Keeps(d)' => caller'[d].no # entry'.no
      BY <1>4, <1>14 DEF Keeps, Claims, Keeping, Claiming
    <3> QED BY <1>4, <2>2, <3>1, <3>2 DEF IInv, HeadHolds, Running, Adopting
  <2> QED BY <1>16, <2>1, <2>2
<1>19. Owns' BY <1>2, <1>6, JoinedOwns DEF IInv, BySession
<1>20. Counts' BY DEF IInv, Counts
<1>21. EntryCurrent' BY <1>4, <1>14 DEF EntryCurrent, Keeps, Claims, Keeping, Claiming
<1> QED
  BY <1>8, <1>9, <1>10, <1>11, <1>13, <1>15, <1>17, <1>18, <1>19, <1>20, <1>21 DEF IInv

\* A call that found an entry waits for its read, or has its source.
LEMMA LookFoundKeeps ==
    ASSUME IInv, NEW c \in Callers, caller[c].stage \notin Awaits, NEW r, Starting(r),
           r.call = "inspect" => r.from <= stored.len,
           entry # NoEntry, UNCHANGED <<entry, chain>>,
           caller' = [caller EXCEPT ![c] = [r EXCEPT
                !.stage = IF entry.phase = "loading" THEN "loading" ELSE "loaded",
                !.no = entry.no, !.src = entry.src]],
           UNCHANGED <<stored, state, session, spent, slipped>>
    PROVE  IInv'
<1> DEFINE s == IF entry.phase = "loading" THEN "loading" ELSE "loaded"
           q == [r EXCEPT !.stage = s, !.no = entry.no, !.src = entry.src]
<1>1. entry.no \in Nat /\ entry.src \in Sources /\ entry.no # None
  BY DEF IInv, Typed, Entries
<1>2. s \in Stages /\ s \in {"loading", "loaded"} BY DEF Stages
<1>3. s = "loaded" => entry.phase # "loading" OBVIOUS
<1> HIDE DEF s
<1>4. /\ q \in Records /\ q.stage = s /\ q.no = entry.no /\ q.src = entry.src
      /\ q.call = r.call /\ q.from = r.from /\ q.missed = r.missed /\ q.ahead = r.ahead
  BY <1>1, <1>2 DEF Records, Starting
<1>5. caller' = [caller EXCEPT ![c] = q] BY DEF s
<1> HIDE DEF q
<1>6. Steps(c) /\ caller'[c] = q BY <1>4, <1>5, OneSteps
<1>7. Fine(caller[c])'
  <2>1. Fit(caller[c])' BY <1>1, <1>2, <1>4, <1>6 DEF Fit, Sourced, Claiming, Starting
  <2>2. Fitting(caller[c])' BY <1>4, <1>6 DEF Fitting, Fits, IInv, SourcesFit
  <2>3. Shared(caller[c])' BY <1>2, <1>3, <1>4, <1>6 DEF Shared, Sourced, Claiming
  <2>4. Informed(caller[c])' BY <1>2, <1>4, <1>6 DEF Informed, Starting, Keeping, Live
  <2>5. Honest(caller[c])' BY <1>4, <1>6 DEF Honest, Starting
  <2> QED BY <2>1, <2>2, <2>3, <2>4, <2>5 DEF Fine
<1> QED BY <1>2, <1>4, <1>6, <1>7, StepKeeps DEF GoesOn, Claiming

\* A call is rejected, and nothing else moves.
LEMMA RejectKeeps ==
    ASSUME IInv, NEW c \in Callers, caller[c].stage \notin Awaits, caller' = Rejects(c),
           UNCHANGED <<stored, entry, chain, state, session, spent, slipped>>
    PROVE  IInv'
<1>1. Steps(c) BY RejectsEffect DEF IInv, Steps, Others, Like
<1> QED BY <1>1, RejectsEffect, EndKeeps DEF IInv

\* The look at the live session and at the entry.
LEMMA LookKeeps ==
    ASSUME IInv, NEW c \in Callers, caller[c].stage \notin Awaits, NEW r, Starting(r),
           r.call = "inspect" => r.from <= stored.len \/ Live,
           Look(c, r), UNCHANGED <<stored, state, session, spent, slipped>>
    PROVE  IInv'
<1>1. CASE Live /\ r.call = "prepare" BY <1>1, RejectKeeps DEF Look, Rejects
<1>2. CASE Live /\ r.call = "inspect"
  <2> DEFINE q == Returns(r, session.len, "borrowed")
  <2>1. caller' = [caller EXCEPT ![c] = q] /\ UNCHANGED <<entry, chain>>
    BY <1>2 DEF Look
  <2>2. /\ q \in Records /\ q.stage = "borrowed" /\ Ended(q) /\ q.ahead = 0
        /\ q.missed = IF r.from > session.len THEN r.from - session.len ELSE 0
    BY <1>2, ReturnedRecord DEF IInv, Typed, Sessions, Starting
  <2> HIDE DEF q
  <2>3. Steps(c) /\ caller'[c] = q BY <2>1, <2>2, OneSteps
  <2>4. q.missed > 0 => spent.foreign > 0
    BY <1>2, <2>2 DEF Starting, IInv, Typed, Spendings, Sessions, Records
  <2> QED BY <2>1, <2>2, <2>3, <2>4, EndKeeps
<1>3. CASE Live /\ r.call = "load"
  <2>1. caller' = [caller EXCEPT ![c] = Snapshot(r)] /\ UNCHANGED <<entry, chain>>
    BY <1>3 DEF Look
  <2>2. Snapshot(r) \in Records
    <3> DEFINE src == [NoSource EXCEPT !.rev = session.len, !.open = session.open]
    <3>1. src \in Sources /\ session.no \in Nat
      BY DEF IInv, Typed, Sessions, Sources, NoSource, None
    <3> HIDE DEF src
    <3>2. [r EXCEPT !.stage = "flushing", !.no = session.no, !.src = src] \in Records
      BY <3>1 DEF Records, Stages, Starting
    <3> QED BY <3>2 DEF Snapshot, src
  <2>3. Steps(c) /\ caller'[c] = Snapshot(r) BY <2>1, <2>2, OneSteps
  <2> QED BY <1>3, <2>1, <2>3, SnapshotKeeps DEF Starting
<1>4. CASE ~Live /\ entry = NoEntry BY <1>4, LookFreshKeeps DEF Look
<1>5. CASE ~Live /\ entry # NoEntry BY <1>5, LookFoundKeeps DEF Look
<1> QED BY <1>1, <1>2, <1>3, <1>4, <1>5 DEF Starting

\* The top of the loop.
LEMMA BeginKeeps ==
    ASSUME IInv, NEW c \in Callers, caller[c].stage \notin Awaits, NEW r, Starting(r),
           r.call = "inspect" => r.from <= stored.len \/ session.phase \in {"live", "retiring"},
           Begin(c, r)
    PROVE  IInv'
<1>1. CASE ~(session.phase = "retiring" \/ r.call # "inspect")
  BY <1>1, LookKeeps DEF Begin, Live
<1>2. CASE session.phase = "retiring" \/ r.call # "inspect"
  <2> DEFINE n == IF session.phase = "retiring" THEN session.no ELSE None
             q == [r EXCEPT !.stage = "waiting", !.no = n]
  <2>1. n \in Nat /\ (session.phase = "retiring" => n = session.no)
    BY DEF IInv, Typed, Sessions, None
  <2>2. caller' = [caller EXCEPT ![c] = q] /\ UNCHANGED <<entry, chain>>
    BY <1>2 DEF Begin
  <2> HIDE DEF n
  <2>3. /\ q \in Records /\ q.stage = "waiting" /\ q.no = n /\ q.src = r.src
        /\ q.call = r.call /\ q.from = r.from /\ q.missed = r.missed /\ q.ahead = r.ahead
    BY <2>1 DEF Records, Starting, Stages
  <2> HIDE DEF q
  <2>4. Steps(c) /\ caller'[c] = q BY <2>2, <2>3, OneSteps DEF Begin
  <2>5. UNCHANGED <<stored, session, spent>> BY DEF Begin
  <2>6. Fine(caller[c])'
    <3>1. Fit(caller[c])' BY <2>3, <2>4 DEF Fit, Sourced, Claiming, Starting
    <3>2. Fitting(caller[c])' BY <2>3, <2>4, <2>5 DEF Fitting, Fits, Starting
    <3>3. Shared(caller[c])' BY <2>3, <2>4 DEF Shared, Sourced, Claiming
    <3>4. Informed(caller[c])'
      BY <1>2, <2>1, <2>3, <2>4, <2>5 DEF Informed, Starting, Keeping, Live
    <3>5. Honest(caller[c])' BY <2>3, <2>4 DEF Honest, Starting
    <3> QED BY <3>1, <3>2, <3>3, <3>4, <3>5 DEF Fine
  <2> QED BY <2>2, <2>3, <2>4, <2>6, StepKeeps DEF GoesOn, Claiming
<1> QED BY <1>1, <1>2

\* A call is made: prepare, load or inspect.
LEMMA CallKeeps ==
    ASSUME IInv, NEW c \in Callers, NEW call \in Calls, Call(c, call) PROVE IInv'
<1> DEFINE r == [Idle EXCEPT !.call = call, !.from = Accepted]
<1>1. Accepted \in Nat BY DEF Accepted, IInv, Typed, Sessions, Logs
<1>2. /\ r \in Records /\ r.call = call /\ r.from = Accepted /\ r.src = NoSource
      /\ r.missed = 0 /\ r.ahead = 0
  <2>1. call \in {"prepare", "load", "inspect"} BY CallsAssumption DEF Call
  <2> QED BY <1>1, <2>1 DEF Idle, Records, Stages, Sources, NoSource, None
<1>3. Begin(c, r) /\ caller[c].stage = "idle" BY DEF Call
<1>4. r.call \in {"prepare", "load", "inspect"} BY <1>2, CallsAssumption DEF Call
<1> HIDE DEF r
<1>5. Fits(NoSource) BY NoThings DEF Fits, IInv, Typed, Logs
<1>6. session.phase \in {"live", "retiring"} => session.no # None BY DEF IInv, Owns
<1>7. session.len \in Nat /\ stored.len \in Nat BY DEF IInv, Typed, Sessions, Logs
<1>8. Starting(r)
  BY <1>2, <1>4, <1>5, <1>6, <1>7 DEF Starting, Accepted, Live
<1>9. r.call = "inspect" => r.from <= stored.len \/ session.phase \in {"live", "retiring"}
  BY <1>2, <1>7 DEF Accepted
<1> QED BY <1>3, <1>8, <1>9, BeginKeeps DEF Awaits

\* A call that is back at the top of its loop, or that has waited.
LEMMA StartsAgain ==
    ASSUME IInv, NEW c \in Callers, caller[c].stage \in {"again", "waiting"}
    PROVE  Starting(caller[c])
<1>1. Fit(caller[c]) /\ Fitting(caller[c]) /\ Informed(caller[c]) /\ Honest(caller[c])
  BY DEF IInv, CallersFine
<1>2. caller[c] \in Records BY DEF IInv, Typed
<1> DEFINE q == caller[c]
<1>3. q \in Records /\ q.stage \in {"again", "waiting"} BY <1>2
<1>4. Fit(q) /\ Fitting(q) /\ Informed(q) /\ Honest(q) BY <1>1
<1> HIDE DEF q
<1>5. q.call \in {"prepare", "load", "inspect"} BY <1>3, <1>4 DEF Fit
<1>6. Starting(q)
  BY <1>3, <1>4, <1>5 DEF Starting, Fitting, Informed, Honest, Records
<1> QED BY <1>6 DEF q

\* A call looks again.
LEMMA RetryKeeps ==
    ASSUME IInv, NEW c \in Callers, Retry(c) PROVE IInv'
<1>1. Starting(caller[c]) BY StartsAgain DEF Retry
<1>2. caller[c].call = "inspect" => caller[c].from <= stored.len
  BY DEF Retry, IInv, CallersFine, Informed
<1> QED BY <1>1, <1>2, BeginKeeps DEF Retry, Awaits

\* A call has waited for a retirement.
LEMMA WaitedKeeps ==
    ASSUME IInv, NEW c \in Callers, Waited(c) PROVE IInv'
<1> DEFINE mine == caller[c].no # None /\ session.no = caller[c].no
           r == [caller[c] EXCEPT !.no = None]
<1>1. Starting(caller[c]) BY StartsAgain DEF Waited
<1>2. UNCHANGED <<stored, state, session, spent, slipped>> /\ caller[c].stage \notin Awaits
  BY DEF Waited, Awaits
<1>3. CASE mine /\ session.phase = "stuck"
  BY <1>2, <1>3, RejectKeeps DEF Waited
<1>4. CASE ~(mine /\ session.phase = "stuck")
  <2>1. ~(mine /\ session.phase = "retiring") /\ Look(c, r) BY <1>4 DEF Waited
  <2>2. /\ r \in Records /\ r.call = caller[c].call /\ r.src = caller[c].src
        /\ r.from = caller[c].from /\ r.missed = caller[c].missed /\ r.ahead = caller[c].ahead
    BY <1>1 DEF Starting, Records, None
  <2> HIDE DEF r
  <2>3. Starting(r) BY <1>1, <2>2 DEF Starting
  <2>4. r.call = "inspect" => r.from <= stored.len
    BY <1>4, <2>1, <2>2 DEF IInv, CallersFine, Informed, Owns
  <2> QED BY <1>2, <2>1, <2>3, <2>4, LookKeeps
<1> QED BY <1>3, <1>4

\* A call goes back to the top of its loop.
LEMMA AgainKeeps ==
    ASSUME IInv, NEW c \in Callers, Steps(c), caller'[c] = Retries(c)[c],
           caller[c].stage \notin {"waiting", "borrowed"},
           caller[c].call \in {"prepare", "load", "inspect"},
           \/ entry' = entry
           \/ entry' = NoEntry /\ \A d \in Callers : d # c => caller[d].stage # "holding"
    PROVE  IInv'
<1> DEFINE q == caller[c]
           r == caller'[c]
<1>1. /\ r.stage = "again" /\ r.call = q.call /\ r.no = None /\ r.src = NoSource
      /\ r.from = q.from /\ r.missed = q.missed /\ r.ahead = q.ahead
  BY RetriesEffect DEF IInv
<1>2. q \in Records /\ Fit(q) /\ Informed(q) /\ Honest(q) BY DEF IInv, Typed, CallersFine
<1>3. q.stage \notin {"waiting", "borrowed"} /\ q.call \in {"prepare", "load", "inspect"}
  OBVIOUS
<1>4. UNCHANGED <<stored, session, spent>> BY DEF Steps
<1> HIDE DEF q, r
<1>5. Fit(r) BY <1>1, <1>3 DEF Fit, Sourced, Claiming
<1>6. Fits(NoSource) BY NoThings DEF Fits, IInv, Typed, Logs
<1>7. Informed(r) BY <1>1, <1>2, <1>3 DEF Informed, Keeping
<1>8. r.missed = 0 /\ r.ahead = 0 BY <1>1, <1>2, <1>3 DEF Honest, Records
<1>9. Fine(caller[c])'
  BY <1>1, <1>4, <1>5, <1>6, <1>7, <1>8
  DEF Fine, Fit, Fitting, Fits, Shared, Sourced, Claiming, Informed, Live, Keeping, Honest, r
<1> QED BY <1>1, <1>9, StepKeeps DEF GoesOn, Claiming, r

\* A caller that has a source goes to another stage with it.
LEMMA SetFine ==
    ASSUME IInv, NEW c \in Callers, caller[c].stage \in Sourced, NEW s \in Sourced,
           caller' = Set(c, s), s \in Claiming => caller[c].stage \in Claiming,
           s \in {"loaded", "parked"} => caller[c].stage \in {"loaded", "parked"},
           s \in {"checking", "current", "stale"} => caller[c].call = "inspect",
           s \in Keeping \cup {"current"} => caller[c].from <= Length(caller[c].src),
           UNCHANGED <<stored, session>>, ForeignStays,
           entry'.no = entry.no, entry'.src = entry.src,
           entry'.phase = "loading" => entry.phase = "loading"
    PROVE  Fine(caller[c])' /\ Fits(caller[c].src)
<1> DEFINE q == caller[c]
           r == caller'[c]
<1>1. /\ r.stage = s /\ r.call = q.call /\ r.no = q.no /\ r.src = q.src
      /\ r.from = q.from /\ r.missed = q.missed /\ r.ahead = q.ahead
  BY SetEffect DEF IInv, Sourced, Claiming, Stages
<1>2. /\ q \in Records /\ Fit(q) /\ Fitting(q) /\ Shared(q) /\ Informed(q) /\ Honest(q)
  BY DEF IInv, Typed, CallersFine
<1>3. /\ q.stage \in Sourced /\ (s \in Claiming => q.stage \in Claiming)
      /\ (s \in {"loaded", "parked"} => q.stage \in {"loaded", "parked"})
      /\ (s \in {"checking", "current", "stale"} => q.call = "inspect")
      /\ (s \in Keeping \cup {"current"} => q.from <= Length(q.src))
  OBVIOUS
<1>4. spent'.foreign = spent.foreign BY DEF ForeignStays
<1> HIDE DEF q, r
<1>5. Fit(r) BY <1>1, <1>2, <1>3 DEF Fit, Sourced, Claiming
<1>6. Fits(q.src) BY <1>2, <1>3 DEF Fitting, Sourced, Claiming
<1>7. r.no = entry'.no => entry'.phase # "loading" /\ r.src = entry'.src
  BY <1>1, <1>2, <1>3 DEF Shared
<1>8. Informed(r) BY <1>1, <1>2, <1>3 DEF Informed, Sourced, Claiming, Keeping, Length
<1>9. r.missed = 0 /\ r.ahead = 0 BY <1>1, <1>2, <1>3 DEF Honest, Records, Sourced, Claiming
<1>10. Fine(caller[c])'
  BY <1>1, <1>4, <1>5, <1>6, <1>7, <1>8, <1>9
  DEF Fine, Fit, Fitting, Fits, Shared, Informed, Live, Length, Honest, r
<1> QED BY <1>6, <1>10 DEF q

\* Removing an entry, as a step of the caller whose record changes.
LEMMA RemoveSteps ==
    ASSUME IInv, NEW c \in Callers, caller[c].stage \notin Awaits, NEW no,
           NEW cs \in [Callers -> Records], \A d \in Callers : d # c => cs[d] = caller[d],
           cs[c].stage # "parked", Remove(no, cs),
           UNCHANGED <<stored, chain, state, session, spent, slipped>>,
           no = entry.no => \A d \in Callers : d # c => caller[d].stage # "holding"
    PROVE  /\ Steps(c) /\ caller'[c] = cs[c]
           /\ \/ entry' = entry
              \/ entry' = NoEntry /\ \A d \in Callers : d # c => caller[d].stage # "holding"
<1>1. /\ caller' \in [Callers -> Records]
      /\ \A d \in Callers : Like(caller'[d], cs[d])
      /\ \A d \in Callers : cs[d].stage # "parked" => caller'[d] = cs[d]
      /\ (entry.no = no /\ entry' = NoEntry) \/ (entry.no # no /\ entry' = entry)
  BY RemoveEffect
<1>2. Steps(c) /\ caller'[c] = cs[c] BY <1>1 DEF Steps, Others
<1> QED BY <1>1, <1>2

\* Whoever keeps a commit of the entry returns a view that misses nothing and
\* is stored.
LEMMA KeptView ==
    ASSUME IInv, NEW c \in Callers, Keeps(c), caller[c].no = entry.no
    PROVE  LET cs == Ends(c, Length(caller[c].src))
           IN  /\ cs \in [Callers -> Records]
               /\ \A d \in Callers : d # c => cs[d] = caller[d]
               /\ Ended(cs[c]) /\ cs[c].missed = 0 /\ cs[c].ahead = 0
<1> DEFINE view == Length(caller[c].src)
           r == Returns(caller[c], view, "done")
<1>1. caller[c] \in Records /\ caller[c].from \in Nat /\ stored.len \in Nat
  BY DEF IInv, Typed, Records, Logs
<1>2. view \in Nat BY <1>1 DEF Length, Records, Sources
<1>3. caller[c].from <= view BY DEF IInv, CallersFine, Informed, Keeps
<1>4. view <= stored.len BY DEF IInv, EntryCurrent, Committed, Counts
<1> HIDE DEF view
<1>5. /\ r \in Records /\ Ended(r)
      /\ r.missed = IF caller[c].from > view THEN caller[c].from - view ELSE 0
      /\ r.ahead = IF caller[c].call \in {"prepare", "load"} /\ view > stored.len
                     THEN view - stored.len ELSE 0
  BY <1>1, <1>2, ReturnedRecord DEF IInv
<1> HIDE DEF r
<1>6. r.missed = 0 /\ r.ahead = 0 BY <1>1, <1>2, <1>3, <1>4, <1>5
<1>7. Ends(c, view) = [caller EXCEPT ![c] = r] BY DEF Ends, r
<1>8. LET cs == Ends(c, view)
      IN  /\ cs \in [Callers -> Records] /\ cs[c] = r
          /\ \A d \in Callers : d # c => cs[d] = caller[d]
  BY <1>5, <1>7, OneCaller DEF IInv
<1> QED BY <1>5, <1>6, <1>8 DEF view

\* A view is returned while nothing else moves.
LEMMA ReturnKeeps ==
    ASSUME IInv, NEW c \in Callers, caller[c].stage \notin Awaits,
           NEW view \in Nat, NEW stage \in {"done", "borrowed"},
           caller' = [caller EXCEPT ![c] = Returns(caller[c], view, stage)],
           UNCHANGED <<stored, entry, chain, state, session, spent, slipped>>,
           caller[c].from > view => stage = "borrowed" /\ spent.foreign > 0,
           caller[c].call \in {"prepare", "load"} => view <= stored.len
    PROVE  IInv'
<1> DEFINE r == Returns(caller[c], view, stage)
<1>1. caller[c] \in Records /\ caller[c].from \in Nat /\ stored.len \in Nat
  BY DEF IInv, Typed, Records, Logs
<1>2. /\ r \in Records /\ r.stage = stage /\ Ended(r)
      /\ r.missed = IF caller[c].from > view THEN caller[c].from - view ELSE 0
      /\ r.ahead = IF caller[c].call \in {"prepare", "load"} /\ view > stored.len
                     THEN view - stored.len ELSE 0
  BY <1>1, ReturnedRecord DEF IInv
<1> HIDE DEF r
<1>3. r.ahead = 0 BY <1>1, <1>2
<1>4. r.missed > 0 => r.stage = "borrowed" /\ spent.foreign > 0 BY <1>1, <1>2
<1>5. Steps(c) /\ caller'[c] = r BY <1>2, OneSteps DEF r
<1> QED BY <1>2, <1>3, <1>4, <1>5, EndKeeps

\* A call that was given a source begins to commit it.
LEMMA NewClaimFine ==
    ASSUME IInv, NEW c \in Callers, caller[c].stage = "loaded",
           caller[c].call \in {"prepare", "load"}, caller' = Set(c, "committing"),
           UNCHANGED <<stored, session, spent>>,
           entry'.no = entry.no, entry'.src = entry.src, entry'.phase # "loading"
    PROVE  Fine(caller[c])'
<1> DEFINE q == caller[c]
           r == caller'[c]
<1>1. /\ r.stage = "committing" /\ r.call = q.call /\ r.no = q.no /\ r.src = q.src
      /\ r.from = q.from /\ r.missed = q.missed /\ r.ahead = q.ahead
  BY SetEffect DEF IInv, Stages
<1>2. /\ q \in Records /\ Fit(q) /\ Fitting(q) /\ Shared(q) /\ Informed(q) /\ Honest(q)
  BY DEF IInv, Typed, CallersFine
<1>3. q.stage = "loaded" /\ q.call \in {"prepare", "load"} OBVIOUS
<1> HIDE DEF q, r
<1>4. Fit(r) BY <1>1, <1>2, <1>3 DEF Fit, Sourced, Claiming
<1>5. Fits(r.src) BY <1>1, <1>2, <1>3 DEF Fitting
<1>6. r.no = entry'.no => r.src = entry'.src BY <1>1, <1>2, <1>3 DEF Shared, Sourced
<1>7. Informed(r) BY <1>1, <1>2, <1>3 DEF Informed, Keeping
<1>8. r.missed = 0 /\ r.ahead = 0 BY <1>1, <1>2, <1>3 DEF Honest, Records
<1> QED
  BY <1>1, <1>4, <1>5, <1>6, <1>7, <1>8
  DEF Fine, Fit, Fitting, Fits, Shared, Informed, Live, Length, Honest, r

\* reserve: the loop around the entry.
LEMMA ReserveKeeps ==
    ASSUME IInv, NEW c \in Callers, Reserve(c) PROVE IInv'
<1>1. /\ caller[c].stage = "loaded" /\ caller[c].call \in {"prepare", "load"}
      /\ UNCHANGED <<stored, state, session, spent, slipped>>
  BY DEF Reserve
<1>2. caller[c].stage \in Sourced /\ caller[c].stage \notin Awaits /\ caller[c].no # None
  BY <1>1 DEF Sourced, Awaits, IInv, CallersFine, Fit
<1>3. CASE entry.no # caller[c].no
  <2>1. caller' = Retries(c) /\ UNCHANGED <<entry, chain>> BY <1>3 DEF Reserve
  <2>2. Steps(c) BY <1>1, <1>2, <2>1, RetriesEffect DEF IInv, Steps, Others, Like
  <2> QED BY <1>1, <2>1, <2>2, AgainKeeps
<1>4. CASE entry.no = caller[c].no /\ ~Free
  <2>1. caller' = Set(c, "parked") /\ UNCHANGED <<entry, chain>> BY <1>4 DEF Reserve
  <2>2. "parked" \in Sourced /\ "parked" \in Stages /\ "parked" \notin Claiming
        /\ "parked" \notin Keeping
    BY DEF Sourced, Stages, Claiming, Keeping
  <2>3. Steps(c) /\ caller'[c].stage = "parked"
    BY <1>1, <1>2, <2>1, <2>2, SetEffect DEF IInv, Steps, Others, Like
  <2>4. Fine(caller[c])' BY <1>1, <1>2, <2>1, <2>2, SetFine DEF ForeignStays
  <2> QED BY <2>1, <2>2, <2>3, <2>4, StepKeeps DEF GoesOn
<1>5. CASE entry.no = caller[c].no /\ Free
  <2>1. /\ entry' = [entry EXCEPT !.phase = "committing"]
        /\ caller' = [caller EXCEPT ![c].stage = "committing", ![c].src = entry.src]
        /\ Serialize(Op("commit", c, entry.src, NoPosition))
    BY <1>5 DEF Reserve
  <2>2. entry.phase = "ready" /\ entry.src \in Sources /\ entry.no \in Nat
    BY <1>5 DEF Free, IInv, Typed, Entries
  <2>3. entry.src = caller[c].src BY <1>2, <1>5 DEF IInv, CallersFine, Shared
  <2>4. caller' = Set(c, "committing")
    <3> DEFINE q == caller[c]
    <3>1. q \in Records BY DEF IInv, Typed
    <3>2. caller' = [caller EXCEPT ![c] = [q EXCEPT !.stage = "committing", !.src = entry.src]]
      BY <2>1
    <3>3. [q EXCEPT !.stage = "committing", !.src = q.src] = [q EXCEPT !.stage = "committing"]
      BY <3>1 DEF Records
    <3> QED BY <2>3, <3>2, <3>3 DEF Set
  <2>5. "committing" \in Sourced /\ "committing" \in Stages /\ "committing" \in Claiming
        /\ "committing" \notin Keeping
    BY DEF Sourced, Stages, Claiming, Keeping
  <2>6. /\ caller' \in [Callers -> Records]
        /\ \A d \in Callers : d # c => caller'[d] = caller[d]
        /\ caller'[c].stage = "committing" /\ caller'[c].no = caller[c].no
        /\ caller'[c].src = caller[c].src
    BY <2>4, <2>5, SetEffect DEF IInv
  <2>7. /\ entry' \in Entries /\ entry'.no = entry.no /\ entry'.phase = "committing"
        /\ entry'.src = entry.src
    BY <2>1 DEF IInv, Typed, Entries, Phases
  <2> DEFINE op == Op("commit", c, entry.src, NoPosition)
  <2>8. /\ op \in Ops /\ op.kind = "commit" /\ op.by = c /\ op.src = entry.src
        /\ op.step = "queued"
    BY <2>2, NewOp, NoThings DEF Kinds
  <2> HIDE DEF op
  <2>9. Joined(op) BY <2>1, <2>8, SerializeEffect DEF IInv, op
  <2>10. Typed'
    <3>1. chain' \in Seq(Ops) BY <2>9 DEF Joined
    <3>2. entry'.no # None BY <1>2, <1>5, <2>7
    <3> QED BY <1>1, <2>6, <2>7, <3>1, <3>2, TypedFrom DEF IInv, Typed
  <2>11. Fine(caller[c])' BY <1>1, <2>4, <2>7, NewClaimFine
  <2>12. KeepsStay BY <2>5, <2>6 DEF KeepsStay
  <2>13. Quiet BY <1>1, <2>2, <2>7, <2>12 DEF Quiet, EntryGoesOn, ForeignStays
  <2>14. FineAfter /\ MovesFree BY <1>2, <2>6, <2>11 DEF FineAfter, MovesFree, Like
  <2>15. \A d \in Callers : Claims(d) => caller[d].no # entry.no /\ caller[d].stage # "holding"
    BY <2>2 DEF IInv, OneClaim, Claims, Claiming
  <2>16. OneClaim'
    <3>1. \A d \in Callers : Claims(d)' /\ d # c =>
              Claims(d) /\ caller'[d] = caller[d] /\ caller'[d].no # entry.no
              /\ caller'[d].stage # "holding"
      BY <2>6, <2>15 DEF Claims
    <3>2. \A d \in Callers : caller'[d].stage # "holding"
      BY <2>6, <3>1 DEF Claims, Claiming
    <3>3. \A d, e \in Callers :
              Claims(d)' /\ Claims(e)' /\ caller'[d].no = caller'[e].no => d = e
      BY <1>5, <2>6, <3>1 DEF IInv, OneClaim
    <3>4. \A d \in Callers : Claims(d)' /\ caller'[d].no = entry'.no => d = c
      BY <2>7, <3>1
    <3> QED BY <2>7, <3>2, <3>3, <3>4 DEF OneClaim
  <2>17. OpFits(op) BY <2>8 DEF OpFits, ByCaller
  <2>18. Fits(op.src) /\ op.kind \in ByCaller /\ op.kind = "commit" /\ op.by = c
    BY <2>8 DEF IInv, SourcesFit, ByCaller
  <2>19. caller'[op.by].stage = Awaited(op.kind) BY <2>6, <2>18 DEF Awaited
  <2>20. /\ caller'[op.by].src = op.src /\ caller'[op.by].no = entry'.no
         /\ entry'.phase \notin {"none", "loading"} /\ caller[op.by].stage \notin Awaits
    BY <1>2, <1>5, <2>3, <2>6, <2>7, <2>8
  <2> QED
    BY <2>8, <2>9, <2>10, <2>13, <2>14, <2>16, <2>17, <2>18, <2>19, <2>20, QuietJoined
<1> QED BY <1>3, <1>4, <1>5

\* The entry is ready again with the source its claimer had, whose call ends.
LEMMA ReadyKeeps ==
    ASSUME IInv, NEW c \in Callers, Claims(c), caller[c].stage \notin Awaits,
           NEW no, no = caller[c].no, NEW src, src = caller[c].src,
           NEW cs \in [Callers -> Records], \A d \in Callers : d # c => cs[d] = caller[d],
           Ended(cs[c]), cs[c].missed = 0, cs[c].ahead = 0, MakeReady(no, src, cs),
           UNCHANGED <<stored, chain, state, session, spent, slipped>>
    PROVE  IInv'
<1>1. /\ caller' \in [Callers -> Records]
      /\ \A d \in Callers : Like(caller'[d], cs[d])
      /\ \A d \in Callers : cs[d].stage # "parked" => caller'[d] = cs[d]
      /\ \/ entry.no = no /\ entry' = [no |-> no, phase |-> "ready", src |-> src]
         \/ entry.no # no /\ entry' = entry
  BY MakeReadyEffect
<1>2. Steps(c) /\ caller'[c] = cs[c] BY <1>1 DEF Steps, Others, Ended
<1>3. CASE entry.no # no BY <1>1, <1>2, <1>3, EndKeeps
<1>4. CASE entry.no = no
  <2>1. caller[c].src = entry.src /\ caller[c].no # None
    BY <1>4 DEF IInv, CallersFine, Fit, Shared, Claims, Sourced
  <2>2. entry' = [no |-> entry.no, phase |-> "ready", src |-> entry.src]
    BY <1>1, <1>4, <2>1
  <2>3. /\ entry' \in Entries /\ entry'.no = entry.no /\ entry'.phase = "ready"
        /\ entry'.src = entry.src
    BY <2>2 DEF IInv, Typed, Entries, Phases
  <2>4. Typed'
    <3>1. entry'.no # None BY <1>4, <2>1, <2>3
    <3> QED BY <1>1, <2>3, <3>1, TypedFrom DEF IInv, Typed
  <2>5. Fine(caller[c])' BY <1>2, <2>4, EndedFine DEF IInv
  <2>6. \A d \in Callers : GoesOn(caller'[d], caller[d])
    BY <1>2 DEF GoesOn, Steps, Others, Ended, Claiming
  <2>7. ClaimsStay /\ KeepsStay BY <2>6, GoingOn
  <2>8. entry.phase \in {"committing", "reserved"} BY <1>4 DEF IInv, OneClaim
  <2>9. Quiet BY <2>3, <2>7, <2>8 DEF Quiet, EntryGoesOn, ForeignStays
  <2>10. FineAfter /\ MovesFree BY <1>2, <2>5 DEF FineAfter, MovesFree, Steps, Others
  <2>11. \A d \in Callers :
            Claims(d)' => caller'[d].no # entry.no /\ caller'[d].stage # "holding"
    <3> SUFFICES ASSUME NEW d \in Callers, Claims(d)'
                 PROVE  caller'[d].no # entry.no /\ caller'[d].stage # "holding"
      OBVIOUS
    <3>1. d # c BY <1>2 DEF Claims, Ended, Claiming
    <3>2. Claims(d) /\ caller'[d].no = caller[d].no
      BY <2>7 DEF ClaimsStay, Claims
    <3>3. caller[d].no # entry.no BY <1>4, <3>1, <3>2 DEF IInv, OneClaim
    <3>4. caller[d].stage # "holding" BY <3>3 DEF IInv, OneClaim
    <3> QED BY <2>7, <3>2, <3>3, <3>4 DEF ClaimsStay, Claims
  <2>12. OneClaim' BY <2>3, <2>7, <2>11, ReadyClaims DEF IInv
  <2> QED BY <2>4, <2>9, <2>10, <2>12, QuietSame
<1> QED BY <1>3, <1>4

\* A commit is held.
LEMMA HoldKeeps ==
    ASSUME IInv, NEW c \in Callers, caller[c].stage = "committed", entry.no = caller[c].no,
           entry' = [entry EXCEPT !.phase = "reserved"], caller' = Set(c, "holding"),
           UNCHANGED <<stored, chain, state, session, spent, slipped>>
    PROVE  IInv'
<1>1. /\ entry' \in Entries /\ entry'.no = entry.no /\ entry'.phase = "reserved"
      /\ entry'.src = entry.src
  BY DEF IInv, Typed, Entries, Phases
<1>2. /\ "holding" \in Sourced /\ "holding" \in Stages /\ "holding" \in Claiming
      /\ "holding" \in Keeping /\ caller[c].stage \in Sourced /\ caller[c].stage \in Claiming
      /\ caller[c].stage \in Keeping /\ caller[c].stage \notin Awaits
  BY DEF Sourced, Stages, Claiming, Keeping, Awaits
<1>3. /\ caller' \in [Callers -> Records]
      /\ \A d \in Callers : d # c => caller'[d] = caller[d]
      /\ caller'[c].stage = "holding" /\ caller'[c].no = caller[c].no
      /\ caller'[c].src = caller[c].src
  BY <1>2, SetEffect DEF IInv
<1>4. caller[c].no # None BY <1>2 DEF IInv, CallersFine, Fit
<1>5. Typed'
  <2>1. entry'.no # None BY <1>1, <1>4
  <2> QED BY <1>1, <1>3, <2>1, TypedFrom DEF IInv, Typed
<1>6. Fine(caller[c])'
  <2>1. caller[c].from <= Length(caller[c].src)
    BY <1>2 DEF IInv, CallersFine, Informed
  <2> QED BY <1>1, <1>2, <2>1, SetFine DEF ForeignStays
<1>7. KeepsStay BY <1>2, <1>3 DEF KeepsStay
<1>8. entry.phase = "committing" BY <1>2 DEF IInv, OneClaim, Claims
<1>9. Quiet BY <1>1, <1>7, <1>8 DEF Quiet, EntryGoesOn, ForeignStays
<1>10. FineAfter /\ MovesFree BY <1>2, <1>3, <1>6 DEF FineAfter, MovesFree, Like
<1>11. OneClaim'
  <2>1. \A d \in Callers : Claims(d)' => Claims(d) /\ caller'[d].no = caller[d].no
    BY <1>2, <1>3 DEF Claims
  <2>2. \A d \in Callers : d # c /\ Claims(d) => caller[d].no # entry.no
    BY <1>2 DEF IInv, OneClaim, Claims
  <2>3. \A d \in Callers : d # c => caller'[d].stage # "holding"
    BY <1>3, <2>2 DEF IInv, OneClaim, Claims, Claiming
  <2>4. \A d, e \in Callers :
            Claims(d)' /\ Claims(e)' /\ caller'[d].no = caller'[e].no => d = e
    BY <2>1 DEF IInv, OneClaim
  <2>5. \A d \in Callers : Claims(d)' /\ caller'[d].no = entry'.no => d = c
    BY <1>1, <2>1, <2>2
  <2> QED BY <1>1, <1>3, <2>3, <2>4, <2>5 DEF OneClaim
<1> QED BY <1>5, <1>9, <1>10, <1>11, QuietSame

\* reserve behind its commit.
LEMMA ReservedKeeps ==
    ASSUME IInv, NEW c \in Callers, Reserved(c) PROVE IInv'
<1>1. /\ caller[c].stage \in {"refused", "invalid", "committed", "aborted"}
      /\ UNCHANGED <<stored, chain, state, session, spent, slipped>>
  BY DEF Reserved
<1>2. /\ caller[c].stage \in Claiming /\ caller[c].stage \notin Awaits /\ Claims(c)
      /\ caller[c].stage \notin {"waiting", "borrowed", "parked", "holding"}
  BY <1>1 DEF Claiming, Awaits, Claims
<1>3. caller[c].call \in {"prepare", "load"} BY <1>2 DEF IInv, CallersFine, Fit
<1>4. caller[c].no = entry.no => \A d \in Callers : d # c => caller[d].stage # "holding"
  BY <1>2, NoOtherHolder
<1>5. CASE caller[c].stage = "refused"
  <2>1. Remove(caller[c].no, Rejects(c)) BY <1>5 DEF Reserved
  <2>2. /\ Rejects(c) \in [Callers -> Records] /\ Rejects(c)[c].stage = "rejected"
        /\ \A d \in Callers : d # c => Rejects(c)[d] = caller[d]
        /\ Ended(Rejects(c)[c]) /\ Rejects(c)[c].missed = 0 /\ Rejects(c)[c].ahead = 0
    BY RejectsEffect DEF IInv
  <2>3. /\ Steps(c) /\ caller'[c] = Rejects(c)[c]
        /\ \/ entry' = entry
           \/ entry' = NoEntry /\ \A d \in Callers : d # c => caller[d].stage # "holding"
    BY <1>1, <1>2, <1>4, <2>1, <2>2, RemoveSteps
  <2> QED BY <2>2, <2>3, EndKeeps
<1>6. CASE caller[c].stage = "invalid"
  <2>1. Remove(caller[c].no, Retries(c)) BY <1>6 DEF Reserved
  <2>2. /\ Retries(c) \in [Callers -> Records] /\ Retries(c)[c].stage = "again"
        /\ \A d \in Callers : d # c => Retries(c)[d] = caller[d]
    BY RetriesEffect DEF IInv
  <2>3. /\ Steps(c) /\ caller'[c] = Retries(c)[c]
        /\ \/ entry' = entry
           \/ entry' = NoEntry /\ \A d \in Callers : d # c => caller[d].stage # "holding"
    BY <1>1, <1>2, <1>4, <2>1, <2>2, RemoveSteps
  <2> QED BY <1>2, <1>3, <2>3, AgainKeeps
<1>7. CASE caller[c].stage = "aborted"
  <2>1. MakeReady(caller[c].no, caller[c].src, Rejects(c)) BY <1>7 DEF Reserved
  <2>2. /\ Rejects(c) \in [Callers -> Records] /\ Ended(Rejects(c)[c])
        /\ \A d \in Callers : d # c => Rejects(c)[d] = caller[d]
        /\ Rejects(c)[c].missed = 0 /\ Rejects(c)[c].ahead = 0
    BY RejectsEffect DEF IInv
  <2> QED BY <1>1, <1>2, <2>1, <2>2, ReadyKeeps
<1>8. CASE caller[c].stage = "committed" /\ entry.no # caller[c].no
  <2>1. caller' = Retries(c) /\ UNCHANGED entry BY <1>8 DEF Reserved
  <2>2. Steps(c) BY <1>1, <1>2, <2>1, RetriesEffect DEF IInv, Steps, Others, Like
  <2> QED BY <1>2, <1>3, <2>1, <2>2, AgainKeeps
<1>9. CASE caller[c].stage = "committed" /\ entry.no = caller[c].no /\ caller[c].call = "load"
  <2>1. Keeps(c) BY <1>9 DEF Keeps, Keeping
  <2>2. CASE Live
    <3> DEFINE q == caller[c]
               cs == [caller EXCEPT ![c] = Snapshot(q)]
    <3>1. Remove(entry.no, cs) BY <1>9, <2>2 DEF Reserved
    <3>2. Fits(q.src) /\ Informed(q) /\ Honest(q)
      BY <1>9 DEF IInv, CallersFine, Fitting
    <3>3. Starting(q)
      <4>1. q \in Records /\ q.call = "load" /\ q.stage = "committed"
        BY <1>9 DEF IInv, Typed
      <4> HIDE DEF q
      <4> QED BY <3>2, <4>1 DEF Starting, Informed, Honest, Records
    <3>4. Snapshot(q) \in Records /\ Snapshot(q).stage = "flushing"
      <4> DEFINE src == [NoSource EXCEPT !.rev = session.len, !.open = session.open]
      <4>1. src \in Sources /\ session.no \in Nat /\ q \in Records
        BY <3>3 DEF IInv, Typed, Sessions, Sources, NoSource, None, Starting
      <4> HIDE DEF src, q
      <4>2. LET s == [q EXCEPT !.stage = "flushing", !.no = session.no, !.src = src]
            IN  s \in Records /\ s.stage = "flushing"
        BY <4>1 DEF Records, Stages
      <4> QED BY <4>2 DEF Snapshot, src
    <3>5. /\ cs \in [Callers -> Records] /\ cs[c] = Snapshot(q)
          /\ \A d \in Callers : d # c => cs[d] = caller[d]
      <4> HIDE DEF q
      <4> QED BY <3>4, OneCaller DEF IInv
    <3> HIDE DEF q, cs
    <3>6. /\ Steps(c) /\ caller'[c] = Snapshot(q)
          /\ \/ entry' = entry
             \/ entry' = NoEntry /\ \A d \in Callers : d # c => caller[d].stage # "holding"
      BY <1>1, <1>2, <1>4, <1>9, <3>1, <3>4, <3>5, RemoveSteps
    <3>7. q \in Records /\ q.call = "load" BY <1>9, <3>3 DEF Starting, q
    <3> QED BY <2>2, <3>3, <3>6, <3>7, SnapshotKeeps
  <2>3. CASE ~Live
    <3> DEFINE cs == Ends(c, Length(caller[c].src))
    <3>1. Remove(entry.no, cs) BY <1>9, <2>3 DEF Reserved
    <3>2. /\ cs \in [Callers -> Records]
          /\ \A d \in Callers : d # c => cs[d] = caller[d]
          /\ Ended(cs[c]) /\ cs[c].missed = 0 /\ cs[c].ahead = 0
      BY <1>9, <2>1, KeptView
    <3> HIDE DEF cs
    <3>3. cs[c].stage # "parked" BY <3>2 DEF Ended
    <3>4. /\ Steps(c) /\ caller'[c] = cs[c]
          /\ \/ entry' = entry
             \/ entry' = NoEntry /\ \A d \in Callers : d # c => caller[d].stage # "holding"
      BY <1>1, <1>2, <1>4, <1>9, <3>1, <3>2, <3>3, RemoveSteps
    <3> QED BY <3>2, <3>4, EndKeeps
  <2> QED BY <2>2, <2>3
<1>10. CASE caller[c].stage = "committed" /\ entry.no = caller[c].no /\ caller[c].call # "load"
            /\ Live
  <2>1. Remove(entry.no, Rejects(c)) BY <1>10 DEF Reserved
  <2>2. /\ Rejects(c) \in [Callers -> Records] /\ Rejects(c)[c].stage = "rejected"
        /\ \A d \in Callers : d # c => Rejects(c)[d] = caller[d]
        /\ Ended(Rejects(c)[c]) /\ Rejects(c)[c].missed = 0 /\ Rejects(c)[c].ahead = 0
    BY RejectsEffect DEF IInv
  <2>3. /\ Steps(c) /\ caller'[c] = Rejects(c)[c]
        /\ \/ entry' = entry
           \/ entry' = NoEntry /\ \A d \in Callers : d # c => caller[d].stage # "holding"
    BY <1>1, <1>2, <1>4, <1>10, <2>1, <2>2, RemoveSteps
  <2> QED BY <2>2, <2>3, EndKeeps
<1>11. CASE caller[c].stage = "committed" /\ entry.no = caller[c].no /\ caller[c].call # "load"
            /\ ~Live
  BY <1>1, <1>11, HoldKeeps DEF Reserved
<1> QED BY <1>1, <1>5, <1>6, <1>7, <1>8, <1>9, <1>10, <1>11

\* The holder's release.
LEMMA ReleaseKeeps ==
    ASSUME IInv, NEW c \in Callers, NEW reusable \in BOOLEAN, Release(c, reusable) PROVE IInv'
<1> DEFINE cs == Ends(c, Length(caller[c].src))
<1>1. /\ caller[c].stage = "holding" /\ entry.no = caller[c].no
      /\ UNCHANGED <<stored, chain, state, session, spent, slipped>>
  BY DEF Release
<1>2. Keeps(c) /\ Claims(c) /\ caller[c].stage \notin Awaits
  BY <1>1 DEF Keeps, Keeping, Claims, Claiming, Awaits
<1>3. /\ cs \in [Callers -> Records]
      /\ \A d \in Callers : d # c => cs[d] = caller[d]
      /\ Ended(cs[c]) /\ cs[c].missed = 0 /\ cs[c].ahead = 0
  BY <1>1, <1>2, KeptView
<1>4. IF reusable THEN MakeReady(entry.no, entry.src, cs) ELSE Remove(entry.no, cs)
  BY DEF Release
<1> HIDE DEF cs
<1>5. CASE reusable
  <2>1. entry.src = caller[c].src
    BY <1>1, <1>2 DEF IInv, CallersFine, Shared, Claims, Sourced
  <2> QED BY <1>1, <1>2, <1>3, <1>4, <1>5, <2>1, ReadyKeeps
<1>6. CASE ~reusable
  <2>1. cs[c].stage # "parked" BY <1>3 DEF Ended
  <2>2. \A d \in Callers : d # c => caller[d].stage # "holding" BY <1>1, <1>2, NoOtherHolder
  <2>3. /\ Steps(c) /\ caller'[c] = cs[c]
        /\ \/ entry' = entry
           \/ entry' = NoEntry /\ \A d \in Callers : d # c => caller[d].stage # "holding"
    BY <1>1, <1>2, <1>3, <1>4, <1>6, <2>1, <2>2, RemoveSteps
  <2> QED BY <1>3, <2>3, EndKeeps
<1> QED BY <1>5, <1>6

\* inspect behind the source.
LEMMA InspectKeeps ==
    ASSUME IInv, NEW c \in Callers, Inspect(c) PROVE IInv'
<1>1. /\ caller[c].stage = "loaded" /\ caller[c].call = "inspect"
      /\ UNCHANGED <<stored, entry, state, session, spent, slipped>>
      /\ caller[c].stage \in Sourced /\ caller[c].stage \notin Awaits
  BY DEF Inspect, Sourced, Awaits
<1>2. CASE Live
  <2>1. /\ caller' = [caller EXCEPT ![c] = Returns(caller[c], session.len, "borrowed")]
        /\ UNCHANGED chain
    BY <1>2 DEF Inspect, Borrows
  <2>2. session.len \in Nat /\ caller[c].from \in Nat
    BY DEF IInv, Typed, Sessions, Records
  <2>3. caller[c].from > session.len => spent.foreign > 0
    <3>1. spent.foreign = 0 => caller[c].from <= session.len
      BY <1>1, <1>2 DEF IInv, CallersFine, Informed
    <3> QED BY <2>2, <3>1 DEF IInv, Typed, Spendings
  <2> QED BY <1>1, <2>1, <2>2, <2>3, ReturnKeeps
<1>3. CASE ~Live
  <2> DEFINE op == Op("check", c, caller[c].src, NoPosition)
  <2>1. caller' = Set(c, "checking") /\ Serialize(op) BY <1>3 DEF Inspect
  <2>2. caller[c].src \in Sources BY DEF IInv, Typed, Records
  <2>3. /\ op \in Ops /\ op.kind = "check" /\ op.by = c /\ op.src = caller[c].src
        /\ op.step = "queued"
    BY <2>2, NewOp, NoThings DEF Kinds
  <2> HIDE DEF op
  <2>4. /\ "checking" \in Sourced /\ "checking" \in Stages /\ "checking" \notin Claiming
        /\ "checking" \notin Keeping \cup {"current"}
    BY DEF Sourced, Stages, Claiming, Keeping
  <2>5. /\ caller' \in [Callers -> Records] /\ caller'[c].stage = "checking"
        /\ \A d \in Callers : d # c => caller'[d] = caller[d]
    BY <2>1, <2>4, SetEffect DEF IInv
  <2>6. Joined(op) BY <2>1, <2>3, SerializeEffect DEF IInv
  <2>7. Typed'
    <3>1. chain' \in Seq(Ops) BY <2>6 DEF Joined
    <3> QED BY <1>1, <2>5, <3>1, TypedFrom DEF IInv, Typed
  <2>8. Fine(caller[c])' /\ Fits(caller[c].src)
    BY <1>1, <2>1, <2>4, SetFine DEF ForeignStays
  <2>9. \A d \in Callers : GoesOn(caller'[d], caller[d])
    BY <2>4, <2>5 DEF GoesOn, Like
  <2>10. ClaimsStay /\ KeepsStay BY <2>9, GoingOn
  <2>11. Quiet BY <1>1, <2>10 DEF Quiet, EntryGoesOn, ForeignStays
  <2>12. FineAfter /\ MovesFree BY <1>1, <2>5, <2>8 DEF FineAfter, MovesFree, Like
  <2>13. OneClaim' BY <1>1, <2>10, SameClaims DEF IInv
  <2>14. OpFits(op) /\ Fits(op.src) /\ op.kind \in ByCaller /\ op.kind # "commit"
    BY <2>3, <2>8 DEF OpFits, ByCaller
  <2>15. caller[op.by].stage \notin Awaits /\ caller'[op.by].stage = Awaited(op.kind)
    BY <1>1, <2>3, <2>5 DEF Awaited
  <2> QED BY <2>3, <2>6, <2>7, <2>11, <2>12, <2>13, <2>14, <2>15, QuietJoined
<1> QED BY <1>2, <1>3

\* inspect behind its check.
LEMMA InspectedKeeps ==
    ASSUME IInv, NEW c \in Callers, Inspected(c) PROVE IInv'
<1> DEFINE len == Length(caller[c].src)
<1>1. /\ caller[c].stage \in {"current", "stale"}
      /\ UNCHANGED <<stored, chain, state, session, spent, slipped>>
  BY DEF Inspected
<1>2. /\ caller[c].stage \notin Awaits /\ caller[c].call = "inspect" /\ caller[c].no # None
      /\ caller[c].stage \in Sourced
  BY <1>1 DEF Awaits, IInv, CallersFine, Fit, Sourced
<1>3. /\ caller[c].from \in Nat /\ len \in Nat /\ session.len \in Nat /\ stored.len \in Nat
      /\ spent.foreign \in Nat
  BY DEF IInv, Typed, Records, Sources, Sessions, Logs, Spendings, Length
<1>4. Informed(caller[c]) /\ Shared(caller[c]) BY DEF IInv, CallersFine
<1>5. CASE Live
  <2>1. /\ caller' = [caller EXCEPT ![c] = Returns(caller[c], session.len, "borrowed")]
        /\ UNCHANGED entry
    BY <1>5 DEF Inspected, Borrows
  <2>2. caller[c].from > session.len => spent.foreign > 0
    BY <1>2, <1>3, <1>4, <1>5 DEF Informed
  <2> QED BY <1>1, <1>2, <1>3, <2>1, <2>2, ReturnKeeps
<1>6. CASE ~Live /\ caller[c].stage = "current"
  <2>1. caller' = [caller EXCEPT ![c] = Returns(caller[c], len, "done")] /\ UNCHANGED entry
    BY <1>6 DEF Inspected, Ends
  <2>2. caller[c].from <= len BY <1>4, <1>6 DEF Informed
  <2> HIDE DEF len
  <2>3. ~(caller[c].from > len) BY <1>3, <2>2
  <2> QED BY <1>1, <1>2, <1>3, <2>1, <2>3, ReturnKeeps
<1>7. CASE ~Live /\ caller[c].stage # "current" /\ entry.no = caller[c].no
           /\ entry.phase # "ready"
  <2>1. caller' = [caller EXCEPT ![c] = Returns(caller[c], len, "borrowed")]
        /\ UNCHANGED entry
    BY <1>7 DEF Inspected, Borrows
  <2>2. caller[c].src = entry.src /\ entry.phase \notin {"none", "loading"}
    BY <1>2, <1>4, <1>7 DEF Shared, IInv, Typed
  <2>3. caller[c].from <= stored.len BY <1>1, <1>2, <1>4 DEF Informed
  <2>4. spent.foreign = 0 => stored.len <= len BY <2>2 DEF IInv, EntryCurrent
  <2> HIDE DEF len
  <2>5. caller[c].from > len => spent.foreign > 0 BY <1>3, <2>3, <2>4
  <2> QED BY <1>1, <1>2, <1>3, <2>1, <2>5, ReturnKeeps
<1>8. CASE ~Live /\ caller[c].stage # "current"
           /\ ~(entry.no = caller[c].no /\ entry.phase # "ready")
  <2>1. Remove(caller[c].no, Retries(c)) BY <1>8 DEF Inspected
  <2>2. /\ Retries(c) \in [Callers -> Records] /\ Retries(c)[c].stage = "again"
        /\ \A d \in Callers : d # c => Retries(c)[d] = caller[d]
    BY RetriesEffect DEF IInv
  <2>3. caller[c].no = entry.no => \A d \in Callers : d # c => caller[d].stage # "holding"
    BY <1>8 DEF IInv, OneClaim, Claims, Claiming
  <2>4. /\ Steps(c) /\ caller'[c] = Retries(c)[c]
        /\ \/ entry' = entry
           \/ entry' = NoEntry /\ \A d \in Callers : d # c => caller[d].stage # "holding"
    BY <1>1, <1>2, <2>1, <2>2, <2>3, RemoveSteps
  <2>5. caller[c].stage \notin {"waiting", "borrowed"} BY <1>1
  <2> QED BY <1>2, <2>4, <2>5, AgainKeeps
<1> QED BY <1>5, <1>6, <1>7, <1>8

\* loadLiveSnapshot behind its flush.
LEMMA FlushedKeeps ==
    ASSUME IInv, NEW c \in Callers, Flushed(c) PROVE IInv'
<1> DEFINE q == caller[c]
<1>1. /\ q.stage = "flushing" /\ q.stage \notin Awaits
      /\ UNCHANGED <<stored, entry, chain, state, session, spent, slipped>>
  BY DEF Flushed, Awaits
<1>2. \/ caller' = Rejects(c)
      \/ /\ caller' = [caller EXCEPT ![c] = Returns(q, q.src.rev, "borrowed")]
         /\ session.no = q.no => session.written = session.len
  BY DEF Flushed, Borrows
<1>3. CASE caller' = Rejects(c) BY <1>1, <1>3, RejectKeeps
<1>4. CASE /\ caller' = [caller EXCEPT ![c] = Returns(q, q.src.rev, "borrowed")]
           /\ session.no = q.no => session.written = session.len
  <2>1. /\ q.from \in Nat /\ q.src.rev \in Nat /\ session \in Sessions /\ stored.len \in Nat
        /\ spent.foreign \in Nat /\ state.cursor \in Nat
    BY DEF IInv, Typed, Records, Sources, Logs, Spendings, States
  <2>2. Informed(q) BY DEF IInv, CallersFine
  <2> HIDE DEF q
  <2>3. q.src.rev <= stored.len
    <3>1. session.no # None => session.written <= state.cursor /\ state.cursor <= stored.len
      BY DEF IInv, Owns, Counts
    <3> QED BY <1>1, <1>4, <2>1, <2>2, <3>1 DEF Informed, Sessions
  <2>4. q.from > q.src.rev => spent.foreign > 0 BY <1>1, <2>1, <2>2 DEF Informed
  <2> QED BY <1>1, <1>4, <2>1, <2>3, <2>4, ReturnKeeps DEF q
<1> QED BY <1>2, <1>3, <1>4

\* A source of another id takes the place of the entry's.
LEMMA EvictKeeps ==
    ASSUME IInv, Evict PROVE IInv'
<1>1. /\ entry.phase = "ready" /\ entry' = NoEntry /\ Spend("evictions")
      /\ UNCHANGED <<stored, chain, state, session, caller, slipped>>
  BY DEF Evict, Trouble
<1>2. spent' \in Spendings /\ spent'.foreign = spent.foreign
  BY <1>1, SpendEffect DEF IInv
<1>3. Typed' BY <1>1, <1>2, NoThings, TypedFrom DEF IInv, Typed
<1>4. \A d \in Callers : Like(caller'[d], caller[d]) BY <1>1 DEF Like
<1>5. ClaimsStay /\ KeepsStay BY <1>4, GoingOn DEF GoesOn
<1>6. Quiet BY <1>1, <1>2, <1>5 DEF Quiet, EntryGoesOn, ForeignStays
<1>7. FineAfter /\ MovesFree BY <1>4 DEF FineAfter, MovesFree
<1>8. CallersFine' BY <1>3, <1>6, <1>7, QuietCallers
<1>9. \A d \in Callers : caller'[d].stage # "holding"
  BY <1>1 DEF IInv, OneClaim, Claims, Claiming
<1>10. OneClaim' BY <1>1, <1>5, <1>8, <1>9, LeftClaims DEF IInv
<1> QED BY <1>1, <1>3, <1>6, <1>7, <1>10, QuietSame

\* A detached append is called.
LEMMA CallAppendKeeps ==
    ASSUME IInv, NEW c \in Callers, CallAppend(c) PROVE IInv'
<1> DEFINE q == [Idle EXCEPT !.stage = "appending", !.call = "append", !.from = stored.len]
           op == Op("append", c, NoSource, NoPosition)
<1>1. /\ caller[c].stage = "idle" /\ caller' = [caller EXCEPT ![c] = q] /\ Serialize(op)
      /\ UNCHANGED <<stored, entry, state, session, spent, slipped>>
  BY DEF CallAppend
<1>2. /\ q \in Records /\ q.stage = "appending" /\ q.call = "append" /\ q.src = NoSource
      /\ q.from = stored.len /\ q.missed = 0 /\ q.ahead = 0
  <2>1. stored.len \in Nat BY DEF IInv, Typed, Logs
  <2> QED BY <2>1 DEF Idle, Records, Stages, NoSource, Sources, None
<1>3. /\ op \in Ops /\ op.kind = "append" /\ op.by = c /\ op.src = NoSource
      /\ op.step = "queued"
  BY NoThings DEF Op, Ops, Kinds
<1> HIDE DEF q, op
<1>4. /\ caller' \in [Callers -> Records] /\ caller'[c] = q
      /\ \A d \in Callers : d # c => caller'[d] = caller[d]
  BY <1>1, <1>2, OneCaller DEF IInv
<1>5. Joined(op) BY <1>1, <1>3, SerializeEffect DEF IInv
<1>6. Typed'
  <2>1. chain' \in Seq(Ops) BY <1>5 DEF Joined
  <2> QED BY <1>1, <1>4, <2>1, TypedFrom DEF IInv, Typed
<1>7. stored.len \in Nat /\ Fits(NoSource) BY NoThings DEF Fits, IInv, Typed, Logs
<1>8. Fine(caller[c])'
  BY <1>1, <1>2, <1>4, <1>7
  DEF Fine, Fit, Fitting, Fits, Shared, Sourced, Claiming, Informed, Live, Keeping, Honest
<1>9. \A d \in Callers : GoesOn(caller'[d], caller[d])
  BY <1>2, <1>4 DEF GoesOn, Like, Claiming
<1>10. ClaimsStay /\ KeepsStay BY <1>9, GoingOn
<1>11. Quiet BY <1>1, <1>10 DEF Quiet, EntryGoesOn, ForeignStays
<1>12. FineAfter /\ MovesFree BY <1>1, <1>4, <1>8 DEF FineAfter, MovesFree, Like, Awaits
<1>13. OneClaim' BY <1>1, <1>10, SameClaims DEF IInv
<1>14. OpFits(op) /\ Fits(op.src) /\ op.kind \in ByCaller /\ op.kind # "commit"
  BY <1>3, <1>7 DEF OpFits, ByCaller
<1>15. caller[op.by].stage \notin Awaits /\ caller'[op.by].stage = Awaited(op.kind)
  BY <1>1, <1>2, <1>3, <1>4 DEF Awaited, Awaits
<1> QED BY <1>3, <1>5, <1>6, <1>11, <1>12, <1>13, <1>14, <1>15, QuietJoined

(***************************************************************************)
(* Cancellation.                                                            *)
(***************************************************************************)

\* A caller's queued commit or check, and the chain on which it is dropped.
Mine(i, c) == chain[i].kind \in {"commit", "check"} /\ chain[i].by = c
              /\ chain[i].step = "queued"
Dropped(c) ==
    /\ chain' \in Seq(Ops) /\ Len(chain') = Len(chain)
    /\ \A i \in Places :
        \/ ~Mine(i, c) /\ chain'[i] = chain[i]
        \/ /\ Mine(i, c) /\ chain'[i].kind = chain[i].kind /\ chain'[i].by = chain[i].by
           /\ chain'[i].src = chain[i].src /\ chain'[i].step = "dropped"

\* What observeQueuedAbort does to the chain.
LEMMA DroppedEffect ==
    ASSUME Typed, NEW c \in Callers,
           chain' = LET mine == {i \in DOMAIN chain : chain[i].kind \in {"commit", "check"}
                                         /\ chain[i].by = c /\ chain[i].step = "queued"}
                    IN  [i \in DOMAIN chain |->
                            IF i \in mine THEN [chain[i] EXCEPT !.step = "dropped"]
                                          ELSE chain[i]]
    PROVE  Dropped(c)
<1>1. DOMAIN chain = Places /\ Len(chain) \in Nat /\ \A i \in Places : chain[i] \in Ops
  BY ChainTyped, LenProperties DEF Typed, Places
<1>2. chain' = [i \in Places |->
                IF Mine(i, c) THEN [chain[i] EXCEPT !.step = "dropped"] ELSE chain[i]]
  <2>1. \A i \in Places : Mine(i, c) <=>
            i \in {j \in DOMAIN chain : chain[j].kind \in {"commit", "check"}
                                       /\ chain[j].by = c /\ chain[j].step = "queued"}
    BY <1>1 DEF Mine
  <2> QED BY <1>1, <2>1
<1>3. \A op \in Ops : LET q == [op EXCEPT !.step = "dropped"]
                      IN  /\ q \in Ops /\ q.kind = op.kind /\ q.by = op.by /\ q.src = op.src
                          /\ q.step = "dropped"
  BY DEF Ops
<1>4. \A i \in Places :
        /\ chain'[i] \in Ops
        /\ \/ ~Mine(i, c) /\ chain'[i] = chain[i]
           \/ /\ Mine(i, c) /\ chain'[i].kind = chain[i].kind /\ chain'[i].by = chain[i].by
              /\ chain'[i].src = chain[i].src /\ chain'[i].step = "dropped"
  <2> SUFFICES ASSUME NEW i \in Places
               PROVE  /\ chain'[i] \in Ops
                      /\ \/ ~Mine(i, c) /\ chain'[i] = chain[i]
                         \/ /\ Mine(i, c) /\ chain'[i].kind = chain[i].kind
                            /\ chain'[i].by = chain[i].by /\ chain'[i].src = chain[i].src
                            /\ chain'[i].step = "dropped"
    OBVIOUS
  <2> DEFINE op == chain[i]
  <2>1. chain'[i] = IF Mine(i, c) THEN [op EXCEPT !.step = "dropped"] ELSE op BY <1>2
  <2>2. op \in Ops BY <1>1
  <2> HIDE DEF op
  <2>3. CASE Mine(i, c)
    <3>1. chain'[i] = [op EXCEPT !.step = "dropped"] BY <2>1, <2>3
    <3> QED BY <1>3, <2>2, <2>3, <3>1 DEF op
  <2>4. CASE ~Mine(i, c) BY <2>1, <2>2, <2>4 DEF op
  <2> QED BY <2>3, <2>4
<1>5. chain' \in Seq(Ops)
  <2>1. chain' \in [1..Len(chain) -> Ops] BY <1>2, <1>4 DEF Places
  <2> QED BY <1>1, <2>1, SeqDef
<1>6. Len(chain') = Len(chain)
  <2>1. DOMAIN chain' = 1..Len(chain') /\ Len(chain') \in Nat BY <1>5, LenProperties
  <2>2. DOMAIN chain' = 1..Len(chain) BY <1>2 DEF Places
  <2> HIDE <1>2
  <2> QED BY <1>1, <2>1, <2>2
<1> QED BY <1>4, <1>5, <1>6 DEF Dropped

\* A quiet step that drops what the caller has queued.
LEMMA QuietDropped ==
    ASSUME IInv, Typed', Quiet, FineAfter, OneClaim', NEW c \in Callers, Others(c),
           Dropped(c), NEW m \in Places, Mine(m, c)
    PROVE  IInv'
<1>1. CallersFine' BY QuietCallers
<1>2. EntryCurrent' /\ Fits(entry.src)' /\ Counts' BY <1>1, QuietEntry
<1>3. Places' = Places /\ Len(chain) \in Nat BY ChainTyped DEF IInv, Dropped, Places
<1>4. \A i \in Places :
        /\ chain'[i].kind = chain[i].kind /\ chain'[i].by = chain[i].by
        /\ chain'[i].src = chain[i].src
        /\ chain'[i].step # "dropped" => chain'[i] = chain[i] /\ ~Mine(i, c)
        /\ chain'[i] # chain[i] => chain[i].kind \in {"commit", "check"}
                                   /\ chain'[i].step = "dropped"
  BY DEF Dropped, Mine
<1>5. ASSUME NEW i \in Places, Pending(i)'
      PROVE  /\ Pending(i) /\ chain'[i] = chain[i] /\ chain[i].by \in Callers
             /\ Like(caller'[chain[i].by], caller[chain[i].by])
             /\ caller[chain[i].by].stage \in Awaits
  <2>1. Pending(i) /\ chain'[i] = chain[i] /\ ~Mine(i, c) BY <1>4, <1>5 DEF Pending
  <2>2. Pending(m) /\ chain[m].by = c BY DEF Pending, Mine, ByCaller
  <2>3. chain[i].by # c BY <2>1, <2>2 DEF IInv, Answered
  <2>4. chain[i].by \in Callers BY <2>1 DEF IInv, OpsFit, OpFits, Pending
  <2>5. caller[chain[i].by].stage \in Awaits
    BY <2>1 DEF IInv, Answered, Awaited, Awaits, Pending, ByCaller
  <2> QED BY <2>1, <2>3, <2>4, <2>5 DEF Others
<1>6. OpsFit'
  <2>1. ASSUME NEW i \in Places PROVE OpFits(chain'[i])
    BY <1>4 DEF IInv, OpsFit, OpFits, ByCaller
  <2>2. ASSUME NEW i \in Places, i > 1 PROVE chain'[i].step \in {"queued", "dropped"}
    BY <1>4, <2>2 DEF IInv, OpsFit
  <2> QED BY <1>3, <2>1, <2>2 DEF OpsFit
<1>7. Owns'
  <2>1. \A i \in Places' : chain'[i].kind \in BySession => i \in Places /\ chain'[i] = chain[i]
    BY <1>3, <1>4 DEF BySession
  <2>2. /\ session.phase = "none" <=> session.no = None
        /\ state.owner = session.no /\ (state.owner # None => state.known)
        /\ \A i, j \in Places :
            chain[i].kind \in BySession /\ chain[j].kind \in BySession => i = j
    BY DEF IInv, Owns
  <2>3. \A i \in Places :
            /\ chain[i].kind \in BySession => session.no # None
            /\ chain[i].kind = "suffix" => session.init = "running"
            /\ chain[i].kind \in {"write", "forget"} => session.init = "ready"
            /\ chain[i].kind = "forget" =>
                    session.phase = "retiring" /\ session.written = session.len
            /\ chain[i].kind \in {"write", "suffix"} => chain[i].to.len > session.written
    BY DEF IInv, Owns
  <2> QED BY <2>1, <2>2, <2>3 DEF Quiet, Owns, BySession
<1>8. SourcesFit'
  <2>1. \A i \in Places' : Fits(chain'[i].src) BY <1>3, <1>4 DEF IInv, SourcesFit
  <2> QED BY <1>2, <2>1 DEF Quiet, SourcesFit, Fits
<1>9. Answered'
  <2>1. ASSUME NEW i \in Places', Pending(i)'
        PROVE  /\ caller'[chain'[i].by].stage = Awaited(chain'[i].kind)
               /\ chain'[i].kind = "commit" => caller'[chain'[i].by].src = chain'[i].src
    BY <1>3, <1>5, <2>1 DEF IInv, Answered, Like, Awaits
  <2>2. ASSUME NEW i \in Places', NEW j \in Places', Pending(i)', Pending(j)',
               chain'[i].by = chain'[j].by
        PROVE  i = j
    BY <1>3, <1>5, <2>2 DEF IInv, Answered
  <2> QED BY <2>1, <2>2 DEF Answered
<1>10. ReadsQueued'
  <2>1. ASSUME NEW i \in Places', Commits(i)'
        PROVE  i \in Places /\ Commits(i) /\ caller'[chain'[i].by].no = caller[chain[i].by].no
    <3>1. Pending(i)' BY <2>1 DEF Pending, Commits, ByCaller
    <3> QED BY <1>3, <1>5, <2>1, <3>1 DEF Commits, Like
  <2>2. \A i, j \in Places' :
         chain'[i].kind = "load" /\ chain'[j].kind = "load" /\ chain'[i].by = chain'[j].by => i = j
    BY <1>3, <1>4 DEF IInv, ReadsQueued
  <2>3. \A i \in Places' : chain'[i].kind = "load" => chain'[i].by # None
    BY <1>3, <1>4 DEF IInv, OpsFit, OpFits
  <2>4. CASE entry' = NoEntry BY <2>2, <2>3, <2>4, NoThings DEF ReadsQueued
  <2>5. ASSUME entry'.no = entry.no, entry'.phase = "loading" <=> entry.phase = "loading",
               entry'.phase = "none" <=> entry.phase = "none"
        PROVE  ReadsQueued'
    <3>1. \A i \in Places' : chain'[i].kind = "load" /\ chain'[i].by = entry'.no =>
              entry'.phase = "loading"
      BY <1>3, <1>4, <2>5 DEF IInv, ReadsQueued
    <3>2. ASSUME entry'.phase = "loading"
          PROVE  \E l \in Places' : /\ chain'[l].kind = "load" /\ chain'[l].by = entry'.no
                                    /\ \A i \in Places' : Commits(i)' => i < l
      <4>1. PICK l \in Places : /\ chain[l].kind = "load" /\ chain[l].by = entry.no
                                /\ \A i \in Places : Commits(i) => i < l
        BY <2>5, <3>2 DEF IInv, ReadsQueued
      <4>2. \A i \in Places' : Commits(i)' => i < l BY <2>1, <4>1
      <4> QED BY <1>3, <1>4, <2>5, <4>1, <4>2
    <3>3. entry'.phase \notin {"none", "loading"} =>
              \A i \in Places' : Commits(i)' => caller'[chain'[i].by].no = entry'.no
      BY <2>1, <2>5 DEF IInv, ReadsQueued
    <3> QED BY <2>2, <3>1, <3>2, <3>3 DEF ReadsQueued
  <2> QED BY <2>4, <2>5 DEF Quiet, EntryGoesOn
<1>11. HeadHolds'
  <2>1. CASE Len(chain) = 0 BY <2>1 DEF Dropped, HeadHolds, Running, Adopting
  <2>2. CASE Len(chain) > 0 /\ chain'[1] = chain[1]
    BY <1>1, <2>2, SameHead DEF Quiet, IInv, Dropped
  <2>3. CASE Len(chain) > 0 /\ chain'[1] # chain[1]
    <3>1. chain'[1].step = "dropped" BY <1>3, <1>4, <2>3 DEF Places
    <3> QED BY <3>1 DEF HeadHolds, Running, Adopting
  <2> QED BY <1>3, <2>1, <2>2, <2>3
<1> QED BY <1>1, <1>2, <1>6, <1>7, <1>8, <1>9, <1>10, <1>11 DEF IInv

\* A call is given up while its operation is queued.
LEMMA DropKeeps ==
    ASSUME IInv, NEW c \in Callers, caller' \in [Callers -> Records], Others(c),
           Ended(caller'[c]), caller'[c].missed = 0, caller'[c].ahead = 0, Dropped(c),
           NEW m \in Places, Mine(m, c),
           UNCHANGED <<stored, state, session, spent, slipped>>,
           \/ entry' = entry
           \/ entry' = NoEntry /\ \A d \in Callers : d # c => caller[d].stage # "holding"
    PROVE  IInv'
<1>1. Typed'
  <2>1. chain' \in Seq(Ops) BY DEF Dropped
  <2>2. /\ entry' \in Entries
        /\ entry'.phase = "none" <=> entry'.no = None
        /\ entry'.no = None => entry' = NoEntry
    BY NoThings DEF IInv, Typed
  <2> QED BY <2>1, <2>2, TypedFrom DEF IInv, Typed
<1>2. Fine(caller[c])' BY <1>1, EndedFine DEF IInv
<1>3. \A d \in Callers : GoesOn(caller'[d], caller[d])
  BY DEF GoesOn, Others, Ended, Claiming
<1>4. ClaimsStay /\ KeepsStay BY <1>3, GoingOn
<1>5. Quiet /\ FineAfter BY <1>2, <1>4 DEF Quiet, EntryGoesOn, ForeignStays, FineAfter, Others
<1>6. CallersFine' BY <1>1, <1>5, QuietCallers
<1>7. OneClaim'
  <2>1. CASE entry' = entry BY <1>4, <2>1, SameClaims DEF IInv
  <2>2. CASE entry' = NoEntry /\ \A d \in Callers : d # c => caller[d].stage # "holding"
    <3>1. \A d \in Callers : caller'[d].stage # "holding" BY <2>2 DEF Others, Like, Ended
    <3> QED BY <1>4, <1>6, <2>2, <3>1, LeftClaims DEF IInv
  <2> QED BY <2>1, <2>2
<1> QED BY <1>1, <1>5, <1>7, QuietDropped

\* observeQueuedAbort.
LEMMA AbortKeeps ==
    ASSUME IInv, NEW c \in Callers, Abort(c) PROVE IInv'
<1> DEFINE mine == {i \in DOMAIN chain : chain[i].kind \in {"commit", "check"}
                                         /\ chain[i].by = c /\ chain[i].step = "queued"}
           dropped == [i \in DOMAIN chain |->
                IF i \in mine THEN [chain[i] EXCEPT !.step = "dropped"] ELSE chain[i]]
<1>1. UNCHANGED <<stored, state, session, spent, slipped>> BY DEF Abort
<1>2. /\ Rejects(c) \in [Callers -> Records]
      /\ \A d \in Callers : d # c => Rejects(c)[d] = caller[d]
      /\ Ended(Rejects(c)[c]) /\ Rejects(c)[c].stage = "rejected"
      /\ Rejects(c)[c].missed = 0 /\ Rejects(c)[c].ahead = 0
  BY RejectsEffect DEF IInv
<1>3. DOMAIN chain = Places BY LenProperties DEF IInv, Typed, Places
<1>4. CASE caller[c].stage \in {"again", "waiting", "loading", "parked"}
  <2>1. caller' = Rejects(c) /\ UNCHANGED <<entry, chain>> BY <1>4 DEF Abort
  <2> QED BY <1>1, <1>4, <2>1, RejectKeeps DEF Awaits
<1>5. CASE caller[c].stage = "committing" /\ mine # {}
  <2>1. Remove(caller[c].no, Rejects(c)) /\ chain' = dropped BY <1>5 DEF Abort
  <2>2. Dropped(c) BY <2>1, DroppedEffect DEF IInv
  <2>3. PICK m \in Places : Mine(m, c) BY <1>3, <1>5 DEF Mine
  <2> HIDE DEF dropped, mine
  <2>4. /\ caller' \in [Callers -> Records]
        /\ \A d \in Callers : Like(caller'[d], Rejects(c)[d])
        /\ \A d \in Callers : Rejects(c)[d].stage # "parked" => caller'[d] = Rejects(c)[d]
        /\ \/ entry.no = caller[c].no /\ entry' = NoEntry
           \/ entry.no # caller[c].no /\ entry' = entry
    BY <1>2, <2>1, RemoveEffect
  <2>5. caller'[c] = Rejects(c)[c] /\ Others(c) BY <1>2, <2>4 DEF Others
  <2>6. entry.no = caller[c].no => \A d \in Callers : d # c => caller[d].stage # "holding"
    BY <1>5, NoOtherHolder DEF Claims, Claiming
  <2> QED BY <1>1, <1>2, <2>2, <2>3, <2>4, <2>5, <2>6, DropKeeps
<1>6. CASE caller[c].stage = "checking" /\ mine # {}
  <2>1. caller' = Rejects(c) /\ chain' = dropped /\ UNCHANGED entry BY <1>6 DEF Abort
  <2>2. Dropped(c) BY <2>1, DroppedEffect DEF IInv
  <2>3. PICK m \in Places : Mine(m, c) BY <1>3, <1>6 DEF Mine
  <2> HIDE DEF dropped, mine
  <2>4. Others(c) BY <1>2, <2>1 DEF Others, Like
  <2> QED BY <1>1, <1>2, <2>1, <2>2, <2>3, <2>4, DropKeeps
<1>7. CASE caller[c].stage = "committed"
  <2>1. caller' = Set(c, "aborted") /\ UNCHANGED <<entry, chain>> BY <1>7 DEF Abort
  <2>2. /\ "aborted" \in Sourced /\ "aborted" \in Stages /\ "aborted" \in Claiming \ {"holding"}
        /\ caller[c].stage \in Claiming \ {"holding"} /\ caller[c].stage \in Keeping
        /\ caller[c].stage \in Sourced /\ caller[c].stage \notin Awaits
    BY <1>7 DEF Sourced, Stages, Claiming, Keeping, Awaits
  <2>3. /\ Steps(c) /\ caller'[c].stage = "aborted" /\ caller'[c].no = caller[c].no
        /\ caller'[c].src = caller[c].src
    BY <1>1, <2>1, <2>2, SetEffect DEF IInv, Steps, Others, Like
  <2>4. caller[c].from <= Length(caller[c].src) BY <2>2 DEF IInv, CallersFine, Informed
  <2>5. Fine(caller[c])' BY <1>1, <2>1, <2>2, <2>4, SetFine DEF ForeignStays
  <2> QED BY <2>1, <2>2, <2>3, <2>5, StepKeeps DEF GoesOn
<1> QED BY <1>4, <1>5, <1>6, <1>7 DEF Abort

(***************************************************************************)
(* The operations of the chain: reads, checks and commits.                  *)
(***************************************************************************)

\* The operation at the head.
LEMMA HeadFacts ==
    ASSUME IInv, NEW kind, Head1(kind)
    PROVE  /\ chain # <<>> /\ Head(chain) = chain[1] /\ chain[1].kind = kind
           /\ Len(chain) > 0 /\ 1 \in Places /\ chain[1] \in Ops /\ OpFits(chain[1])
<1>1. chain # <<>> /\ Head(chain).kind = kind BY DEF Head1
<1>2. Head(chain) = chain[1] /\ Len(chain) > 0 /\ 1 \in Places /\ chain[1] \in Ops
  BY <1>1, HeadIsFirst DEF IInv
<1> QED BY <1>1, <1>2 DEF IInv, OpsFit

\* The types when the first operation ends.
LEMMA ShiftedTyped ==
    ASSUME IInv, chain # <<>>, OpEnds, UNCHANGED <<stored, state, session, slipped>>,
           entry' = entry \/ entry' = NoEntry, caller' \in [Callers -> Records],
           spent' \in Spendings
    PROVE  Typed' /\ Shifted
<1>1. Shifted BY OpEndsEffect DEF IInv
<1>2. /\ entry' \in Entries
      /\ entry'.phase = "none" <=> entry'.no = None
      /\ entry'.no = None => entry' = NoEntry
  BY NoThings DEF IInv, Typed
<1>3. chain' \in Seq(Ops) BY <1>1 DEF Shifted
<1> QED BY <1>1, <1>2, <1>3, TypedFrom DEF IInv

\* A failure is spent, or a live session is what makes the operation fail.
LEMMA FailsEffect ==
    ASSUME IInv, Fails \/ FailsUnlessLive \/ UNCHANGED spent
    PROVE  spent' \in Spendings /\ spent'.foreign = spent.foreign
<1>1. CASE Spend("failures") BY <1>1, SpendEffect DEF IInv
<1>2. CASE UNCHANGED spent BY <1>2 DEF IInv, Typed
<1> QED BY <1>1, <1>2 DEF Fails, FailsUnlessLive, Trouble

\* A caller that waited for a read has the source that was read.
Filled(d, n) ==
    LET r == caller'[d]
        q == caller[d]
    IN  /\ q.stage = "loading" /\ q.no = n
        /\ r.stage = "loaded" /\ r.src = Read(n) /\ r.call = q.call /\ r.no = q.no
        /\ r.from = q.from /\ r.missed = q.missed /\ r.ahead = q.ahead

\* A caller whose read is done is fine.
LEMMA FilledFine ==
    ASSUME IInv, NEW d \in Callers, NEW n, Filled(d, n),
           UNCHANGED <<stored, session, spent>>,
           entry'.no = n => entry'.phase = "ready" /\ entry'.src = Read(n)
    PROVE  Fine(caller[d])'
<1> DEFINE q == caller[d]
           r == caller'[d]
<1>1. /\ q.stage = "loading" /\ q.no = n
      /\ r.stage = "loaded" /\ r.src = Read(n) /\ r.call = q.call /\ r.no = q.no
      /\ r.from = q.from /\ r.missed = q.missed /\ r.ahead = q.ahead
  BY DEF Filled
<1>2. q \in Records /\ Fit(q) /\ Informed(q) /\ Honest(q) BY DEF IInv, Typed, CallersFine
<1> HIDE DEF q, r
<1>3. Fit(r) BY <1>1, <1>2 DEF Fit, Sourced, Claiming
<1>4. Fits(r.src) BY <1>1 DEF Fits, Read, IInv, Typed, Logs
<1>5. r.no = entry'.no => entry'.phase # "loading" /\ r.src = entry'.src BY <1>1
<1>6. Informed(r) BY <1>1, <1>2 DEF Informed, Keeping
<1>7. r.missed = 0 /\ r.ahead = 0 BY <1>1, <1>2 DEF Honest, Records
<1> QED
  BY <1>1, <1>3, <1>4, <1>5, <1>6, <1>7
  DEF Fine, Fit, Fitting, Fits, Shared, Informed, Live, Length, Honest, r

\* The read of the entry makes it ready.
LEMMA EntryReadKeeps ==
    ASSUME IInv, Head1("load"), OpEnds, NEW n, n = chain[1].by, entry.no = n,
           entry' = [no |-> n, phase |-> "ready", src |-> Read(n)],
           caller' \in [Callers -> Records],
           \A d \in Callers : Like(caller'[d], caller[d]) \/ Filled(d, n),
           UNCHANGED <<stored, state, session, spent, slipped>>
    PROVE  IInv'
<1>1. /\ chain # <<>> /\ chain[1].kind = "load" /\ Len(chain) > 0 /\ 1 \in Places
      /\ n \in Nat \ {None}
  BY HeadFacts DEF OpFits
<1>2. Shifted BY <1>1, OpEndsEffect DEF IInv
<1>3. /\ entry' \in Entries /\ entry'.no = n /\ entry'.phase = "ready"
      /\ entry'.src = Read(n) /\ Read(n) \in Sources /\ Read(n).rev = stored.len
      /\ Read(n).open = stored.open
  BY <1>1 DEF Read, Entries, Phases, Sources, IInv, Typed, Logs
<1>4. Typed'
  <2>1. chain' \in Seq(Ops) BY <1>2 DEF Shifted
  <2> QED BY <1>1, <1>3, <2>1, TypedFrom DEF IInv, Typed
<1>5. entry.phase = "loading" BY <1>1 DEF IInv, ReadsQueued
<1>6. LogGrows /\ SessionGoesOn /\ spent'.foreign >= spent.foreign
  BY DEF LogGrows, SessionGoesOn, IInv, Typed, Sessions, Spendings, Live
<1>7. CallersFine'
  <2>1. ASSUME NEW d \in Callers, Filled(d, n) PROVE Fine(caller[d])'
    BY <1>3, <2>1, FilledFine
  <2>2. ASSUME NEW d \in Callers, Like(caller'[d], caller[d]) PROVE Fine(caller[d])'
    <3>1. /\ Fit(caller[d])' /\ Fitting(caller[d])' /\ Informed(caller[d])'
          /\ Honest(caller[d])'
      BY <1>4, <1>6, <2>2, OthersInformed DEF IInv
    <3>2. Shared(caller[d]) BY DEF IInv, CallersFine
    <3>3. Shared(caller[d])'
      BY <1>3, <1>5, <2>2, <3>2 DEF Shared, Like, Sourced, Claiming
    <3> QED BY <3>1, <3>3 DEF Fine
  <2>3. \A d \in Callers : Fine(caller[d])' BY <2>1, <2>2
  <2> QED BY <2>3, CallersFineFrom
<1>8. OpsFit' /\ HeadHolds' BY <1>2, ShiftedOps DEF IInv
<1>9. SourcesFit'
  <2>1. Fits(entry.src)' BY <1>3 DEF Fits, IInv, Typed, Logs
  <2> QED BY <1>2, <1>4, <1>6, <2>1, ShiftedSources DEF SourcesFit, Fits, FitsThen
<1>10. MovesHead BY DEF MovesHead, Filled, Awaits
<1>11. Answered' BY <1>2, <1>10, ShiftedAnswered DEF IInv
<1>12. /\ Len(chain) \in Nat \ {0} /\ Len(chain') \in Nat
       /\ \A i \in Places' : i + 1 \in Places /\ i + 1 # 1 /\ chain'[i] = chain[i + 1]
  BY <1>2, ShiftedPlaces DEF IInv
<1>13. ReadsQueued'
  <2>1. \A i \in Places' : chain'[i].kind = "load" => chain'[i].by # n
    BY <1>1, <1>12 DEF IInv, ReadsQueued
  <2>2. ASSUME NEW i \in Places', NEW j \in Places', chain'[i].kind = "load",
               chain'[j].kind = "load", chain'[i].by = chain'[j].by
        PROVE  i = j
    <3>1. i + 1 = j + 1 BY <1>12, <2>2 DEF IInv, ReadsQueued
    <3> QED BY <1>12, <3>1 DEF Places
  <2>3. \A i \in Places : ~Commits(i)
    <3>1. PICK l \in Places : /\ chain[l].kind = "load" /\ chain[l].by = entry.no
                              /\ \A i \in Places : Commits(i) => i < l
      BY <1>5 DEF IInv, ReadsQueued
    <3>2. l = 1 BY <1>1, <3>1 DEF IInv, ReadsQueued
    <3> QED BY <3>1, <3>2 DEF Places
  <2>4. \A i \in Places' : ~(chain'[i].kind = "commit" /\ chain'[i].step # "dropped")
    BY <1>12, <2>3 DEF Commits
  <2> QED BY <1>3, <2>1, <2>2, <2>4 DEF ReadsQueued, Commits
<1>14. \A d \in Callers : GoesOn(caller'[d], caller[d])
  BY DEF GoesOn, Filled, Claiming
<1>15. ClaimsStay /\ KeepsStay BY <1>14, GoingOn
<1>16. \A d \in Callers : Claims(d) => caller[d].no # entry.no /\ caller[d].stage # "holding"
  BY <1>5 DEF IInv, OneClaim, Claims, Claiming
<1>17. \A d \in Callers : Claims(d)' => caller'[d].no # entry.no /\ caller'[d].stage # "holding"
  BY <1>15, <1>16 DEF ClaimsStay, Claims
<1>18. OneClaim' BY <1>3, <1>15, <1>17, ReadyClaims DEF IInv
<1>19. Owns' BY <1>2, ShiftedOwns DEF IInv, Owns
<1>20. Counts' BY DEF IInv, Counts
<1>21. EntryCurrent'
  <2>1. \A d \in Callers : Keeps(d)' => caller'[d].no # entry'.no
    BY <1>3, <1>17 DEF Keeps, Claims, Keeping, Claiming
  <2>2. stored'.len <= Length(entry'.src) BY <1>3 DEF Length, IInv, Typed, Logs
  <2> QED BY <2>1, <2>2 DEF EntryCurrent, Length
<1> QED
  BY <1>4, <1>7, <1>8, <1>9, <1>11, <1>13, <1>18, <1>19, <1>20, <1>21 DEF IInv

\* The read of an entry, or of one that is gone.
LEMMA LoadKeeps ==
    ASSUME IInv, Load PROVE IInv'
<1> DEFINE n == chain[1].by
           waiting(d) == caller[d].stage = "loading" /\ caller[d].no = n
           filled == [d \in Callers |->
               IF waiting(d) THEN [caller[d] EXCEPT !.stage = "loaded", !.src = Read(n)]
                             ELSE caller[d]]
           gone == [d \in Callers |->
               IF waiting(d) THEN [Idle EXCEPT !.stage = "rejected"] ELSE caller[d]]
<1>1. Head1("load") /\ OpEnds /\ UNCHANGED <<stored, state, session, slipped>> BY DEF Load
<1>2. /\ chain # <<>> /\ Head(chain) = chain[1] /\ chain[1].kind = "load" /\ 1 \in Places
      /\ n \in Nat \ {None}
  BY <1>1, HeadFacts DEF OpFits
<1>3. \/ MakeReady(n, Read(n), filled) /\ UNCHANGED spent
      \/ FailsUnlessLive /\ Remove(n, gone)
  BY <1>2 DEF Load
<1>4. CASE MakeReady(n, Read(n), filled) /\ UNCHANGED spent
  <2>1. Read(n) \in Sources BY <1>2 DEF Read, Sources, IInv, Typed, Logs
  <2>2. ASSUME NEW d \in Callers
        PROVE  /\ filled[d] \in Records
               /\ waiting(d) =>
                    /\ filled[d].stage = "loaded" /\ filled[d].src = Read(n)
                    /\ filled[d].call = caller[d].call /\ filled[d].no = caller[d].no
                    /\ filled[d].from = caller[d].from /\ filled[d].missed = caller[d].missed
                    /\ filled[d].ahead = caller[d].ahead
               /\ ~waiting(d) => filled[d] = caller[d]
    <3> DEFINE q == caller[d]
    <3>1. q \in Records BY DEF IInv, Typed
    <3>2. LET r == [q EXCEPT !.stage = "loaded", !.src = Read(n)]
          IN  /\ r \in Records /\ r.stage = "loaded" /\ r.src = Read(n) /\ r.call = q.call
              /\ r.no = q.no /\ r.from = q.from /\ r.missed = q.missed /\ r.ahead = q.ahead
      <4> HIDE DEF q, n
      <4> QED BY <2>1, <3>1 DEF Records, Stages
    <3> QED BY <3>1, <3>2
  <2>3. filled \in [Callers -> Records] BY <2>2
  <2> HIDE DEF filled
  <2>4. /\ caller' \in [Callers -> Records]
        /\ \A d \in Callers : Like(caller'[d], filled[d])
        /\ \A d \in Callers : filled[d].stage # "parked" => caller'[d] = filled[d]
        /\ \/ entry.no = n /\ entry' = [no |-> n, phase |-> "ready", src |-> Read(n)]
           \/ entry.no # n /\ entry' = entry
    BY <1>4, <2>3, MakeReadyEffect
  <2>5. \A d \in Callers : Like(caller'[d], caller[d]) \/ Filled(d, n)
    BY <2>2, <2>4 DEF Filled
  <2>6. CASE entry.no = n BY <1>1, <1>4, <2>4, <2>5, <2>6, EntryReadKeeps
  <2>7. CASE entry.no # n
    <3>1. Typed' /\ Shifted BY <1>1, <1>2, <1>4, <2>4, <2>7, ShiftedTyped DEF IInv, Typed
    <3>2. \A d \in Callers : GoesOn(caller'[d], caller[d])
      BY <2>5 DEF GoesOn, Filled, Claiming
    <3>3. Quiet BY <1>1, <1>4, <2>4, <2>7, <3>2, GoingOn DEF Quiet, EntryGoesOn, ForeignStays
    <3>4. \A d \in Callers : Filled(d, n) => Fine(caller[d])'
      BY <1>1, <1>4, <2>4, <2>7, FilledFine
    <3>5. FineAfter BY <2>5, <3>4 DEF FineAfter
    <3>6. MovesHead BY <2>5 DEF MovesHead, Filled, Awaits
    <3>7. OneClaim' BY <2>4, <2>7, <3>2, GoingOn, SameClaims DEF IInv
    <3> QED BY <2>7, <3>1, <3>3, <3>5, <3>6, <3>7, QuietShifted
  <2> QED BY <2>6, <2>7
<1>5. CASE FailsUnlessLive /\ Remove(n, gone)
  <2> DEFINE r == [Idle EXCEPT !.stage = "rejected"]
  <2>1. r \in Records /\ r.stage = "rejected" /\ Ended(r) /\ r.missed = 0 /\ r.ahead = 0
    BY RejectedRecord
  <2> HIDE DEF r
  <2>2. /\ gone \in [Callers -> Records]
        /\ \A d \in Callers : (waiting(d) => gone[d] = r) /\ (~waiting(d) => gone[d] = caller[d])
    BY <2>1 DEF IInv, Typed, r
  <2> HIDE DEF gone
  <2>3. /\ caller' \in [Callers -> Records]
        /\ \A d \in Callers : Like(caller'[d], gone[d])
        /\ \A d \in Callers : gone[d].stage # "parked" => caller'[d] = gone[d]
        /\ (entry.no = n /\ entry' = NoEntry) \/ (entry.no # n /\ entry' = entry)
    BY <1>5, <2>2, RemoveEffect
  <2>4. \A d \in Callers :
            Like(caller'[d], caller[d]) \/ (caller[d].stage = "loading" /\ caller'[d] = r)
    BY <2>1, <2>2, <2>3
  <2>5. spent' \in Spendings /\ spent'.foreign = spent.foreign BY <1>5, FailsEffect
  <2>6. Typed' /\ Shifted BY <1>1, <1>2, <2>3, <2>5, ShiftedTyped
  <2>7. \A d \in Callers : GoesOn(caller'[d], caller[d]) BY <2>1, <2>4 DEF GoesOn, Claiming
  <2>8. ClaimsStay /\ KeepsStay BY <2>7, GoingOn
  <2>9. Quiet BY <1>1, <2>3, <2>5, <2>8 DEF Quiet, EntryGoesOn, ForeignStays
  <2>10. FineAfter
    <3>1. \A d \in Callers : caller'[d] = r => Fine(caller[d])' BY <2>1, <2>6, EndedFine DEF IInv
    <3> QED BY <2>4, <3>1 DEF FineAfter
  <2>11. MovesHead BY <2>4 DEF MovesHead, Awaits
  <2>12. OneClaim'
    <3>1. CASE entry' = entry BY <2>8, <3>1, SameClaims DEF IInv
    <3>2. CASE entry.no = n /\ entry' = NoEntry
      <4>1. entry.phase = "loading" BY <1>2, <3>2 DEF IInv, ReadsQueued
      <4>2. \A d \in Callers : caller[d].stage # "holding"
        BY <4>1 DEF IInv, OneClaim, Claims, Claiming
      <4>3. \A d \in Callers : caller'[d].stage # "holding"
        BY <2>1, <2>4, <4>2 DEF Like
      <4>4. CallersFine' BY <2>6, <2>9, <2>10, QuietCallers
      <4> QED BY <2>8, <3>2, <4>3, <4>4, LeftClaims DEF IInv
    <3> QED BY <2>3, <3>1, <3>2
  <2> QED BY <2>3, <2>6, <2>9, <2>10, <2>11, <2>12, QuietShifted
<1> QED BY <1>3, <1>4, <1>5

\* Whose operation is at the head waits for it.
LEMMA HeadCaller ==
    ASSUME IInv, NEW kind \in ByCaller, Head1(kind), chain[1].step # "dropped"
    PROVE  /\ chain[1].by \in Callers /\ Pending(1)
           /\ caller[chain[1].by].stage = Awaited(kind)
           /\ kind = "commit" => caller[chain[1].by].src = chain[1].src
<1>1. chain[1].kind = kind /\ 1 \in Places /\ OpFits(chain[1]) BY HeadFacts
<1>2. Pending(1) BY <1>1 DEF Pending
<1> QED BY <1>1, <1>2 DEF OpFits, IInv, Answered

\* The first operation ends while its caller goes elsewhere, claiming nothing
\* new; the entry stays.
LEMMA HeadEndsKeeps ==
    ASSUME IInv, NEW kind \in ByCaller, Head1(kind), chain[1].step # "dropped", OpEnds,
           NEW c \in Callers, c = chain[1].by, caller' \in [Callers -> Records],
           OthersStay(c), Fine(caller[c])', GoesOn(caller'[c], caller[c]),
           spent' \in Spendings, ForeignStays,
           UNCHANGED <<stored, entry, state, session, slipped>>
    PROVE  IInv'
<1>1. /\ chain # <<>> /\ chain[1].kind = kind /\ Pending(1)
      /\ chain[1].kind # "load"
  BY HeadFacts, HeadCaller DEF ByCaller
<1>2. Typed' /\ Shifted BY <1>1, ShiftedTyped
<1>3. \A d \in Callers : GoesOn(caller'[d], caller[d]) BY DEF OthersStay, GoesOn, Like
<1>4. ClaimsStay /\ KeepsStay BY <1>3, GoingOn
<1>5. Quiet BY <1>4 DEF Quiet, EntryGoesOn
<1>6. FineAfter BY DEF FineAfter, OthersStay, Like
<1>7. MovesHead BY <1>1 DEF MovesHead, OthersStay, Like
<1>8. OneClaim' BY <1>4, SameClaims DEF IInv
<1> QED BY <1>1, <1>2, <1>5, <1>6, <1>7, <1>8, QuietShifted

\* Likewise when the call ends with it.
LEMMA HeadCallEnds ==
    ASSUME IInv, NEW kind \in ByCaller, Head1(kind), chain[1].step # "dropped", OpEnds,
           NEW c \in Callers, c = chain[1].by, caller' \in [Callers -> Records],
           OthersStay(c), Ended(caller'[c]), caller'[c].ahead = 0,
           caller'[c].missed > 0 => caller'[c].stage = "borrowed" /\ spent.foreign > 0,
           spent' \in Spendings, ForeignStays,
           UNCHANGED <<stored, entry, state, session, slipped>>
    PROVE  IInv'
<1>1. chain # <<>> BY HeadFacts
<1>2. Typed' BY <1>1, ShiftedTyped
<1>3. Fine(caller[c])' BY <1>2, EndedFine DEF IInv, ForeignStays
<1>4. GoesOn(caller'[c], caller[c]) BY DEF GoesOn, Ended, Claiming
<1> QED BY <1>3, <1>4, HeadEndsKeeps

\* Likewise when the call is rejected with it.
LEMMA HeadCallRejected ==
    ASSUME IInv, NEW kind \in ByCaller, Head1(kind), chain[1].step # "dropped", OpEnds,
           NEW c \in Callers, c = chain[1].by, caller' = Rejects(c),
           spent' \in Spendings, ForeignStays,
           UNCHANGED <<stored, entry, state, session, slipped>>
    PROVE  IInv'
<1>1. /\ caller' \in [Callers -> Records] /\ OthersStay(c) /\ Ended(caller'[c])
      /\ caller'[c].missed = 0 /\ caller'[c].ahead = 0
  BY RejectsEffect DEF IInv, OthersStay
<1> QED BY <1>1, HeadCallEnds

\* A dropped operation ends without effect.
LEMMA DroppedEnds ==
    ASSUME IInv, NEW kind \in ByCaller, Head1(kind), OpEnds,
           UNCHANGED <<stored, entry, state, session, caller, spent, slipped>>
    PROVE  IInv'
<1>1. chain # <<>> /\ chain[1].kind = kind /\ chain[1].kind # "load"
  BY HeadFacts DEF ByCaller
<1>2. Typed' /\ Shifted BY <1>1, ShiftedTyped DEF IInv, Typed
<1>3. \A d \in Callers : Like(caller'[d], caller[d]) BY DEF Like
<1>4. ClaimsStay /\ KeepsStay BY <1>3, GoingOn DEF GoesOn
<1>5. Quiet /\ FineAfter /\ MovesHead
  BY <1>3, <1>4 DEF Quiet, EntryGoesOn, ForeignStays, FineAfter, MovesHead
<1>6. OneClaim' BY <1>4, SameClaims DEF IInv
<1> QED BY <1>1, <1>2, <1>5, <1>6, QuietShifted

\* The check of an inspection.
LEMMA CheckKeeps ==
    ASSUME IInv, Check PROVE IInv'
<1>1. Head1("check") /\ OpEnds /\ UNCHANGED <<stored, entry, state, session, slipped>>
      /\ "check" \in ByCaller
  BY DEF Check, ByCaller
<1>2. Head(chain) = chain[1] BY <1>1, HeadFacts
<1>3. CASE chain[1].step = "dropped"
  <2>1. UNCHANGED <<caller, spent>> BY <1>2, <1>3 DEF Check
  <2> QED BY <1>1, <2>1, DroppedEnds
<1>4. CASE chain[1].step # "dropped"
  <2>1. PICK c \in Callers : c = chain[1].by /\ caller[c].stage = "checking"
    BY <1>1, <1>4, HeadCaller DEF Awaited
  <2>2. caller[c].stage \in Sourced /\ caller[c].call = "inspect"
    BY <2>1 DEF Sourced, IInv, CallersFine, Fit
  <2>3. /\ caller[c].from \in Nat /\ caller[c].src.rev \in Nat /\ session.len \in Nat
        /\ stored.len \in Nat /\ spent.foreign \in Nat
    BY <2>1 DEF IInv, Typed, Records, Sources, Sessions, Logs, Spendings
  <2>4. Informed(caller[c]) BY <2>1 DEF IInv, CallersFine
  <2>5. \/ /\ caller' = Set(c, IF IsCurrent(caller[c].src) THEN "current" ELSE "stale")
           /\ UNCHANGED spent
        \/ Fails /\ caller' = IF Live THEN Borrows(c, session.len) ELSE Rejects(c)
    BY <1>2, <1>4, <2>1 DEF Check
  <2>6. CASE /\ caller' = Set(c, IF IsCurrent(caller[c].src) THEN "current" ELSE "stale")
             /\ UNCHANGED spent
    <3> DEFINE s == IF IsCurrent(caller[c].src) THEN "current" ELSE "stale"
    <3>1. s \in {"current", "stale"} /\ (s = "current" => caller[c].src.rev = stored.len)
      BY DEF IsCurrent
    <3>2. caller' = Set(c, s) BY <2>6
    <3> HIDE DEF s
    <3>3. /\ s \in Sourced /\ s \in Stages /\ s \notin Claiming /\ s \notin Keeping
          /\ s \notin {"loaded", "parked"}
      BY <3>1 DEF Sourced, Stages, Claiming, Keeping
    <3>4. s = "current" => caller[c].from <= Length(caller[c].src)
      <4>1. caller[c].from <= stored.len BY <2>1, <2>2, <2>4 DEF Informed
      <4> QED BY <2>3, <3>1, <4>1 DEF Length
    <3>5. /\ caller' \in [Callers -> Records] /\ OthersStay(c) /\ caller'[c].stage = s
      BY <2>1, <3>2, <3>3, SetEffect DEF IInv, OthersStay
    <3>6. Fine(caller[c])'
      <4>1. UNCHANGED <<stored, session>> /\ ForeignStays /\ entry'.no = entry.no
            /\ entry'.src = entry.src /\ entry'.phase = entry.phase
        BY <1>1, <2>6 DEF ForeignStays
      <4>2. s \in Keeping \cup {"current"} => s = "current" BY <3>3
      <4> QED BY <2>1, <2>2, <3>2, <3>3, <3>4, <4>1, <4>2, SetFine
    <3>7. spent' \in Spendings /\ ForeignStays BY <2>6 DEF IInv, Typed, ForeignStays
    <3>8. GoesOn(caller'[c], caller[c]) BY <3>3, <3>5 DEF GoesOn
    <3> QED BY <1>1, <1>4, <2>1, <3>5, <3>6, <3>7, <3>8, HeadEndsKeeps
  <2>7. CASE Fails /\ caller' = IF Live THEN Borrows(c, session.len) ELSE Rejects(c)
    <3>1. spent' \in Spendings /\ ForeignStays BY <2>7, FailsEffect DEF ForeignStays
    <3>2. CASE ~Live
      BY <1>1, <1>4, <2>1, <2>7, <3>1, <3>2, HeadCallRejected
    <3>3. CASE Live
      <4> DEFINE r == Returns(caller[c], session.len, "borrowed")
      <4>1. caller' = [caller EXCEPT ![c] = r] BY <2>7, <3>3 DEF Borrows
      <4>2. caller[c] \in Records BY <2>1 DEF IInv, Typed
      <4>3. /\ r \in Records /\ r.stage = "borrowed" /\ Ended(r)
            /\ r.missed = IF caller[c].from > session.len
                            THEN caller[c].from - session.len ELSE 0
            /\ r.ahead = IF caller[c].call \in {"prepare", "load"} /\ session.len > stored.len
                           THEN session.len - stored.len ELSE 0
        BY <2>3, <4>2, ReturnedRecord DEF IInv
      <4> HIDE DEF r
      <4>4. r.ahead = 0 BY <2>2, <4>3
      <4>5. r.missed > 0 => spent.foreign > 0
        BY <2>2, <2>3, <2>4, <3>3, <4>3 DEF Informed
      <4>6. caller' \in [Callers -> Records] /\ caller'[c] = r /\ OthersStay(c)
        BY <2>1, <4>1, <4>3, OneCaller DEF IInv, OthersStay
      <4> QED BY <1>1, <1>4, <2>1, <3>1, <4>3, <4>4, <4>5, <4>6, HeadCallEnds
    <3> QED BY <3>2, <3>3
  <2> QED BY <2>5, <2>6, <2>7
<1> QED BY <1>3, <1>4

\* The session's operations when the first operation goes on.
LEMMA SteppedOwns ==
    ASSUME Typed, Owns, NEW op, Stepped(op), op.kind = chain[1].kind, op.to = chain[1].to
    PROVE  /\ \A i, j \in Places' :
                chain'[i].kind \in BySession /\ chain'[j].kind \in BySession => i = j
           /\ \A i \in Places' :
                /\ chain'[i].kind \in BySession => session.no # None
                /\ chain'[i].kind = "suffix" => session.init = "running"
                /\ chain'[i].kind \in {"write", "forget"} => session.init = "ready"
                /\ chain'[i].kind = "forget" =>
                        session.phase = "retiring" /\ session.written = session.len
                /\ chain'[i].kind \in {"write", "suffix"} => chain'[i].to.len > session.written
<1>1. /\ Places' = Places /\ 1 \in Places /\ chain'[1] = op
      /\ \A i \in Places : i # 1 => chain'[i] = chain[i]
  BY SteppedPlaces
<1>2. \A i \in Places' : i \in Places /\ chain'[i].kind = chain[i].kind
                         /\ chain'[i].to = chain[i].to
  BY <1>1
<1> QED BY <1>2 DEF Owns

\* The sources of the operations then.
LEMMA SteppedSources ==
    ASSUME IInv, NEW op, Stepped(op), Fits(op.src), UNCHANGED stored
    PROVE  \A i \in Places' : FitsThen(chain'[i].src)
<1>1. /\ Places' = Places /\ 1 \in Places /\ chain'[1] = op
      /\ \A i \in Places : i # 1 => chain'[i] = chain[i]
  BY SteppedPlaces DEF IInv
<1> QED BY <1>1 DEF IInv, SourcesFit, Fits, FitsThen

\* A quiet step in which the first operation goes on, or gets a source.
LEMMA QuietStepped ==
    ASSUME IInv, Typed', Quiet, FineAfter, MovesFree, OneClaim', HeadHolds',
           NEW op \in Ops, Stepped(op), OpFits(op), op.kind = chain[1].kind,
           op.by = chain[1].by, op.to = chain[1].to, chain[1].step # "dropped",
           op.kind = "commit" => op.src = chain[1].src, Fits(op.src)
    PROVE  IInv'
<1>1. CallersFine' BY QuietCallers
<1>2. EntryCurrent' /\ Fits(entry.src)' /\ Counts' BY <1>1, QuietEntry
<1>3. OpsFit' BY SteppedOps DEF IInv
<1>4. Owns' BY SteppedOwns DEF Quiet, IInv, Owns
<1>5. SourcesFit' BY <1>2, SteppedSources DEF Quiet, SourcesFit, Fits, FitsThen
<1>6. Answered' /\ ReadsQueued' BY SteppedAnswered, SteppedReads DEF Quiet, IInv
<1> QED BY <1>1, <1>2, <1>3, <1>4, <1>5, <1>6 DEF IInv

\* The first operation goes on, and nothing else happens.
LEMMA HeadGoesOnKeeps ==
    ASSUME IInv, chain # <<>>, NEW op \in Ops, Stepped(op), OpFits(op),
           op.kind = chain[1].kind, op.by = chain[1].by, op.to = chain[1].to,
           chain[1].step # "dropped", op.kind = "commit" => op.src = chain[1].src,
           Fits(op.src), HeadHolds',
           UNCHANGED <<stored, entry, state, session, caller, spent, slipped>>
    PROVE  IInv'
<1>1. Typed'
  <2>1. chain' \in Seq(Ops) BY DEF Stepped
  <2> QED BY <2>1, TypedFrom DEF IInv, Typed
<1>2. \A d \in Callers : Like(caller'[d], caller[d]) BY DEF Like
<1>3. ClaimsStay /\ KeepsStay BY <1>2, GoingOn DEF GoesOn
<1>4. Quiet /\ FineAfter /\ MovesFree
  BY <1>2, <1>3 DEF Quiet, EntryGoesOn, ForeignStays, FineAfter, MovesFree
<1>5. OneClaim' BY <1>3, SameClaims DEF IInv
<1> QED BY <1>1, <1>4, <1>5, QuietStepped

\* A commit is refused, or finds its source invalid.
LEMMA RefusedKeeps ==
    ASSUME IInv, Head1("commit"), chain[1].step # "dropped", OpEnds,
           NEW c \in Callers, c = chain[1].by, NEW s \in {"refused", "invalid"},
           caller' = Set(c, s), spent' \in Spendings, ForeignStays,
           UNCHANGED <<stored, entry, state, session, slipped>>
    PROVE  IInv'
<1>1. "commit" \in ByCaller BY DEF ByCaller
<1>2. caller[c].stage = "committing" BY <1>1, HeadCaller DEF Awaited
<1>3. /\ s \in Sourced /\ s \in Stages /\ s \in Claiming \ {"holding"} /\ s \notin Keeping
      /\ s \notin {"loaded", "parked", "checking", "current", "stale"}
      /\ caller[c].stage \in Sourced /\ caller[c].stage \in Claiming \ {"holding"}
  BY <1>2 DEF Sourced, Stages, Claiming, Keeping
<1>4. /\ caller' \in [Callers -> Records] /\ OthersStay(c) /\ caller'[c].stage = s
      /\ caller'[c].no = caller[c].no /\ caller'[c].src = caller[c].src
  BY <1>3, SetEffect DEF IInv, OthersStay
<1>5. Fine(caller[c])' BY <1>3, SetFine
<1>6. GoesOn(caller'[c], caller[c]) BY <1>3, <1>4 DEF GoesOn
<1> QED BY <1>1, <1>4, <1>5, <1>6, HeadEndsKeeps

\* Whoever keeps a commit of the entry is the caller whose commit is pending.
LEMMA OneKeeper ==
    ASSUME IInv, NEW i \in Places, Commits(i), NEW d \in Callers, Claims(d),
           caller[d].no = entry.no
    PROVE  d = chain[i].by
<1>1. entry.phase \notin {"none", "loading"} BY DEF IInv, OneClaim
<1>2. caller[chain[i].by].no = entry.no BY <1>1 DEF IInv, ReadsQueued
<1>3. Pending(i) /\ chain[i].by \in Callers
  BY DEF Pending, Commits, ByCaller, IInv, OpsFit, OpFits
<1>4. Claims(chain[i].by) BY <1>3 DEF IInv, Answered, Awaited, Commits, Claims, Claiming
<1> QED BY <1>2, <1>3, <1>4 DEF IInv, OneClaim

\* A commit succeeds.
LEMMA CommittedKeeps ==
    ASSUME IInv, Head1("commit"), chain[1].step # "dropped", OpEnds, state.owner = None,
           IsCurrent(chain[1].src), ~OwesRepair(chain[1].src),
           NEW c \in Callers, c = chain[1].by, caller' = Set(c, "committed"),
           state' = Committed(chain[1].src),
           UNCHANGED <<stored, entry, session, spent, slipped>>
    PROVE  IInv'
<1>1. "commit" \in ByCaller /\ chain # <<>> /\ chain[1].kind = "commit" /\ 1 \in Places
      /\ chain[1] \in Ops
  BY HeadFacts DEF ByCaller
<1>2. /\ Pending(1) /\ Commits(1) /\ caller[c].stage = "committing"
      /\ caller[c].src = chain[1].src
  BY <1>1, HeadCaller DEF Awaited, Commits
<1>3. Shifted BY <1>1, OpEndsEffect DEF IInv
<1> DEFINE src == chain[1].src
<1>4. /\ src \in Sources /\ src.rev = stored.len /\ ~src.open /\ Length(src) = stored.len
      /\ ~stored.open /\ stored.len \in Nat
  <2>1. Fits(src) BY <1>1 DEF IInv, SourcesFit
  <2> QED BY <1>1, <2>1 DEF Fits, IsCurrent, OwesRepair, Length, Ops, IInv, Typed, Logs
<1>5. /\ state' \in States /\ state'.known /\ state'.cursor = stored.len
      /\ state'.owner = None /\ state' = Committed(caller[c].src)
  BY <1>2, <1>4 DEF Committed, States, None
<1> HIDE DEF src
<1>6. /\ "committed" \in Sourced /\ "committed" \in Stages /\ "committed" \in Claiming
      /\ "committed" \in Keeping
      /\ caller[c].stage \in Sourced /\ caller[c].stage \in Claiming \ {"holding"}
  BY <1>2 DEF Sourced, Stages, Claiming, Keeping
<1>7. /\ caller' \in [Callers -> Records] /\ OthersStay(c) /\ caller'[c].stage = "committed"
      /\ caller'[c].no = caller[c].no /\ caller'[c].src = caller[c].src
  BY <1>6, SetEffect DEF IInv, OthersStay
<1>8. Typed'
  <2>1. chain' \in Seq(Ops) BY <1>3 DEF Shifted
  <2> QED BY <1>5, <1>7, <2>1 DEF IInv, Typed
<1>9. LogGrows /\ SessionGoesOn /\ ForeignStays /\ EntryGoesOn
  BY DEF LogGrows, SessionGoesOn, ForeignStays, EntryGoesOn, IInv, Typed, Sessions
<1>10. session.no = None BY DEF IInv, Owns
<1>11. CallersFine'
  <2>1. caller[c].from <= Length(caller[c].src)
    <3>1. caller[c].from <= stored.len BY <1>10 DEF IInv, CallersFine, Informed
    <3> QED BY <1>2, <1>4, <3>1 DEF src
  <2>2. Fine(caller[c])' BY <1>6, <1>9, <2>1, SetFine
  <2>3. \A d \in Callers : Fine(caller[d])'
    <3> SUFFICES ASSUME NEW d \in Callers, d # c PROVE Fine(caller[d])' BY <2>2
    <3>1. Like(caller'[d], caller[d]) BY <1>7 DEF OthersStay, Like
    <3>2. spent'.foreign >= spent.foreign BY DEF IInv, Typed, Spendings
    <3> QED BY <1>8, <1>9, <3>1, <3>2, OthersFine DEF IInv
  <2> QED BY <2>3, CallersFineFrom
<1>12. OpsFit' /\ HeadHolds' BY <1>3, ShiftedOps DEF IInv
<1>13. SourcesFit'
  <2>1. Fits(entry.src)' BY DEF IInv, SourcesFit, Fits
  <2> QED BY <1>3, <1>8, <1>9, <2>1, ShiftedSources DEF SourcesFit, Fits, FitsThen
<1>14. MovesHead BY <1>2, <1>7 DEF MovesHead, OthersStay, Like
<1>15. Answered' /\ ReadsQueued'
  BY <1>1, <1>3, <1>9, <1>14, ShiftedAnswered, ShiftedReads DEF IInv
<1>16. ClaimsStay
  BY <1>6, <1>7 DEF ClaimsStay, OthersStay
<1>17. OneClaim' BY <1>16, SameClaims DEF IInv
<1>18. Owns' BY <1>3, <1>5, <1>10, ShiftedOwns DEF IInv, Owns
<1>19. Counts' BY <1>4, <1>5, <1>10 DEF Counts
<1>20. EntryCurrent'
  <2>1. \A d \in Callers : Keeps(d)' /\ caller'[d].no = entry'.no => d = c
    <3> SUFFICES ASSUME NEW d \in Callers, d # c, caller'[d].stage \in Keeping,
                        caller'[d].no = entry.no
                 PROVE  FALSE
      BY DEF Keeps
    <3>1. Claims(d) /\ caller[d].no = entry.no
      BY <1>7 DEF OthersStay, Claims, Keeping, Claiming
    <3> QED BY <1>1, <1>2, <3>1, OneKeeper
  <2>2. state' = Committed(caller'[c].src) BY <1>5, <1>7
  <2>3. stored'.len = state'.cursor /\ ~stored'.open BY <1>4, <1>5
  <2>4. spent'.foreign = 0 /\ entry'.phase \notin {"none", "loading"} =>
            stored'.len <= Length(entry'.src)
    BY DEF IInv, EntryCurrent
  <2> QED BY <2>1, <2>2, <2>3, <2>4 DEF EntryCurrent, Committed, Length
<1> QED
  BY <1>8, <1>11, <1>12, <1>13, <1>15, <1>17, <1>18, <1>19, <1>20 DEF IInv

\* The log has grown, and the source a caller committed is not current any more.
LEMMA InvalidFine ==
    ASSUME IInv, Typed', NEW c \in Callers, caller[c].stage = "committing",
           caller' = Set(c, "invalid"), LogGrows, UNCHANGED <<entry, session, spent>>
    PROVE  Fine(caller[c])'
<1> DEFINE q == caller[c]
           r == caller'[c]
<1>1. /\ r.stage = "invalid" /\ r.call = q.call /\ r.no = q.no /\ r.src = q.src
      /\ r.from = q.from /\ r.missed = q.missed /\ r.ahead = q.ahead
  BY SetEffect DEF IInv, Stages
<1>2. /\ q \in Records /\ Fit(q) /\ Fitting(q) /\ Shared(q) /\ Informed(q) /\ Honest(q)
      /\ q.stage = "committing"
  BY DEF IInv, Typed, CallersFine
<1>3. stored \in Logs /\ stored' \in Logs BY DEF IInv, Typed
<1> HIDE DEF q, r
<1>4. Fit(r) BY <1>1, <1>2 DEF Fit, Sourced, Claiming
<1>5. FitsThen(r.src)
  BY <1>1, <1>2, <1>3 DEF Fitting, Fits, FitsThen, LogGrows, Logs, Records, Sources
<1>6. r.no = entry.no => entry.phase # "loading" /\ r.src = entry.src
  BY <1>1, <1>2 DEF Shared, Sourced, Claiming
<1>7. r.call \in {"prepare", "load"} BY <1>1, <1>2 DEF Fit, Claiming
<1>8. /\ r.from <= stored'.len \/ (session.no # None /\ r.from <= session.len)
      /\ spent.foreign = 0 /\ Live => r.from <= session.len
  BY <1>1, <1>2, <1>3, <1>7 DEF Informed, LogGrows, Logs, Records
<1>9. r.missed = 0 /\ r.ahead = 0 BY <1>1, <1>2 DEF Honest, Records
<1> QED
  BY <1>1, <1>4, <1>5, <1>6, <1>7, <1>8, <1>9
  DEF Fine, Fit, Fitting, Fits, FitsThen, Shared, Informed, Live, Keeping, Honest, r

\* A commit repairs the log, and its source is read again.
LEMMA RepairedKeeps ==
    ASSUME IInv, Head1("commit"), chain[1].step = "repair", OpEnds,
           NEW c \in Callers, c = chain[1].by, caller' = Set(c, "invalid"),
           stored' = [len |-> stored.len + 1, open |-> FALSE],
           UNCHANGED <<entry, state, session, spent, slipped>>
    PROVE  IInv'
<1>1. "commit" \in ByCaller /\ chain # <<>> /\ chain[1].kind = "commit" /\ 1 \in Places
      /\ chain[1] \in Ops
  BY HeadFacts DEF ByCaller
<1>2. /\ Pending(1) /\ Commits(1) /\ caller[c].stage = "committing"
      /\ caller[c].src = chain[1].src
  BY <1>1, HeadCaller DEF Awaited, Commits
<1>3. Shifted BY <1>1, OpEndsEffect DEF IInv
<1>4. /\ stored' \in Logs /\ stored'.len = stored.len + 1 /\ stored.len \in Nat
      /\ ~stored'.open
  BY DEF IInv, Typed, Logs
<1>5. /\ caller' \in [Callers -> Records] /\ OthersStay(c) /\ caller'[c].stage = "invalid"
      /\ caller'[c].no = caller[c].no /\ caller'[c].src = caller[c].src
  BY SetEffect DEF IInv, OthersStay, Stages
<1>6. Typed'
  <2>1. chain' \in Seq(Ops) BY <1>3 DEF Shifted
  <2> QED BY <1>4, <1>5, <2>1 DEF IInv, Typed
<1>7. LogGrows /\ SessionGoesOn /\ ForeignStays /\ EntryGoesOn
  BY <1>4 DEF LogGrows, SessionGoesOn, ForeignStays, EntryGoesOn, IInv, Typed, Sessions
<1>8. CallersFine'
  <2>1. Fine(caller[c])' BY <1>2, <1>6, <1>7, InvalidFine
  <2>2. \A d \in Callers : Fine(caller[d])'
    <3> SUFFICES ASSUME NEW d \in Callers, d # c PROVE Fine(caller[d])' BY <2>1
    <3>1. Like(caller'[d], caller[d]) BY <1>5 DEF OthersStay, Like
    <3>2. spent'.foreign >= spent.foreign BY DEF IInv, Typed, Spendings
    <3> QED BY <1>6, <1>7, <3>1, <3>2, OthersFine DEF IInv
  <2> QED BY <2>2, CallersFineFrom
<1>9. OpsFit' /\ HeadHolds' BY <1>3, ShiftedOps DEF IInv
<1>10. SourcesFit'
  <2>1. entry.src \in Sources /\ Fits(entry.src)
    BY DEF IInv, Typed, Entries, SourcesFit
  <2>2. Fits(entry.src)' BY <1>6, <1>7, <2>1, FitsGrow DEF IInv
  <2> QED BY <1>3, <1>6, <1>7, <2>2, ShiftedSources DEF SourcesFit, Fits, FitsThen
<1>11. MovesHead BY <1>2, <1>5 DEF MovesHead, OthersStay, Like
<1>12. Answered' /\ ReadsQueued'
  BY <1>1, <1>3, <1>7, <1>11, ShiftedAnswered, ShiftedReads DEF IInv
<1>13. \A d \in Callers : GoesOn(caller'[d], caller[d])
  BY <1>2, <1>5 DEF GoesOn, OthersStay, Like, Claiming, Keeping
<1>14. ClaimsStay /\ KeepsStay BY <1>13, GoingOn
<1>15. OneClaim' BY <1>14, SameClaims DEF IInv
<1>16. Owns' BY <1>3, ShiftedOwns DEF IInv, Owns
<1>17. Counts' BY <1>4 DEF IInv, Counts, Typed, States
<1>18. EntryCurrent'
  <2>1. ASSUME NEW d \in Callers, caller'[d].stage \in Keeping, caller'[d].no = entry.no
        PROVE  FALSE
    <3>1. Keeps(d) /\ caller[d].no = entry.no BY <1>14, <2>1 DEF KeepsStay, Keeps
    <3>2. d = c BY <1>1, <1>2, <3>1, OneKeeper DEF Claims, Keeps, Keeping, Claiming
    <3> QED BY <1>2, <3>1, <3>2 DEF Keeps, Keeping
  <2>2. ASSUME spent.foreign = 0, entry.phase \notin {"none", "loading"}
        PROVE  stored'.len <= Length(entry.src)
    <3>1. caller[c].no = entry.no BY <1>1, <1>2, <2>2 DEF IInv, ReadsQueued
    <3>2. caller[c].stage \in Sourced BY <1>2 DEF Sourced, Claiming
    <3>3. entry.src = chain[1].src BY <1>2, <3>1, <3>2 DEF IInv, CallersFine, Shared
    <3>4. chain[1].src.open /\ chain[1].src.rev = stored.len
      BY <1>1, <2>2, HeadFacts DEF IInv, HeadHolds, Running
    <3> QED BY <1>4, <3>3, <3>4 DEF Length
  <2> QED BY <2>1, <2>2 DEF EntryCurrent, Keeps, Length
<1> QED
  BY <1>6, <1>8, <1>9, <1>10, <1>12, <1>15, <1>16, <1>17, <1>18 DEF IInv

\* commitPrepared.
LEMMA CommitKeeps ==
    ASSUME IInv, Commit PROVE IInv'
<1>1. Head1("commit") /\ UNCHANGED <<entry, session, slipped>> /\ "commit" \in ByCaller
  BY DEF Commit, ByCaller
<1>2. /\ Head(chain) = chain[1] /\ chain # <<>> /\ chain[1].kind = "commit" /\ 1 \in Places
      /\ chain[1] \in Ops /\ OpFits(chain[1])
  BY <1>1, HeadFacts
<1>3. CASE chain[1].step = "dropped"
  <2>1. OpEnds /\ UNCHANGED <<stored, state, caller, spent>> BY <1>2, <1>3 DEF Commit
  <2> QED BY <1>1, <2>1, DroppedEnds
<1>4. CASE chain[1].step = "queued"
  <2>1. PICK c \in Callers : c = chain[1].by BY <1>1, <1>4, HeadCaller
  <2> DEFINE src == chain[1].src
  <2>2. /\ UNCHANGED stored
        /\ \/ /\ OpEnds /\ UNCHANGED state
              /\ \E s \in {"refused", "invalid"} : caller' = Set(c, s)
              /\ Fails \/ UNCHANGED spent
           \/ /\ state.owner = None /\ IsCurrent(src) /\ OwesRepair(src)
              /\ OpGoesTo("repair") /\ UNCHANGED <<state, caller, spent>>
           \/ /\ state.owner = None /\ IsCurrent(src) /\ ~OwesRepair(src)
              /\ OpEnds /\ caller' = Set(c, "committed")
              /\ state' = Committed(src) /\ UNCHANGED spent
    BY <1>2, <1>4, <2>1 DEF Commit
  <2>3. CASE /\ OpEnds /\ UNCHANGED state
             /\ \E s \in {"refused", "invalid"} : caller' = Set(c, s)
             /\ Fails \/ UNCHANGED spent
    <3>1. PICK s \in {"refused", "invalid"} : caller' = Set(c, s) BY <2>3
    <3>2. spent' \in Spendings /\ ForeignStays BY <2>3, FailsEffect DEF ForeignStays
    <3> QED BY <1>1, <1>4, <2>1, <2>2, <2>3, <3>1, <3>2, RefusedKeeps
  <2>4. CASE /\ state.owner = None /\ IsCurrent(src) /\ OwesRepair(src)
             /\ OpGoesTo("repair") /\ UNCHANGED <<state, caller, spent>>
    <3>1. PICK op \in Ops : /\ Stepped(op) /\ op.kind = chain[1].kind /\ op.by = chain[1].by
                            /\ op.src = chain[1].src /\ op.to = chain[1].to
                            /\ op.step = "repair"
      BY <1>2, <2>4, OpGoesToEffect DEF IInv
    <3>2. OpFits(op) BY <1>2, <3>1 DEF OpFits
    <3>3. Fits(op.src) BY <1>2, <3>1 DEF IInv, SourcesFit
    <3>4. chain'[1] = op BY <3>1 DEF Stepped
    <3>5. op.src.open /\ op.src.rev = stored'.len
      BY <2>2, <2>4, <3>1 DEF IsCurrent, OwesRepair
    <3>6. HeadHolds' BY <1>2, <3>1, <3>4, <3>5 DEF HeadHolds, Running, Adopting
    <3> QED BY <1>1, <1>2, <1>4, <2>2, <2>4, <3>1, <3>2, <3>3, <3>6, HeadGoesOnKeeps
  <2>5. CASE /\ state.owner = None /\ IsCurrent(src) /\ ~OwesRepair(src)
             /\ OpEnds /\ caller' = Set(c, "committed")
             /\ state' = Committed(src) /\ UNCHANGED spent
    BY <1>1, <1>4, <2>1, <2>2, <2>5, CommittedKeeps
  <2> QED BY <2>2, <2>3, <2>4, <2>5
<1>5. CASE chain[1].step = "repair"
  <2>1. PICK c \in Callers : c = chain[1].by BY <1>1, <1>5, HeadCaller
  <2>2. /\ OpEnds /\ UNCHANGED state
        /\ \/ /\ stored' = [len |-> stored.len + 1, open |-> FALSE]
              /\ caller' = Set(c, "invalid") /\ UNCHANGED spent
           \/ caller' = Set(c, "refused") /\ Fails /\ UNCHANGED stored
    BY <1>2, <1>5, <2>1 DEF Commit
  <2>3. CASE caller' = Set(c, "refused") /\ Fails /\ UNCHANGED stored
    <3>1. spent' \in Spendings /\ ForeignStays BY <2>3, FailsEffect DEF ForeignStays
    <3> QED BY <1>1, <1>5, <2>1, <2>2, <2>3, <3>1, RefusedKeeps
  <2> QED BY <1>1, <1>5, <2>1, <2>2, <2>3, RepairedKeeps
<1> QED BY <1>2, <1>3, <1>4, <1>5 DEF OpFits

(***************************************************************************)
(* Appends of detached callers.                                             *)
(***************************************************************************)

\* Where the entry is neither ready nor reserved, nobody claims its number.
LEMMA Unclaimed ==
    ASSUME IInv, entry.phase \notin {"committing", "reserved"}, NEW d \in Callers, Claims(d)
    PROVE  caller[d].no # entry.no
BY DEF IInv, OneClaim

\* An append at the head gets a source to adopt the id from.
LEMMA AdoptedEffect ==
    ASSUME Typed, chain # <<>>, NEW src \in Sources,
           chain' = [chain EXCEPT ![1].step = "adopted", ![1].src = src]
    PROVE  \E op \in Ops : /\ Stepped(op) /\ op.kind = chain[1].kind /\ op.by = chain[1].by
                           /\ op.src = src /\ op.to = chain[1].to /\ op.step = "adopted"
<1> DEFINE op == [chain[1] EXCEPT !.step = "adopted", !.src = src]
<1>1. chain[1] \in Ops /\ 1 \in DOMAIN chain
  BY HeadIsFirst, ChainTyped DEF Places, Typed
<1>2. /\ op \in Ops /\ op.kind = chain[1].kind /\ op.by = chain[1].by
      /\ op.src = src /\ op.to = chain[1].to /\ op.step = "adopted"
  BY <1>1 DEF Ops
<1>3. chain' = [chain EXCEPT ![1] = op] BY <1>1
<1> HIDE DEF op
<1>4. Stepped(op) BY <1>2, <1>3, HeadReplaced
<1> QED BY <1>2, <1>4

\* The sources of the operations when the first one goes on and the log grows.
LEMMA SteppedSourcesGrow ==
    ASSUME IInv, Typed', LogGrows, NEW op, Stepped(op), FitsThen(op.src)
    PROVE  \A i \in Places' : FitsThen(chain'[i].src)
<1>1. /\ Places' = Places /\ 1 \in Places /\ chain'[1] = op
      /\ \A i \in Places : i # 1 => chain'[i] = chain[i]
  BY SteppedPlaces DEF IInv
<1> SUFFICES ASSUME NEW i \in Places, i # 1 PROVE FitsThen(chain[i].src) BY <1>1
<1>2. chain[i].src \in Sources /\ Fits(chain[i].src)
  BY ChainTyped DEF IInv, Ops, SourcesFit
<1> QED BY <1>2, FitsGrow DEF IInv, Fits, FitsThen

\* A step of an adoption: the append goes on, the log may grow by the repair,
\* and the state is known when the adoption is over.
LEMMA AdoptionKeeps ==
    ASSUME IInv, chain # <<>>, chain[1].kind = "append",
           entry.phase \in {"none", "loading"}, ~state.known,
           NEW op \in Ops, Stepped(op), op.kind = "append", op.by = chain[1].by,
           op.to = chain[1].to, op.step # "dropped", FitsThen(op.src),
           stored' \in Logs, stored'.len > 0, LogGrows,
           state' \in States, state'.owner = None,
           state'.known => op.step = "writing" /\ state'.cursor <= stored'.len,
           UNCHANGED <<entry, session, caller, spent, slipped>>
    PROVE  IInv'
<1>1. chain[1].step # "dropped" /\ chain[1].by \in Callers
  BY HeadIsFirst DEF IInv, OpsFit, OpFits, ByCaller
<1>2. OpFits(op) BY <1>1 DEF OpFits
<1>3. Typed'
  <2>1. chain' \in Seq(Ops) BY DEF Stepped
  <2> QED BY <2>1 DEF IInv, Typed
<1>4. \A d \in Callers : Like(caller'[d], caller[d]) BY DEF Like
<1>5. SessionGoesOn /\ ForeignStays /\ EntryGoesOn /\ MovesFree
  BY <1>4 DEF SessionGoesOn, ForeignStays, EntryGoesOn, MovesFree, IInv, Typed, Sessions
<1>6. CallersFine'
  <2>1. spent'.foreign >= spent.foreign BY DEF IInv, Typed, Spendings
  <2>2. \A d \in Callers : Fine(caller[d])'
    BY <1>3, <1>4, <1>5, <2>1, OthersFine DEF IInv
  <2> QED BY <2>2, CallersFineFrom
<1>7. OpsFit' BY <1>2, SteppedOps DEF IInv
<1>8. SourcesFit'
  <2>1. entry.src \in Sources /\ Fits(entry.src)
    BY DEF IInv, Typed, Entries, SourcesFit
  <2>2. Fits(entry.src)' BY <1>3, <2>1, FitsGrow DEF IInv
  <2> QED BY <1>3, <2>2, SteppedSourcesGrow DEF SourcesFit, Fits, FitsThen
<1>9. Answered' /\ ReadsQueued'
  BY <1>1, <1>5, SteppedAnswered, SteppedReads DEF IInv
<1>10. ClaimsStay /\ KeepsStay BY <1>4, GoingOn DEF GoesOn
<1>11. OneClaim' BY <1>10, SameClaims DEF IInv
<1>12. \A d \in Callers : Keeps(d) => caller[d].no # entry.no
  BY Unclaimed DEF Keeps, Claims, Keeping, Claiming
<1>13. chain'[1] = op BY DEF Stepped
<1>14. HeadHolds'
  <2>1. \A d \in Callers : Keeps(d)' => caller'[d].no # entry'.no BY <1>12 DEF Keeps
  <2> QED BY <1>13, <2>1 DEF HeadHolds, Running, Adopting
<1>15. session.no = None /\ state.owner = None BY DEF IInv, Owns
<1>16. Owns' BY <1>15, SteppedOwns DEF IInv, Owns
<1>17. Counts' BY <1>15 DEF Counts
<1>18. EntryCurrent' BY <1>12 DEF EntryCurrent, Keeps
<1> QED
  BY <1>3, <1>6, <1>7, <1>8, <1>9, <1>11, <1>14, <1>16, <1>17, <1>18 DEF IInv

\* An append adopts the id.
LEMMA AdoptKeeps ==
    ASSUME IInv, Head1("append"), chain[1].step # "dropped", Writable, ~state.known, Adopt,
           UNCHANGED <<stored, state, session, slipped>>
    PROVE  IInv'
<1>1. /\ Head(chain) = chain[1] /\ chain # <<>> /\ chain[1].kind = "append" /\ 1 \in Places
      /\ chain[1] \in Ops /\ OpFits(chain[1]) /\ "append" \in ByCaller
  BY HeadFacts DEF ByCaller
<1>2. state.owner = None BY DEF IInv, Owns
<1>3. entry \in Entries /\ entry.phase \notin {"committing", "reserved"}
  BY DEF IInv, Typed, Writable
<1>4. CASE /\ entry.phase = "ready"
           /\ chain' = [chain EXCEPT ![1].step = "adopted", ![1].src = entry.src]
           /\ Invalidate(caller) /\ UNCHANGED spent
  <2>1. entry.src \in Sources /\ Fits(entry.src) BY <1>3 DEF Entries, IInv, SourcesFit
  <2>2. PICK op \in Ops : /\ Stepped(op) /\ op.kind = chain[1].kind /\ op.by = chain[1].by
                          /\ op.src = entry.src /\ op.to = chain[1].to /\ op.step = "adopted"
    BY <1>1, <1>4, <2>1, AdoptedEffect DEF IInv
  <2>3. caller \in [Callers -> Records] /\ Remove(entry.no, caller)
    BY <1>4 DEF IInv, Typed, Invalidate
  <2>4. /\ caller' \in [Callers -> Records] /\ entry' = NoEntry
        /\ \A d \in Callers : Like(caller'[d], caller[d])
    BY <2>3, RemoveEffect
  <2>5. Typed'
    <3>1. chain' \in Seq(Ops) BY <2>2 DEF Stepped
    <3> QED BY <1>4, <2>4, <3>1, NoThings, TypedFrom DEF IInv, Typed
  <2>6. ClaimsStay /\ KeepsStay BY <2>4, GoingOn DEF GoesOn
  <2>7. Quiet /\ FineAfter /\ MovesFree
    BY <1>4, <2>4, <2>6 DEF Quiet, EntryGoesOn, ForeignStays, FineAfter, MovesFree
  <2>8. \A d \in Callers : caller'[d].stage # "holding"
    <3> SUFFICES ASSUME NEW d \in Callers, caller[d].stage = "holding" PROVE FALSE
      BY <2>4 DEF Like
    <3> QED BY <1>3 DEF IInv, OneClaim, Claims, Claiming
  <2>9. CallersFine' BY <2>5, <2>7, QuietCallers
  <2>10. OneClaim' BY <2>4, <2>6, <2>8, <2>9, LeftClaims DEF IInv
  <2>11. HeadHolds'
    <3>1. chain'[1] = op BY <2>2 DEF Stepped
    <3>2. entry'.phase = "none" /\ ~state'.known BY <2>4, NoThings
    <3> QED BY <1>1, <2>2, <3>1, <3>2 DEF HeadHolds, Running, Adopting
  <2>12. OpFits(op) BY <1>1, <2>2 DEF OpFits
  <2> QED BY <1>1, <2>1, <2>2, <2>5, <2>7, <2>10, <2>11, <2>12, QuietStepped
<1>5. CASE /\ entry.phase # "ready" /\ ~Live
           /\ chain' = [chain EXCEPT ![1].step = "adopted", ![1].src = Read(None)]
           /\ UNCHANGED <<entry, caller, spent>>
  <2>1. Read(None) \in Sources /\ FitsThen(Read(None))
    BY DEF Read, Sources, None, FitsThen, IInv, Typed, Logs
  <2>2. PICK op \in Ops : /\ Stepped(op) /\ op.kind = chain[1].kind /\ op.by = chain[1].by
                          /\ op.src = Read(None) /\ op.to = chain[1].to /\ op.step = "adopted"
    BY <1>1, <1>5, <2>1, AdoptedEffect DEF IInv
  <2>3. entry.phase \in {"none", "loading"} BY <1>3, <1>5 DEF Entries, Phases
  <2>4. /\ stored' \in Logs /\ stored'.len > 0 /\ LogGrows
        /\ state' \in States /\ state'.owner = None /\ ~state'.known
    BY <1>2 DEF IInv, Typed, LogGrows
  <2> QED BY <1>1, <1>5, <2>1, <2>2, <2>3, <2>4, AdoptionKeeps
<1>6. CASE /\ entry.phase # "ready" /\ FailsUnlessLive
           /\ OpEnds /\ caller' = Rejects(Head(chain).by) /\ UNCHANGED entry
  <2>1. PICK c \in Callers : c = chain[1].by BY <1>1, HeadCaller
  <2>2. spent' \in Spendings /\ ForeignStays BY <1>6, FailsEffect DEF ForeignStays
  <2> QED BY <1>1, <1>6, <2>1, <2>2, HeadCallRejected
<1> QED BY <1>4, <1>5, <1>6 DEF Adopt

\* appendCore up to the backend's write.
LEMMA AppendStartsKeeps ==
    ASSUME IInv, AppendStarts PROVE IInv'
<1>1. Head1("append") /\ UNCHANGED <<stored, session, slipped>> BY DEF AppendStarts
<1>2. /\ Head(chain) = chain[1] /\ chain # <<>> /\ chain[1].kind = "append" /\ 1 \in Places
      /\ chain[1] \in Ops /\ OpFits(chain[1]) /\ "append" \in ByCaller /\ Len(chain) > 0
  BY <1>1, HeadFacts DEF ByCaller
<1>3. chain[1].step # "dropped" BY <1>2 DEF OpFits
<1>4. PICK c \in Callers : c = chain[1].by BY <1>1, <1>2, <1>3, HeadCaller
<1>5. stored' \in Logs /\ stored'.len > 0 /\ LogGrows BY <1>1 DEF IInv, Typed, LogGrows
<1>6. CASE chain[1].step = "queued"
  <2>1. /\ UNCHANGED state
        /\ IF ~Writable
             THEN OpEnds /\ caller' = Rejects(c) /\ UNCHANGED <<entry, spent>>
             ELSE IF state.known
               THEN OpGoesTo("writing") /\ UNCHANGED <<entry, caller, spent>>
               ELSE Adopt
    BY <1>2, <1>4, <1>6 DEF AppendStarts
  <2>2. CASE ~Writable
    <3>1. OpEnds /\ caller' = Rejects(c) /\ UNCHANGED <<entry, spent>> BY <2>1, <2>2
    <3>2. spent' \in Spendings /\ ForeignStays BY <3>1 DEF IInv, Typed, ForeignStays
    <3> QED BY <1>1, <1>2, <1>3, <1>4, <2>1, <3>1, <3>2, HeadCallRejected
  <2>3. CASE Writable /\ state.known
    <3>1. OpGoesTo("writing") /\ UNCHANGED <<entry, caller, spent>> BY <2>1, <2>3
    <3>2. PICK op \in Ops : /\ Stepped(op) /\ op.kind = chain[1].kind /\ op.by = chain[1].by
                            /\ op.src = chain[1].src /\ op.to = chain[1].to
                            /\ op.step = "writing"
      BY <1>2, <3>1, OpGoesToEffect DEF IInv
    <3>3. OpFits(op) BY <1>2, <3>2 DEF OpFits
    <3>4. Fits(op.src) BY <1>2, <3>2 DEF IInv, SourcesFit
    <3>5. chain'[1] = op BY <3>2 DEF Stepped
    <3>6. HeadHolds'
      <4>1. \A d \in Callers : Keeps(d) => caller[d].no # entry.no
        BY <2>3, Unclaimed DEF Writable, Keeps, Claims, Keeping, Claiming
      <4>2. \A d \in Callers : Keeps(d)' => caller'[d].no # entry'.no
        BY <3>1, <4>1 DEF Keeps
      <4> QED BY <1>2, <3>2, <3>5, <4>2 DEF HeadHolds, Running, Adopting
    <3> QED BY <1>1, <1>2, <1>3, <2>1, <3>1, <3>2, <3>3, <3>4, <3>6, HeadGoesOnKeeps
  <2>4. CASE Writable /\ ~state.known
    BY <1>1, <1>3, <2>1, <2>4, AdoptKeeps
  <2> QED BY <2>2, <2>3, <2>4
<1>7. ASSUME chain[1].step \in {"stale", "adopted"}
      PROVE  entry.phase \in {"none", "loading"} /\ ~state.known /\ Writable
             /\ state.owner = None
  BY <1>2, <1>7 DEF IInv, HeadHolds, Adopting, Writable, Owns
<1>8. CASE chain[1].step = "stale"
  <2>1. Adopt /\ UNCHANGED state BY <1>2, <1>8 DEF AppendStarts
  <2> QED BY <1>1, <1>3, <1>7, <1>8, <2>1, AdoptKeeps
<1>9. CASE chain[1].step = "adopted"
  <2> DEFINE src == chain[1].src
  <2>1. /\ UNCHANGED entry
        /\ \/ /\ OpGoesTo("stale") \/ OpGoesTo("repair")
              /\ UNCHANGED <<state, caller, spent>>
           \/ /\ IsCurrent(src) /\ ~OwesRepair(src)
              /\ OpGoesTo("writing") /\ state' = Committed(src)
              /\ UNCHANGED <<caller, spent>>
           \/ OpEnds /\ caller' = Rejects(c) /\ Fails /\ UNCHANGED state
    BY <1>2, <1>4, <1>9 DEF AppendStarts
  <2>2. Fits(src) /\ FitsThen(src) /\ src \in Sources
    BY <1>1, <1>2 DEF IInv, SourcesFit, Fits, FitsThen, Ops
  <2>3. CASE /\ OpGoesTo("stale") \/ OpGoesTo("repair")
             /\ UNCHANGED <<state, caller, spent>>
    <3>1. PICK op \in Ops : /\ Stepped(op) /\ op.kind = chain[1].kind /\ op.by = chain[1].by
                            /\ op.src = chain[1].src /\ op.to = chain[1].to
                            /\ op.step # "dropped"
      BY <1>2, <2>3, OpGoesToEffect DEF IInv
    <3>2. state' \in States /\ state'.owner = None /\ ~state'.known
      BY <1>7, <1>9, <2>3 DEF IInv, Typed
    <3> QED BY <1>1, <1>2, <1>5, <1>7, <1>9, <2>1, <2>2, <2>3, <3>1, <3>2, AdoptionKeeps
  <2>4. CASE /\ IsCurrent(src) /\ ~OwesRepair(src)
             /\ OpGoesTo("writing") /\ state' = Committed(src)
             /\ UNCHANGED <<caller, spent>>
    <3>1. PICK op \in Ops : /\ Stepped(op) /\ op.kind = chain[1].kind /\ op.by = chain[1].by
                            /\ op.src = chain[1].src /\ op.to = chain[1].to
                            /\ op.step = "writing"
      BY <1>2, <2>4, OpGoesToEffect DEF IInv
    <3>2. /\ state' \in States /\ state'.owner = None /\ state'.known
          /\ state'.cursor <= stored'.len
      BY <1>1, <2>2, <2>4
      DEF Committed, Length, OwesRepair, IsCurrent, States, None, Sources, IInv, Typed, Logs
    <3> QED BY <1>1, <1>2, <1>5, <1>7, <1>9, <2>1, <2>2, <2>4, <3>1, <3>2, AdoptionKeeps
  <2>5. CASE OpEnds /\ caller' = Rejects(c) /\ Fails /\ UNCHANGED state
    <3>1. spent' \in Spendings /\ ForeignStays BY <2>5, FailsEffect DEF ForeignStays
    <3> QED BY <1>1, <1>2, <1>3, <1>4, <2>1, <2>5, <3>1, HeadCallRejected
  <2> QED BY <2>1, <2>3, <2>4, <2>5
<1>10. chain[1].step \in {"queued", "stale", "adopted"} BY <1>2 DEF AppendStarts
<1> QED BY <1>6, <1>8, <1>9, <1>10

\* commitRepair inside an adoption.
LEMMA AppendRepairsKeeps ==
    ASSUME IInv, AppendRepairs PROVE IInv'
<1>1. /\ Head1("append") /\ Head(chain).step = "repair"
      /\ UNCHANGED <<entry, state, session, slipped>>
  BY DEF AppendRepairs
<1>2. /\ Head(chain) = chain[1] /\ chain # <<>> /\ chain[1].kind = "append" /\ 1 \in Places
      /\ chain[1] \in Ops /\ OpFits(chain[1]) /\ "append" \in ByCaller /\ Len(chain) > 0
      /\ chain[1].step = "repair"
  BY <1>1, HeadFacts DEF ByCaller
<1>3. PICK c \in Callers : c = chain[1].by BY <1>1, <1>2, HeadCaller
<1>4. CASE /\ stored' = [len |-> stored.len + 1, open |-> FALSE]
           /\ OpGoesTo("stale") /\ UNCHANGED <<caller, spent>>
  <2>1. PICK op \in Ops : /\ Stepped(op) /\ op.kind = chain[1].kind /\ op.by = chain[1].by
                          /\ op.src = chain[1].src /\ op.to = chain[1].to
                          /\ op.step = "stale"
    BY <1>2, <1>4, OpGoesToEffect DEF IInv
  <2>2. stored \in Logs /\ stored' \in Logs /\ stored'.len > 0 /\ stored'.len > stored.len
    BY <1>4 DEF IInv, Typed, Logs
  <2>3. LogGrows BY <2>2 DEF LogGrows
  <2>4. FitsThen(op.src)
    <3>1. op.src \in Sources /\ Fits(op.src) BY <1>2, <2>1 DEF IInv, SourcesFit, Ops
    <3> QED BY <2>2, <3>1 DEF Fits, FitsThen, Sources, Logs
  <2>5. /\ entry.phase \in {"none", "loading"} /\ ~state.known /\ state.owner = None
        /\ state \in States
    BY <1>2 DEF IInv, HeadHolds, Adopting, Owns, Typed
  <2> QED BY <1>1, <1>2, <1>4, <2>1, <2>2, <2>3, <2>4, <2>5, AdoptionKeeps
<1>5. CASE OpEnds /\ caller' = Rejects(Head(chain).by) /\ Fails /\ UNCHANGED stored
  <2>1. spent' \in Spendings /\ ForeignStays BY <1>5, FailsEffect DEF ForeignStays
  <2> QED BY <1>1, <1>2, <1>3, <1>5, <2>1, HeadCallRejected
<1> QED BY <1>4, <1>5 DEF AppendRepairs

\* A write at the head reached the log and the cache: the entry is forgotten,
\* and who called for the write is told.
LEMMA WrittenKeeps ==
    ASSUME IInv, chain # <<>>, chain[1].step = "writing", OpEnds, entry' = NoEntry,
           caller' \in [Callers -> Records],
           \A d \in Callers :
                \/ Like(caller'[d], caller[d])
                \/ /\ Pending(1) /\ chain[1].by = d /\ Ended(caller'[d])
                   /\ caller'[d].missed = 0 /\ caller'[d].ahead = 0,
           stored' \in Logs, stored'.len > stored.len,
           state' \in States, session' \in Sessions, SessionGoesOn,
           slipped' \in BOOLEAN, UNCHANGED spent, Owns', Counts'
    PROVE  IInv'
<1>1. Shifted BY OpEndsEffect DEF IInv
<1>2. Typed'
  <2>1. chain' \in Seq(Ops) BY <1>1 DEF Shifted
  <2>2. stored'.len > 0 BY DEF IInv, Typed, Logs
  <2> QED BY <2>1, <2>2, NoThings DEF IInv, Typed
<1>3. LogGrows /\ EntryGoesOn BY DEF LogGrows, EntryGoesOn
<1>4. CallersFine'
  <2>1. spent'.foreign >= spent.foreign BY DEF IInv, Typed, Spendings
  <2>2. ASSUME NEW d \in Callers PROVE Fine(caller[d])'
    <3>1. CASE Like(caller'[d], caller[d])
      BY <1>2, <1>3, <2>1, <3>1, OthersFine DEF IInv
    <3>2. CASE Ended(caller'[d]) /\ caller'[d].missed = 0 /\ caller'[d].ahead = 0
      BY <1>2, <3>2, EndedFine DEF IInv
    <3> QED BY <3>1, <3>2
  <2> QED BY <2>2, CallersFineFrom
<1>5. OpsFit' /\ HeadHolds' BY <1>1, ShiftedOps DEF IInv
<1>6. SourcesFit'
  <2>1. entry'.src = NoSource /\ 0 <= stored'.len /\ stored'.len # 0
    BY <1>2, NoThings DEF Typed, Logs
  <2>2. FitsThen(entry'.src) BY <2>1, NoThings DEF FitsThen
  <2> QED BY <1>1, <1>2, <1>3, <2>2, ShiftedSources DEF SourcesFit, Fits, FitsThen
<1>7. MovesHead BY DEF MovesHead
<1>8. Answered' /\ ReadsQueued'
  BY <1>1, <1>3, <1>7, ShiftedAnswered, ShiftedReads DEF IInv
<1>9. \A d \in Callers : GoesOn(caller'[d], caller[d]) BY DEF GoesOn, Ended, Claiming
<1>10. ClaimsStay /\ KeepsStay BY <1>9, GoingOn
<1>11. \A d \in Callers : caller'[d].stage # "holding"
  <2>1. Running("writing") BY HeadIsFirst DEF Running, IInv
  <2> SUFFICES ASSUME NEW d \in Callers, caller[d].stage = "holding" PROVE FALSE
    BY DEF Like, Ended
  <2>2. Keeps(d) /\ entry.no = caller[d].no BY DEF Keeps, Keeping, IInv, OneClaim
  <2> QED BY <2>1, <2>2 DEF IInv, HeadHolds
<1>12. OneClaim' BY <1>4, <1>10, <1>11, LeftClaims DEF IInv
<1>13. EntryCurrent' BY <1>4, LeftCurrent
<1> QED
  BY <1>2, <1>4, <1>5, <1>6, <1>8, <1>12, <1>13 DEF IInv

\* The write of a detached append.
LEMMA AppendWritesKeeps ==
    ASSUME IInv, NEW open \in BOOLEAN, AppendWrites(open) PROVE IInv'
<1>1. Head1("append") /\ Head(chain).step = "writing" /\ OpEnds /\ UNCHANGED session
  BY DEF AppendWrites
<1>2. /\ Head(chain) = chain[1] /\ chain # <<>> /\ chain[1].kind = "append" /\ 1 \in Places
      /\ chain[1] \in Ops /\ "append" \in ByCaller /\ chain[1].step = "writing"
  BY <1>1, HeadFacts DEF ByCaller
<1>3. PICK c \in Callers : /\ c = chain[1].by /\ Pending(1)
                           /\ caller[c].stage = "appending"
  BY <1>1, <1>2, HeadCaller DEF Awaited
<1>4. /\ caller[c] \in Records /\ caller[c].call = "append"
      /\ caller \in [Callers -> Records]
  BY <1>3 DEF IInv, Typed, CallersFine, Fit
<1>5. CASE caller' = Rejects(c) /\ UNCHANGED <<stored, entry, state, slipped>>
           /\ (Fails \/ UNCHANGED spent)
  <2>1. spent' \in Spendings /\ ForeignStays BY <1>5, FailsEffect DEF ForeignStays
  <2> QED BY <1>1, <1>2, <1>3, <1>5, <2>1, HeadCallRejected
<1>6. CASE /\ state.cursor = caller[c].from
           /\ stored' = [len |-> stored.len + 1, open |-> open]
           /\ state' = [state EXCEPT !.cursor = @ + 1]
           /\ slipped' = (slipped \/ state.owner # None)
           /\ Invalidate(Ends(c, state.cursor + 1)) /\ UNCHANGED spent
  <2>1. /\ stored' \in Logs /\ stored'.len = stored.len + 1 /\ stored.len \in Nat
        /\ stored'.len > stored.len
    BY <1>6 DEF IInv, Typed, Logs
  <2>2. /\ state' \in States /\ state'.cursor = state.cursor + 1 /\ state.cursor \in Nat
        /\ state'.known = state.known /\ state'.owner = state.owner
    BY <1>6 DEF IInv, Typed, States
  <2> DEFINE view == state.cursor + 1
             r == Returns(caller[c], view, "done")
             cs == [caller EXCEPT ![c] = r]
  <2>3. view \in Nat /\ view > caller[c].from BY <1>6, <2>2
  <2>4. Remove(entry.no, cs) BY <1>6 DEF Invalidate, Ends
  <2>5. /\ r \in Records /\ Ended(r)
        /\ r.missed = IF caller[c].from > view THEN caller[c].from - view ELSE 0
        /\ r.ahead = IF caller[c].call \in {"prepare", "load"} /\ view > stored.len
                       THEN view - stored.len ELSE 0
        /\ r.stage = "done"
    BY <1>4, <2>3, ReturnedRecord DEF IInv
  <2> HIDE DEF r
  <2>6. /\ cs \in [Callers -> Records] /\ cs[c] = r
        /\ \A d \in Callers : d # c => cs[d] = caller[d]
    BY <1>4, <2>5, OneCaller DEF IInv
  <2> HIDE DEF cs
  <2>7. /\ caller' \in [Callers -> Records] /\ entry' = NoEntry
        /\ \A d \in Callers : Like(caller'[d], cs[d])
        /\ \A d \in Callers : cs[d].stage # "parked" => caller'[d] = cs[d]
    BY <2>4, <2>6, RemoveEffect
  <2>8. caller'[c] = r BY <2>5, <2>6, <2>7
  <2>9. ~(caller[c].from > view) BY <1>4, <2>3 DEF Records
  <2>10. r.missed = 0 /\ r.ahead = 0 BY <1>4, <2>5, <2>9
  <2>11. \A d \in Callers :
            \/ Like(caller'[d], caller[d])
            \/ /\ Pending(1) /\ chain[1].by = d /\ Ended(caller'[d])
               /\ caller'[d].missed = 0 /\ caller'[d].ahead = 0
    <3>1. \A d \in Callers : d # c => Like(caller'[d], caller[d]) BY <2>6, <2>7
    <3> QED BY <1>3, <2>5, <2>8, <2>10, <3>1
  <2>12. slipped' \in BOOLEAN /\ (session.no # None => slipped')
    BY <1>6 DEF IInv, Typed, Owns
  <2>13. session' \in Sessions /\ SessionGoesOn
    BY <1>1 DEF IInv, Typed, SessionGoesOn, Sessions
  <2>14. Owns'
    <3>1. Shifted BY <1>1, <1>2, OpEndsEffect DEF IInv
    <3> QED BY <1>1, <2>2, <3>1, ShiftedOwns DEF IInv, Owns
  <2>15. Counts'
    <3>1. state'.known => state'.cursor <= stored'.len
      BY <2>1, <2>2 DEF IInv, Counts
    <3>2. session'.no # None => session'.written <= state'.cursor
      BY <1>1, <2>2 DEF IInv, Counts, Typed, Sessions
    <3>3. session'.no # None /\ ~slipped' => session'.written = state'.cursor
      BY <1>1, <2>12
    <3> QED BY <3>1, <3>2, <3>3 DEF Counts
  <2> QED
    BY <1>1, <1>2, <1>6, <2>1, <2>2, <2>7, <2>11, <2>12, <2>13, <2>14, <2>15, WrittenKeeps
<1> QED BY <1>2, <1>3, <1>5, <1>6 DEF AppendWrites

(***************************************************************************)
(* The session's steps.                                                     *)
(***************************************************************************)

\* A step of the session: nothing is stored, the entry and the state stay, and
\* nobody moves but callers whose flush fails.
SessionStep ==
    /\ UNCHANGED <<stored, entry, state, slipped>>
    /\ session' \in Sessions /\ SessionGoesOn
    /\ spent' \in Spendings /\ ForeignStays
    /\ caller' \in [Callers -> Records]
    /\ \A d \in Callers :
            \/ Like(caller'[d], caller[d])
            \/ /\ caller[d].stage = "flushing" /\ Ended(caller'[d])
               /\ caller'[d].missed = 0 /\ caller'[d].ahead = 0

\* What such a step keeps whatever becomes of the chain.
LEMMA SessionStepKeeps ==
    ASSUME IInv, SessionStep, chain' \in Seq(Ops)
    PROVE  /\ Typed' /\ CallersFine' /\ OneClaim' /\ EntryCurrent' /\ Fits(entry.src)'
           /\ MovesFree /\ KeepsStay /\ EntryGoesOn /\ LogGrows
<1>1. Typed' BY DEF IInv, Typed, SessionStep
<1>2. LogGrows /\ EntryGoesOn BY DEF LogGrows, EntryGoesOn, SessionStep
<1>3. spent'.foreign >= spent.foreign
  BY DEF IInv, Typed, Spendings, SessionStep, ForeignStays
<1>4. CallersFine'
  <2>1. ASSUME NEW d \in Callers PROVE Fine(caller[d])'
    <3>1. CASE Like(caller'[d], caller[d])
      BY <1>1, <1>2, <1>3, <3>1, OthersFine DEF IInv, SessionStep
    <3>2. CASE Ended(caller'[d]) /\ caller'[d].missed = 0 /\ caller'[d].ahead = 0
      BY <1>1, <3>2, EndedFine DEF IInv
    <3> QED BY <3>1, <3>2 DEF SessionStep
  <2> QED BY <2>1, CallersFineFrom
<1>5. \A d \in Callers : GoesOn(caller'[d], caller[d])
  BY DEF GoesOn, Ended, Claiming, SessionStep
<1>6. ClaimsStay /\ KeepsStay BY <1>5, GoingOn
<1>7. OneClaim' BY <1>6, SameClaims DEF IInv, SessionStep
<1>8. EntryCurrent' BY <1>6, SameCurrent DEF IInv, SessionStep
<1>9. MovesFree BY DEF MovesFree, Awaits, SessionStep
<1>10. Fits(entry.src)' BY DEF IInv, SourcesFit, Fits, SessionStep
<1> QED BY <1>1, <1>2, <1>4, <1>6, <1>7, <1>8, <1>9, <1>10

\* The session goes on beside the chain.
LEMMA SessionAlone ==
    ASSUME IInv, SessionStep, UNCHANGED chain, Owns', Counts'
    PROVE  IInv'
<1>1. chain' \in Seq(Ops) BY DEF IInv, Typed
<1>2. /\ Typed' /\ CallersFine' /\ OneClaim' /\ EntryCurrent' /\ Fits(entry.src)'
      /\ MovesFree /\ KeepsStay /\ EntryGoesOn
  BY <1>1, SessionStepKeeps
<1>3. OpsFit' BY DEF IInv, OpsFit, Places, OpFits
<1>4. SourcesFit' BY <1>2 DEF IInv, SourcesFit, Fits, Places, SessionStep
<1>5. Answered' /\ ReadsQueued' BY <1>2, SameAnswered, SameReads DEF IInv
<1>6. HeadHolds' BY <1>2, SameHead DEF IInv, SessionStep
<1> QED BY <1>2, <1>3, <1>4, <1>5, <1>6 DEF IInv

\* The session puts an operation on the chain.
LEMMA SessionJoins ==
    ASSUME IInv, SessionStep, NEW op \in Ops, Joined(op), op.kind \in {"write", "forget"},
           op.step = "queued", op.src = NoSource, Owns', Counts'
    PROVE  IInv'
<1>1. chain' \in Seq(Ops) BY DEF Joined
<1>2. /\ Typed' /\ CallersFine' /\ OneClaim' /\ EntryCurrent' /\ Fits(entry.src)'
      /\ MovesFree /\ KeepsStay /\ EntryGoesOn
  BY <1>1, SessionStepKeeps
<1>3. OpFits(op) BY DEF OpFits, ByCaller
<1>4. OpsFit' BY <1>3, JoinedOps DEF IInv
<1>5. SourcesFit'
  <2>1. Fits(op.src) BY NoThings DEF Fits, IInv, Typed, Logs
  <2> QED BY <1>2, <2>1, JoinedSources DEF IInv, SessionStep
<1>6. op.kind \notin ByCaller /\ op.kind # "load" /\ op.kind # "commit" BY DEF ByCaller
<1>7. Answered' BY <1>2, <1>6, JoinedAnswered DEF IInv
<1>8. ReadsQueued' BY <1>2, <1>6, JoinedReads DEF IInv
<1>9. HeadHolds'
  <2>1. /\ Len(chain) > 0 => Len(chain') > 0 /\ chain'[1] = chain[1]
        /\ Len(chain) = 0 => chain'[1].step = "queued"
    BY ChainTyped DEF Joined, Places, IInv
  <2> QED BY <1>2, <2>1, SameHead DEF IInv, SessionStep
<1> QED BY <1>2, <1>4, <1>5, <1>7, <1>8, <1>9 DEF IInv

\* An operation of the session ends.
LEMMA SessionShifts ==
    ASSUME IInv, SessionStep, chain # <<>>, OpEnds, chain[1].kind \in BySession, Owns', Counts'
    PROVE  IInv'
<1>1. Shifted BY OpEndsEffect DEF IInv
<1>2. chain' \in Seq(Ops) BY <1>1 DEF Shifted
<1>3. /\ Typed' /\ CallersFine' /\ OneClaim' /\ EntryCurrent' /\ Fits(entry.src)'
      /\ MovesFree /\ KeepsStay /\ EntryGoesOn /\ LogGrows
  BY <1>2, SessionStepKeeps
<1>4. OpsFit' /\ HeadHolds' BY <1>1, ShiftedOps DEF IInv
<1>5. SourcesFit' BY <1>1, <1>3, ShiftedSources DEF SourcesFit, Fits, FitsThen
<1>6. MovesHead BY <1>3 DEF MovesFree, MovesHead
<1>7. chain[1].kind # "load" BY DEF BySession
<1>8. Answered' /\ ReadsQueued'
  BY <1>1, <1>3, <1>6, <1>7, ShiftedAnswered, ShiftedReads DEF IInv
<1> QED BY <1>3, <1>4, <1>5, <1>8 DEF IInv

\* A session that changes alone.
LEMMA SessionStepAlone ==
    ASSUME IInv, session' \in Sessions, SessionGoesOn, spent' \in Spendings, ForeignStays,
           UNCHANGED <<stored, entry, state, caller, slipped>>
    PROVE  SessionStep
BY DEF SessionStep, Like, IInv, Typed

\* Who has an operation on the chain is known by the session's place.
LEMMA NoneQueued ==
    ASSUME IInv, ~Queued("write"), session.init = "ready",
           session.written < session.len \/ ~Queued("forget"),
           NEW i \in Places
    PROVE  chain[i].kind \notin BySession
<1>1. i \in DOMAIN chain BY DEF Places, IInv, Typed
<1>2. chain[i].kind # "write" BY <1>1 DEF Queued
<1>3. chain[i].kind # "suffix" BY DEF IInv, Owns
<1>4. chain[i].kind # "forget"
  BY <1>1 DEF Queued, IInv, Owns, Typed, Sessions
<1> QED BY <1>2, <1>3, <1>4 DEF BySession

\* A live session gets an event.
LEMMA EventKeeps ==
    ASSUME IInv, NEW open \in BOOLEAN, Event(open) PROVE IInv'
<1>1. /\ Live /\ Spend("events") /\ session' = [session EXCEPT !.len = @ + 1, !.open = open]
      /\ UNCHANGED <<stored, entry, chain, state, caller, slipped>>
  BY DEF Event
<1>2. spent' \in Spendings /\ ForeignStays BY <1>1, SpendEffect DEF IInv, ForeignStays
<1>3. /\ session' \in Sessions /\ session'.no = session.no /\ session'.phase = session.phase
      /\ session'.len = session.len + 1 /\ session.len \in Nat
      /\ session'.written = session.written /\ session'.init = session.init
  <2>1. session \in Sessions BY DEF IInv, Typed
  <2>2. session' = [session EXCEPT !.len = session.len + 1, !.open = open] BY <1>1
  <2>3. session.len \in Nat BY <2>1 DEF Sessions
  <2>4. session.len + 1 \in Nat BY <2>3
  <2> QED BY <2>1, <2>2, <2>3, <2>4 DEF Sessions
<1>4. SessionGoesOn BY <1>3 DEF SessionGoesOn
<1>5. SessionStep BY <1>1, <1>2, <1>3, <1>4, SessionStepAlone
<1>6. Owns' BY <1>1, <1>3 DEF IInv, Owns, Places, Live
<1>7. Counts' BY <1>1, <1>3 DEF IInv, Counts
<1> QED BY <1>1, <1>5, <1>6, <1>7, SessionAlone

\* The buffer of a session is to be written.
LEMMA DrainKeeps ==
    ASSUME IInv, Drain PROVE IInv'
<1> DEFINE to == [len |-> session.len, open |-> session.open]
           op == Op("write", session.no, NoSource, to)
<1>1. /\ session.phase \in {"live", "retiring"} /\ session.init = "ready"
      /\ session.written < session.len /\ ~Queued("write") /\ Serialize(op)
      /\ UNCHANGED <<stored, entry, state, session, caller, spent, slipped>>
  BY DEF Drain
<1>2. session \in Sessions /\ session.no \in Nat /\ session.len \in Nat /\ session.written \in Nat
  BY DEF IInv, Typed, Sessions
<1>3. to \in Logs /\ to.len = session.len BY <1>2 DEF Logs, Sessions
<1>4. /\ op \in Ops /\ op.kind = "write" /\ op.src = NoSource /\ op.step = "queued"
      /\ op.to.len = session.len
  BY <1>2, <1>3, NoThings DEF Op, Ops, Kinds
<1> HIDE DEF op, to
<1>5. Joined(op) BY <1>1, <1>4, SerializeEffect DEF IInv
<1>6. SessionGoesOn /\ spent' \in Spendings /\ ForeignStays
  BY <1>1, <1>2 DEF SessionGoesOn, ForeignStays, IInv, Typed
<1>7. SessionStep BY <1>1, <1>2, <1>6, SessionStepAlone
<1>8. \A i \in Places : chain[i].kind \notin BySession BY <1>1, NoneQueued
<1>9. /\ Places' = Places \cup {Len(chain) + 1}
      /\ \A i \in Places : chain'[i] = chain[i]
      /\ chain'[Len(chain) + 1] = op
  BY <1>5, JoinedPlaces DEF IInv
<1>10. session.no # None BY <1>1 DEF IInv, Owns
<1>11. Owns'
  <2>1. \A i \in Places' : chain'[i].kind \in BySession => i = Len(chain) + 1
    BY <1>8, <1>9
  <2>2. /\ session'.phase = "none" <=> session'.no = None
        /\ state'.owner = session'.no /\ (state'.owner # None => state'.known)
    BY <1>1 DEF IInv, Owns
  <2>3. \A i \in Places' : chain'[i].kind \in BySession =>
            /\ session'.no # None /\ session'.init = "ready"
            /\ chain'[i].kind = "write" /\ chain'[i].to.len > session'.written
    BY <1>1, <1>2, <1>4, <1>9, <1>10, <2>1
  <2> QED BY <2>1, <2>2, <2>3 DEF Owns, BySession
<1>12. Counts' BY <1>1 DEF IInv, Counts
<1>13. op.kind \in {"write", "forget"} BY <1>4
<1> QED BY <1>4, <1>5, <1>7, <1>11, <1>12, <1>13, SessionJoins

\* A session is disposed of.
LEMMA DisposeKeeps ==
    ASSUME IInv, Dispose PROVE IInv'
<1>1. /\ Live /\ session' = [session EXCEPT !.phase = "retiring"]
      /\ UNCHANGED <<stored, entry, chain, state, caller, spent, slipped>>
  BY DEF Dispose
<1>2. /\ session' \in Sessions /\ session'.no = session.no /\ session'.phase = "retiring"
      /\ session'.len = session.len /\ session.len \in Nat
      /\ session'.written = session.written /\ session'.init = session.init
  BY <1>1 DEF IInv, Typed, Sessions
<1>3. SessionGoesOn /\ spent' \in Spendings /\ ForeignStays
  BY <1>1, <1>2 DEF SessionGoesOn, ForeignStays, IInv, Typed
<1>4. SessionStep BY <1>1, <1>2, <1>3, SessionStepAlone
<1>5. Owns' BY <1>1, <1>2 DEF IInv, Owns, Places, Live
<1>6. Counts' BY <1>1, <1>2 DEF IInv, Counts
<1> QED BY <1>1, <1>4, <1>5, <1>6, SessionAlone

\* A retirement gives up, or is done but for its last operation.
LEMMA RetireKeeps ==
    ASSUME IInv, Retire PROVE IInv'
<1>1. session.phase = "retiring" /\ UNCHANGED <<stored, entry, state, caller, spent, slipped>>
  BY DEF Retire
<1>2. session \in Sessions /\ session.no \in Nat /\ session.len \in Nat /\ session.written \in Nat
  BY DEF IInv, Typed, Sessions
<1>3. spent' \in Spendings /\ ForeignStays BY <1>1 DEF ForeignStays, IInv, Typed
<1>4. session.no # None BY <1>1 DEF IInv, Owns
<1>5. CASE session.init = "failed" /\ session' = [session EXCEPT !.phase = "stuck"]
           /\ UNCHANGED chain
  <2>1. /\ session' \in Sessions /\ session'.no = session.no /\ session'.phase = "stuck"
        /\ session'.len = session.len /\ session'.init = "failed"
        /\ session'.written = session.written
    BY <1>2, <1>5 DEF Sessions
  <2>2. SessionGoesOn BY <1>1, <1>2, <2>1 DEF SessionGoesOn
  <2>3. SessionStep BY <1>1, <1>3, <2>1, <2>2, SessionStepAlone
  <2>4. Owns' BY <1>1, <1>5, <2>1 DEF IInv, Owns, Places
  <2>5. Counts' BY <1>1, <2>1 DEF IInv, Counts
  <2> QED BY <1>5, <2>3, <2>4, <2>5, SessionAlone
<1>6. CASE /\ session.init = "ready" /\ session.written = session.len
           /\ ~Queued("write") /\ ~Queued("forget")
           /\ Serialize(Op("forget", session.no, NoSource, NoPosition)) /\ UNCHANGED session
  <2> DEFINE op == Op("forget", session.no, NoSource, NoPosition)
  <2>1. /\ op \in Ops /\ op.kind = "forget" /\ op.src = NoSource /\ op.step = "queued"
    BY <1>2, NoThings DEF Op, Ops, Kinds
  <2>2. Serialize(op) BY <1>6
  <2> HIDE DEF op
  <2>3. Joined(op) BY <2>1, <2>2, SerializeEffect DEF IInv
  <2>4. SessionGoesOn BY <1>2, <1>6 DEF SessionGoesOn
  <2>5. SessionStep BY <1>1, <1>2, <1>3, <1>6, <2>4, SessionStepAlone
  <2>6. \A i \in Places : chain[i].kind \notin BySession BY <1>6, NoneQueued
  <2>7. /\ Places' = Places \cup {Len(chain) + 1}
        /\ \A i \in Places : chain'[i] = chain[i]
        /\ chain'[Len(chain) + 1] = op
    BY <2>3, JoinedPlaces DEF IInv
  <2>8. Owns'
    <3>1. \A i \in Places' : chain'[i].kind \in BySession => i = Len(chain) + 1
      BY <2>6, <2>7
    <3>2. /\ session'.phase = "none" <=> session'.no = None
          /\ state'.owner = session'.no /\ (state'.owner # None => state'.known)
      BY <1>1, <1>6 DEF IInv, Owns
    <3>3. \A i \in Places' : chain'[i].kind \in BySession =>
              /\ session'.no # None /\ session'.init = "ready"
              /\ chain'[i].kind = "forget" /\ session'.phase = "retiring"
              /\ session'.written = session'.len
      BY <1>1, <1>4, <1>6, <2>1, <2>7, <3>1
    <3> QED BY <3>1, <3>2, <3>3 DEF Owns, BySession
  <2>9. Counts' BY <1>1, <1>6 DEF IInv, Counts
  <2>10. op.kind \in {"write", "forget"} BY <2>1
  <2> QED BY <2>1, <2>3, <2>5, <2>8, <2>9, <2>10, SessionJoins
<1> QED BY <1>5, <1>6 DEF Retire

\* A write at the head belongs to a session, whose state is known.
LEMMA WriterFacts ==
    ASSUME IInv, Head1("write") \/ Head1("suffix")
    PROVE  /\ Head(chain) = chain[1] /\ chain # <<>> /\ Len(chain) > 0 /\ 1 \in Places
           /\ chain[1] \in Ops /\ chain[1].kind \in {"write", "suffix"}
           /\ chain[1].kind \in BySession /\ chain[1].step \in {"queued", "writing"}
           /\ chain[1].to \in Logs /\ chain[1].to.len > session.written
           /\ session.no # None /\ session.phase # "none"
           /\ state.owner = session.no /\ state.known
           /\ state.cursor <= stored.len /\ session.written <= state.cursor
           /\ ~slipped => session.written = state.cursor
           /\ session.init = IF chain[1].kind = "suffix" THEN "running" ELSE "ready"
<1>1. /\ Head(chain) = chain[1] /\ chain # <<>> /\ chain[1].kind \in {"write", "suffix"}
      /\ Len(chain) > 0 /\ 1 \in Places /\ chain[1] \in Ops /\ OpFits(chain[1])
  BY HeadFacts
<1>2. chain[1].kind \in BySession /\ chain[1].step \in {"queued", "writing"}
      /\ chain[1].to \in Logs
  BY <1>1 DEF BySession, OpFits, Ops
<1>3. /\ session.no # None /\ session.phase # "none" /\ state.owner = session.no
      /\ state.known /\ chain[1].to.len > session.written
      /\ session.init = IF chain[1].kind = "suffix" THEN "running" ELSE "ready"
  BY <1>1, <1>2 DEF IInv, Owns
<1>4. /\ state.cursor <= stored.len /\ session.written <= state.cursor
      /\ ~slipped => session.written = state.cursor
  BY <1>3 DEF IInv, Counts
<1> QED BY <1>1, <1>2, <1>3, <1>4

\* When the operation of a session ends, none of it is left on the chain.
LEMMA NoneLeft ==
    ASSUME IInv, chain # <<>>, OpEnds, chain[1].kind \in BySession,
           session'.phase = "none" <=> session'.no = None,
           state'.owner = session'.no, state'.owner # None => state'.known
    PROVE  Owns'
<1>1. Shifted BY OpEndsEffect DEF IInv
<1>2. \A i \in Places' : chain'[i].kind \notin BySession BY <1>1, ShiftedOwns DEF IInv
<1> QED BY <1>2 DEF Owns, BySession

\* A write of the session fails.
LEMMA WriteFailsKeeps ==
    ASSUME IInv, Head1("write") \/ Head1("suffix"), WriteFails, UNCHANGED slipped,
           spent' \in Spendings, ForeignStays
    PROVE  IInv'
<1>1. /\ Head(chain) = chain[1] /\ chain # <<>> /\ chain[1].kind \in {"write", "suffix"}
      /\ chain[1].kind \in BySession
      /\ session.no # None /\ session.phase # "none" /\ state.owner = session.no /\ state.known
  BY WriterFacts
<1>2. OpEnds /\ UNCHANGED <<stored, entry, state>> BY DEF WriteFails
<1>3. session \in Sessions BY DEF IInv, Typed
<1>4. /\ session' \in Sessions /\ session'.no = session.no /\ session'.len = session.len
      /\ session'.written = session.written
      /\ \/ session'.phase = session.phase
         \/ session.phase = "retiring" /\ session'.phase = "stuck"
  <2>1. \/ session' = [session EXCEPT !.init = "failed"]
        \/ session' = session
        \/ session' = [session EXCEPT
                !.phase = IF session.phase = "retiring" THEN "stuck" ELSE session.phase]
    BY <1>1 DEF WriteFails
  <2>2. CASE session' = [session EXCEPT !.init = "failed"] BY <1>3, <2>2 DEF Sessions
  <2>3. CASE session' = session BY <1>3, <2>3
  <2>4. CASE session' = [session EXCEPT
                !.phase = IF session.phase = "retiring" THEN "stuck" ELSE session.phase]
    <3> DEFINE p == IF session.phase = "retiring" THEN "stuck" ELSE session.phase
    <3>1. /\ p \in {"none", "live", "retiring", "stuck"}
          /\ p = session.phase \/ (session.phase = "retiring" /\ p = "stuck")
      BY <1>3 DEF Sessions
    <3>2. session' = [session EXCEPT !.phase = p] BY <2>4
    <3> HIDE DEF p
    <3> QED BY <1>3, <3>1, <3>2 DEF Sessions
  <2> QED BY <2>1, <2>2, <2>3, <2>4
<1>5. SessionGoesOn BY <1>3, <1>4 DEF SessionGoesOn, Sessions
<1>6. /\ caller' \in [Callers -> Records]
      /\ \A d \in Callers :
            \/ Like(caller'[d], caller[d])
            \/ /\ caller[d].stage = "flushing" /\ Ended(caller'[d])
               /\ caller'[d].missed = 0 /\ caller'[d].ahead = 0
  <2>1. CASE UNCHANGED caller BY <2>1 DEF Like, IInv, Typed
  <2>2. ASSUME NEW failed \in SUBSET {c \in Callers : caller[c].stage = "flushing"},
               caller' = [c \in Callers |->
                    IF c \in failed THEN [Idle EXCEPT !.stage = "rejected"] ELSE caller[c]]
        PROVE  /\ caller' \in [Callers -> Records]
               /\ \A d \in Callers :
                    \/ Like(caller'[d], caller[d])
                    \/ /\ caller[d].stage = "flushing" /\ Ended(caller'[d])
                       /\ caller'[d].missed = 0 /\ caller'[d].ahead = 0
    <3> DEFINE r == [Idle EXCEPT !.stage = "rejected"]
    <3>1. r \in Records /\ Ended(r) /\ r.missed = 0 /\ r.ahead = 0 BY RejectedRecord
    <3>2. caller' = [c \in Callers |-> IF c \in failed THEN r ELSE caller[c]] BY <2>2
    <3> HIDE DEF r
    <3> QED BY <3>1, <3>2 DEF Like, IInv, Typed
  <2> QED BY <1>1, <2>1, <2>2 DEF WriteFails
<1>7. SessionStep BY <1>2, <1>4, <1>5, <1>6 DEF SessionStep
<1>8. Owns' BY <1>1, <1>2, <1>4, NoneLeft
<1>9. Counts' BY <1>2, <1>4 DEF IInv, Counts
<1> QED BY <1>1, <1>2, <1>7, <1>8, <1>9, SessionShifts

\* appendLiveBatch, and the suffix of a publication.
LEMMA WriteKeeps ==
    ASSUME IInv, Write PROVE IInv'
<1>1. (Head1("write") \/ Head1("suffix")) /\ UNCHANGED slipped BY DEF Write
<1>2. /\ Head(chain) = chain[1] /\ chain # <<>> /\ Len(chain) > 0 /\ 1 \in Places
      /\ chain[1] \in Ops /\ chain[1].kind \in {"write", "suffix"}
      /\ chain[1].kind \in BySession /\ chain[1].step \in {"queued", "writing"}
      /\ chain[1].to \in Logs /\ chain[1].to.len > session.written
      /\ session.no # None /\ session.phase # "none"
      /\ state.owner = session.no /\ state.known
      /\ state.cursor <= stored.len /\ session.written <= state.cursor
      /\ ~slipped => session.written = state.cursor
  BY <1>1, WriterFacts
<1>3. OpFits(chain[1]) BY <1>2 DEF IInv, OpsFit
<1>4. /\ session \in Sessions /\ session.written \in Nat /\ session.len \in Nat
      /\ state \in States /\ state.cursor \in Nat /\ stored.len \in Nat
  BY DEF IInv, Typed, Sessions, States, Logs
<1> DEFINE to == chain[1].to
<1>5. to \in Logs /\ to.len \in Nat BY <1>2 DEF Logs
<1>6. \/ /\ chain[1].step = "queued" /\ chain[1].kind = "write" /\ to.len <= state.cursor
         /\ OpEnds /\ session' = [session EXCEPT !.written = to.len]
         /\ UNCHANGED <<stored, entry, state, caller, spent>>
      \/ /\ chain[1].step = "queued" /\ (chain[1].kind = "suffix" \/ to.len > state.cursor)
         /\ Writable /\ Continues /\ OpGoesTo("writing")
         /\ UNCHANGED <<stored, entry, state, session, caller, spent>>
      \/ WriteFails /\ (UNCHANGED spent \/ Fails)
      \/ /\ chain[1].step = "writing" /\ OpEnds /\ UNCHANGED spent
         /\ stored' = [len |-> stored.len + to.len - state.cursor, open |-> to.open]
         /\ Advance(to)
         /\ session' = [session EXCEPT !.written = to.len, !.init = "ready"]
         /\ Invalidate(caller)
  <2>1. (to.len <= state.cursor) \/ to.len > state.cursor BY <1>4, <1>5
  <2> HIDE DEF to
  <2>2. CASE chain[1].step = "queued" /\ chain[1].kind = "write" /\ to.len <= state.cursor
    BY <1>2, <2>2 DEF Write, to
  <2>3. CASE chain[1].step = "queued" /\ (chain[1].kind = "suffix" \/ to.len > state.cursor)
    <3>1. ~(chain[1].kind = "write" /\ to.len <= state.cursor)
      BY <1>4, <1>5, <2>3
    <3> QED BY <1>2, <2>3, <3>1 DEF Write, to
  <2>4. CASE chain[1].step = "writing" BY <1>2, <2>4 DEF Write, to
  <2> QED BY <1>2, <2>1, <2>2, <2>3, <2>4
<1> HIDE DEF to
<1>7. CASE /\ chain[1].step = "queued" /\ chain[1].kind = "write" /\ to.len <= state.cursor
           /\ OpEnds /\ session' = [session EXCEPT !.written = to.len]
           /\ UNCHANGED <<stored, entry, state, caller, spent>>
  <2>1. /\ session' \in Sessions /\ session'.no = session.no /\ session'.phase = session.phase
        /\ session'.len = session.len /\ session'.written = to.len
    BY <1>4, <1>5, <1>7 DEF Sessions
  <2>2. SessionGoesOn /\ spent' \in Spendings /\ ForeignStays
    BY <1>4, <1>7, <2>1 DEF SessionGoesOn, ForeignStays, IInv, Typed
  <2>3. SessionStep BY <1>1, <1>7, <2>1, <2>2, SessionStepAlone
  <2>4. Owns' BY <1>2, <1>7, <2>1, NoneLeft
  <2>5. slipped BY <1>2, <1>4, <1>5, <1>7 DEF to
  <2>6. Counts' BY <1>1, <1>2, <1>7, <2>1, <2>5 DEF Counts
  <2> QED BY <1>2, <1>7, <2>3, <2>4, <2>6, SessionShifts
<1>8. CASE /\ chain[1].step = "queued" /\ (chain[1].kind = "suffix" \/ to.len > state.cursor)
           /\ Writable /\ Continues /\ OpGoesTo("writing")
           /\ UNCHANGED <<stored, entry, state, session, caller, spent>>
  <2>1. PICK op \in Ops : /\ Stepped(op) /\ op.kind = chain[1].kind /\ op.by = chain[1].by
                          /\ op.src = chain[1].src /\ op.to = chain[1].to
                          /\ op.step = "writing"
    BY <1>2, <1>8, OpGoesToEffect DEF IInv
  <2>2. OpFits(op) BY <1>2, <1>3, <2>1 DEF OpFits, ByCaller
  <2>3. Fits(op.src) BY <1>2, <2>1 DEF IInv, SourcesFit
  <2>4. chain'[1] = op BY <2>1 DEF Stepped
  <2>5. op.to.len > state.cursor
    <3>1. chain[1].kind = "suffix" => state.cursor = session.written
      BY <1>2, <1>8 DEF Continues
    <3> QED BY <1>2, <1>4, <1>5, <1>8, <2>1, <3>1 DEF to
  <2>6. HeadHolds'
    <3>1. \A d \in Callers : Keeps(d) => caller[d].no # entry.no
      BY <1>8, Unclaimed DEF Writable, Keeps, Claims, Keeping, Claiming
    <3>2. \A d \in Callers : Keeps(d)' => caller'[d].no # entry'.no
      BY <1>8, <3>1 DEF Keeps
    <3>3. chain'[1].to.len > state'.cursor BY <1>8, <2>4, <2>5
    <3>4. chain'[1].kind # "append" /\ chain'[1].step = "writing" BY <1>2, <2>1, <2>4
    <3> QED BY <3>2, <3>3, <3>4 DEF HeadHolds, Running, Adopting
  <2>7. chain[1].step # "dropped" /\ op.kind # "commit" BY <1>2, <2>1
  <2> QED BY <1>1, <1>2, <1>8, <2>1, <2>2, <2>3, <2>6, <2>7, HeadGoesOnKeeps
<1>9. CASE WriteFails /\ (UNCHANGED spent \/ Fails)
  <2>1. spent' \in Spendings /\ ForeignStays BY <1>9, FailsEffect DEF ForeignStays
  <2> QED BY <1>1, <1>9, <2>1, WriteFailsKeeps
<1>10. CASE /\ chain[1].step = "writing" /\ OpEnds /\ UNCHANGED spent
            /\ stored' = [len |-> stored.len + to.len - state.cursor, open |-> to.open]
            /\ Advance(to)
            /\ session' = [session EXCEPT !.written = to.len, !.init = "ready"]
            /\ Invalidate(caller)
  <2>1. to.len > state.cursor
    BY <1>2, <1>10 DEF IInv, HeadHolds, Running, to
  <2>2. /\ stored' \in Logs /\ stored'.len = stored.len + to.len - state.cursor
        /\ stored'.len > stored.len
    <3>1. stored.len + to.len - state.cursor \in Nat
          /\ stored.len + to.len - state.cursor > stored.len
      BY <1>4, <1>5, <2>1
    <3>2. to.open \in BOOLEAN BY <1>5 DEF Logs
    <3> QED BY <1>10, <3>1, <3>2 DEF Logs
  <2>3. /\ state' \in States /\ state'.cursor = to.len /\ state'.known = state.known
        /\ state'.owner = state.owner
    BY <1>4, <1>5, <1>10 DEF Advance, States
  <2>4. /\ session' \in Sessions /\ session'.no = session.no /\ session'.phase = session.phase
        /\ session'.len = session.len /\ session'.written = to.len
    BY <1>4, <1>5, <1>10 DEF Sessions
  <2>5. SessionGoesOn BY <1>4, <2>4 DEF SessionGoesOn
  <2>6. caller \in [Callers -> Records] /\ Remove(entry.no, caller)
    BY <1>10 DEF IInv, Typed, Invalidate
  <2>7. /\ caller' \in [Callers -> Records] /\ entry' = NoEntry
        /\ \A d \in Callers : Like(caller'[d], caller[d])
    BY <2>6, RemoveEffect
  <2>8. Owns' BY <1>2, <1>10, <2>3, <2>4, NoneLeft
  <2>9. state'.cursor <= stored'.len BY <1>2, <1>4, <1>5, <2>2, <2>3
  <2>10. Counts' BY <1>5, <2>3, <2>4, <2>9 DEF Counts
  <2>11. slipped' \in BOOLEAN BY <1>1 DEF IInv, Typed
  <2> QED BY <1>2, <1>10, <2>2, <2>3, <2>4, <2>5, <2>7, <2>8, <2>10, <2>11, WrittenKeeps
<1> QED BY <1>6, <1>7, <1>8, <1>9, <1>10

\* When all that was accepted is stored, the calls know it from the log, and a
\* session may come or go.
LEMMA OthersTold ==
    ASSUME Typed, Typed', CallersFine, EntryGoesOn, UNCHANGED <<stored, spent>>,
           session.no = None \/ session.len <= stored.len,
           spent.foreign = 0 /\ session'.phase = "live" => stored.len <= session'.len,
           NEW d \in Callers, Like(caller'[d], caller[d])
    PROVE  Fine(caller[d])'
<1> DEFINE r == caller'[d]
           q == caller[d]
<1>1. r \in Records /\ q \in Records /\ Like(r, q) BY DEF Typed
<1>2. Fit(q) /\ Fitting(q) /\ Shared(q) /\ Informed(q) /\ Honest(q) BY DEF CallersFine
<1>3. stored \in Logs /\ session \in Sessions /\ session' \in Sessions /\ spent \in Spendings
  BY DEF Typed
<1> HIDE DEF r, q
<1>4. q.from <= stored.len
  BY <1>1, <1>2, <1>3 DEF Informed, Logs, Sessions, Records
<1>5. Fit(r) BY <1>1, <1>2 DEF Fit, Like, Sourced, Claiming
<1>6. Fitting(r) BY <1>1, <1>2 DEF Fitting, Fits, Like
<1>7. r.stage \in Sourced /\ r.no = entry'.no => entry'.phase # "loading" /\ r.src = entry'.src
  BY <1>1, <1>2, NoThings DEF Shared, Like, EntryGoesOn, Sourced, Claiming, Fit
<1>8. r.from <= stored'.len BY <1>1, <1>4 DEF Like
<1>9. spent'.foreign = 0 /\ session'.phase = "live" /\ r.call # "append" => r.from <= session'.len
  BY <1>1, <1>3, <1>4 DEF Like, Logs, Sessions, Records
<1>10. r.stage \in Keeping \cup {"current"} => r.from <= Length(r.src)
  BY <1>1, <1>2 DEF Informed, Like, Keeping
<1>11. r.stage = "flushing" =>
            r.src.rev <= stored'.len /\ (spent'.foreign = 0 => r.from <= r.src.rev)
  BY <1>1, <1>2, <1>3 DEF Informed, Like, Logs, Sessions, Records, Sources
<1>12. (r.missed > 0 => r.stage = "borrowed" /\ spent'.foreign > 0) /\ r.ahead = 0
  BY <1>1, <1>2, <1>3 DEF Honest, Like, Spendings, Records
<1> QED
  BY <1>5, <1>6, <1>7, <1>8, <1>9, <1>10, <1>11, <1>12
  DEF Fine, Fitting, Fits, Shared, Informed, Live, Length, Honest, r

\* retireCore's end: the id has no owner any more.
LEMMA ForgetKeeps ==
    ASSUME IInv, Forget PROVE IInv'
<1>1. /\ Head1("forget") /\ OpEnds /\ session' = NoSession
      /\ state' = IF state.owner = session.no THEN NoState ELSE state
      /\ UNCHANGED <<stored, entry, caller, spent, slipped>>
  BY DEF Forget
<1>2. chain # <<>> /\ chain[1].kind = "forget" /\ 1 \in Places /\ chain[1] \in Ops
  BY <1>1, HeadFacts
<1>3. chain[1].kind \in BySession /\ chain[1].kind # "load" BY <1>2 DEF BySession
<1>4. /\ session.no # None /\ session.written = session.len /\ state.owner = session.no
      /\ state.known
  BY <1>2, <1>3 DEF IInv, Owns
<1>5. state' = NoState BY <1>1, <1>4
<1>6. session.len <= stored.len
  <2>1. session.written <= state.cursor /\ state.cursor <= stored.len
    BY <1>4 DEF IInv, Counts
  <2> QED BY <1>4, <2>1 DEF IInv, Typed, Sessions, States, Logs
<1>7. Shifted BY <1>1, <1>2, OpEndsEffect DEF IInv
<1>8. Typed'
  <2>1. chain' \in Seq(Ops) BY <1>7 DEF Shifted
  <2> QED BY <1>1, <1>5, <2>1, NoThings DEF IInv, Typed
<1>9. \A d \in Callers : Like(caller'[d], caller[d]) BY <1>1 DEF Like
<1>10. EntryGoesOn /\ LogGrows /\ MovesHead BY <1>1, <1>9 DEF EntryGoesOn, LogGrows, MovesHead
<1>11. CallersFine'
  <2>1. session'.phase # "live" BY <1>1, NoThings
  <2>2. \A d \in Callers : Fine(caller[d])'
    BY <1>1, <1>6, <1>8, <1>9, <1>10, <2>1, OthersTold DEF IInv
  <2> QED BY <2>2, CallersFineFrom
<1>12. OpsFit' /\ HeadHolds' BY <1>7, ShiftedOps DEF IInv
<1>13. SourcesFit'
  <2>1. FitsThen(entry'.src) BY <1>1 DEF FitsThen, IInv, SourcesFit, Fits
  <2> QED BY <1>7, <1>8, <1>10, <2>1, ShiftedSources DEF SourcesFit, Fits, FitsThen
<1>14. Answered' /\ ReadsQueued'
  BY <1>3, <1>7, <1>10, ShiftedAnswered, ShiftedReads DEF IInv
<1>15. ClaimsStay /\ KeepsStay BY <1>9, GoingOn DEF GoesOn
<1>16. OneClaim' BY <1>1, <1>15, SameClaims DEF IInv
<1>17. Owns' BY <1>1, <1>2, <1>3, <1>5, NoThings, NoneLeft
<1>18. Counts' BY <1>1, <1>5, NoThings DEF Counts
<1>19. EntryCurrent'
  <2>1. \A d \in Callers : Keeps(d) => caller[d].no # entry.no
    BY <1>4 DEF IInv, EntryCurrent, Committed
  <2> QED BY <1>1, <2>1 DEF IInv, EntryCurrent, Keeps
<1> QED
  BY <1>8, <1>11, <1>12, <1>13, <1>14, <1>16, <1>17, <1>18, <1>19 DEF IInv

\* Another process writes to the log.
LEMMA ForeignKeeps ==
    ASSUME IInv, NEW open \in BOOLEAN, Foreign(open) PROVE IInv'
<1>1. /\ Spend("foreign") /\ stored' = [len |-> stored.len + 1, open |-> open]
      /\ UNCHANGED <<entry, chain, state, session, caller, slipped>>
  BY DEF Foreign, Trouble
<1>2. spent' \in Spendings /\ spent'.foreign >= spent.foreign /\ spent'.foreign # 0
  BY <1>1, SpendEffect DEF IInv, Spendings
<1>3. /\ stored' \in Logs /\ stored'.len = stored.len + 1 /\ stored.len \in Nat
      /\ stored'.len > stored.len /\ stored'.len > 0
  BY <1>1 DEF IInv, Typed, Logs
<1>4. Typed' BY <1>1, <1>2, <1>3 DEF IInv, Typed
<1>5. \A d \in Callers : Like(caller'[d], caller[d]) BY <1>1 DEF Like
<1>6. LogGrows /\ EntryGoesOn /\ SessionGoesOn /\ MovesFree
  BY <1>1, <1>3, <1>5
  DEF LogGrows, EntryGoesOn, SessionGoesOn, MovesFree, IInv, Typed, Sessions
<1>7. CallersFine'
  <2>1. \A d \in Callers : Fine(caller[d])'
    BY <1>2, <1>4, <1>5, <1>6, OthersFine DEF IInv
  <2> QED BY <2>1, CallersFineFrom
<1>8. OpsFit' BY <1>1 DEF IInv, OpsFit, Places, OpFits
<1>9. SourcesFit'
  <2>1. ASSUME NEW s \in Sources, Fits(s) PROVE FitsThen(s)
    BY <1>3, <2>1 DEF Fits, FitsThen, Sources, Logs
  <2>2. entry.src \in Sources /\ \A i \in Places : chain[i].src \in Sources
    BY ChainTyped DEF IInv, Typed, Entries, Ops
  <2>3. FitsThen(entry.src) /\ \A i \in Places : FitsThen(chain[i].src)
    BY <2>1, <2>2 DEF IInv, SourcesFit
  <2> QED BY <1>1, <2>3 DEF SourcesFit, Places, Fits, FitsThen
<1>10. Answered' /\ ReadsQueued' BY <1>1, <1>6, SameAnswered, SameReads DEF IInv
<1>11. ClaimsStay /\ KeepsStay BY <1>5, GoingOn DEF GoesOn
<1>12. OneClaim' BY <1>1, <1>11, SameClaims DEF IInv
<1>13. HeadHolds' BY <1>1, <1>2 DEF IInv, HeadHolds, Running, Adopting, Keeps
<1>14. Owns' BY <1>1 DEF IInv, Owns, Places
<1>15. Counts' BY <1>1, <1>3 DEF IInv, Counts, Typed, States
<1>16. EntryCurrent' BY <1>1, <1>2 DEF IInv, EntryCurrent, Keeps, Length
<1> QED
  BY <1>4, <1>7, <1>8, <1>9, <1>10, <1>12, <1>13, <1>14, <1>15, <1>16 DEF IInv

\* The holder of a preparation publishes its Session.
LEMMA PublishKeeps ==
    ASSUME IInv, NEW c \in Callers, NEW suffix \in 0..1, Publish(c, suffix) PROVE IInv'
<1> DEFINE len == Length(caller[c].src)
           to == [len |-> len + suffix, open |-> FALSE]
           op == Op("suffix", caller[c].no, NoSource, to)
           cs == Ends(c, len)
<1>1. /\ caller[c].stage = "holding" /\ entry.no = caller[c].no
      /\ state.owner = None /\ state.cursor = len
      /\ Remove(entry.no, cs)
      /\ state' = [state EXCEPT !.owner = caller[c].no]
      /\ session' = [no |-> caller[c].no, phase |-> "live", len |-> len + suffix,
                     open |-> FALSE, written |-> len,
                     init |-> IF suffix > 0 THEN "running" ELSE "ready"]
      /\ IF suffix > 0 THEN Serialize(op) ELSE UNCHANGED chain
      /\ UNCHANGED <<stored, spent, slipped>>
  BY DEF Publish
<1>2. /\ Keeps(c) /\ Claims(c) /\ caller[c] \in Records /\ caller[c].no \in Nat
      /\ caller[c].no # None
  BY <1>1 DEF Keeps, Claims, Keeping, Claiming, Sourced, IInv, Typed, Records, CallersFine, Fit
<1>3. /\ state.known /\ entry.phase = "reserved" /\ session.no = None
      /\ state.cursor <= stored.len
      /\ spent.foreign = 0 => stored.len = state.cursor
  BY <1>1, <1>2 DEF IInv, EntryCurrent, Committed, OneClaim, Owns, Counts
<1>4. len \in Nat /\ len + suffix \in Nat /\ len + suffix >= len /\ stored.len \in Nat
      /\ state \in States
  BY <1>2 DEF Length, Records, Sources, IInv, Typed, Logs
<1>5. /\ cs \in [Callers -> Records] /\ \A d \in Callers : d # c => cs[d] = caller[d]
      /\ Ended(cs[c]) /\ cs[c].missed = 0 /\ cs[c].ahead = 0
  BY <1>1, <1>2, KeptView
<1> HIDE DEF cs, len
<1>6. /\ caller' \in [Callers -> Records] /\ entry' = NoEntry /\ caller'[c] = cs[c]
      /\ \A d \in Callers : d # c => Like(caller'[d], caller[d])
  <2>1. /\ caller' \in [Callers -> Records] /\ entry' = NoEntry
        /\ \A d \in Callers : Like(caller'[d], cs[d])
        /\ \A d \in Callers : cs[d].stage # "parked" => caller'[d] = cs[d]
    BY <1>1, <1>5, RemoveEffect
  <2> QED BY <1>5, <2>1 DEF Ended
<1>7. /\ state' \in States /\ state'.owner = caller[c].no /\ state'.known
      /\ state'.cursor = len
  BY <1>1, <1>2, <1>3, <1>4 DEF States
<1>8. /\ session' \in Sessions /\ session'.no = caller[c].no /\ session'.phase = "live"
      /\ session'.len = len + suffix /\ session'.written = len
      /\ suffix > 0 => session'.init = "running"
  BY <1>1, <1>2, <1>4 DEF Sessions
<1>9. /\ op \in Ops /\ op.kind = "suffix" /\ op.src = NoSource /\ op.step = "queued"
      /\ op.to.len = len + suffix
  BY <1>2, <1>4, NoThings DEF Op, Ops, Kinds, Logs
<1>10. OpFits(op) /\ op.kind \notin ByCaller /\ op.kind # "load" /\ op.kind # "commit"
  BY <1>9 DEF OpFits, ByCaller
<1> HIDE DEF op, to
<1>11. UNCHANGED chain \/ (Joined(op) /\ suffix > 0)
  BY <1>1, <1>9, SerializeEffect DEF IInv
<1>12. Typed'
  <2>1. chain' \in Seq(Ops) BY <1>11 DEF Joined, IInv, Typed
  <2> QED BY <1>1, <1>6, <1>7, <1>8, <2>1, NoThings DEF IInv, Typed
<1>13. EntryGoesOn /\ MovesFree
  BY <1>1, <1>6 DEF EntryGoesOn, MovesFree, Awaits
<1>14. CallersFine'
  <2>1. Fine(caller[c])' BY <1>5, <1>6, <1>12, EndedFine DEF IInv
  <2>2. spent.foreign = 0 /\ session'.phase = "live" => stored.len <= session'.len
    BY <1>1, <1>3, <1>4, <1>8
  <2>3. \A d \in Callers : Fine(caller[d])'
    BY <1>1, <1>3, <1>6, <1>12, <1>13, <2>1, <2>2, OthersTold DEF IInv
  <2> QED BY <2>3, CallersFineFrom
<1>15. OpsFit'
  <2>1. CASE UNCHANGED chain BY <2>1 DEF IInv, OpsFit, Places, OpFits
  <2>2. CASE Joined(op) BY <1>9, <1>10, <2>2, JoinedOps DEF IInv
  <2> QED BY <1>11, <2>1, <2>2
<1>16. SourcesFit'
  <2>1. Fits(NoSource) BY NoThings DEF Fits, IInv, Typed, Logs
  <2>2. FitsThen(entry'.src) BY <1>1, <1>6, <2>1, NoThings DEF Fits, FitsThen
  <2>3. Fits(entry.src)' BY <2>2 DEF Fits, FitsThen
  <2>4. CASE UNCHANGED chain BY <1>1, <2>3, <2>4 DEF IInv, SourcesFit, Fits, Places
  <2>5. CASE Joined(op) BY <1>1, <1>9, <2>1, <2>3, <2>5, JoinedSources DEF IInv
  <2> QED BY <1>11, <2>4, <2>5
<1>17. Answered' /\ ReadsQueued'
  <2>1. CASE UNCHANGED chain BY <1>13, <2>1, SameAnswered, SameReads DEF IInv
  <2>2. CASE Joined(op) BY <1>10, <1>13, <2>2, JoinedAnswered, JoinedReads DEF IInv
  <2> QED BY <1>11, <2>1, <2>2
<1>18. \A d \in Callers : GoesOn(caller'[d], caller[d])
  BY <1>5, <1>6 DEF GoesOn, Ended, Claiming
<1>19. ClaimsStay /\ KeepsStay BY <1>18, GoingOn
<1>20. OneClaim'
  <2>1. \A d \in Callers : caller'[d].stage # "holding"
    <3>1. ASSUME NEW d \in Callers, d # c PROVE caller'[d].stage # "holding"
      <4>1. caller[d].stage # "holding" BY <1>1, <1>2, <3>1, NoOtherHolder
      <4> QED BY <1>6, <3>1, <4>1 DEF Like
    <3> QED BY <1>5, <1>6, <3>1 DEF Ended
  <2> QED BY <1>6, <1>14, <1>19, <2>1, LeftClaims DEF IInv
<1>21. HeadHolds'
  <2>1. CASE Len(chain') > 0 /\ Len(chain) > 0 /\ chain'[1] = chain[1]
    <3>1. ~Adopting /\ ~Running("writing")
      BY <1>1, <1>2, <1>3 DEF IInv, HeadHolds
    <3>2. ~Adopting' /\ ~Running("writing")' BY <2>1, <3>1 DEF Adopting, Running
    <3>3. Running("repair")' => Running("repair") BY <2>1 DEF Running
    <3> QED BY <1>1, <2>1, <3>2, <3>3 DEF IInv, HeadHolds
  <2>2. CASE Len(chain') = 0 \/ chain'[1].step = "queued"
    BY <2>2 DEF HeadHolds, Running, Adopting
  <2>3. CASE UNCHANGED chain BY <2>1, <2>2, <2>3, ChainTyped DEF IInv
  <2>4. CASE Joined(op)
    BY <1>9, <2>1, <2>2, <2>4, ChainTyped DEF IInv, Joined, Places
  <2> QED BY <1>11, <2>3, <2>4
<1>22. Owns'
  <2>1. \A i \in Places : chain[i].kind \notin BySession BY <1>3 DEF IInv, Owns
  <2>2. \A i \in Places' : chain'[i].kind \in BySession =>
            /\ i = Len(chain) + 1 /\ suffix > 0 /\ chain'[i] = op
    <3>1. CASE UNCHANGED chain BY <2>1, <3>1 DEF Places
    <3>2. CASE Joined(op) /\ suffix > 0 BY <2>1, <3>2, JoinedPlaces DEF IInv
    <3> QED BY <1>11, <3>1, <3>2
  <2>3. \A i \in Places' : chain'[i].kind \in BySession =>
            /\ session'.init = "running" /\ chain'[i].kind = "suffix"
            /\ chain'[i].to.len > session'.written
    BY <1>4, <1>8, <1>9, <2>2
  <2> QED BY <1>2, <1>7, <1>8, <2>2, <2>3 DEF Owns, BySession
<1>23. Counts' BY <1>1, <1>3, <1>4, <1>7, <1>8 DEF Counts
<1>24. EntryCurrent' BY <1>6, <1>14, LeftCurrent
<1> QED
  BY <1>12, <1>14, <1>15, <1>16, <1>17, <1>20, <1>21, <1>22, <1>23, <1>24 DEF IInv

(***************************************************************************)
(* The invariant, and what follows from it.                                 *)
(***************************************************************************)

\* Nothing is under way at the start: a log that is stored, and no entry,
\* operation, owner or call.
LEMMA Begins == Init => IInv
<1> SUFFICES ASSUME Init PROVE IInv OBVIOUS
<1>1. /\ stored \in [len : {1}, open : BOOLEAN] /\ stored.len = 1 /\ stored \in Logs
      /\ entry = NoEntry /\ chain = <<>> /\ state = NoState /\ session = NoSession
      /\ caller = [c \in Callers |-> Idle] /\ slipped = FALSE
      /\ spent = [events |-> 0, foreign |-> 0, evictions |-> 0, failures |-> 0]
  BY DEF Init, Logs
<1>2. /\ Idle \in Records /\ Idle.stage = "idle" /\ Idle.call = "none" /\ Idle.src = NoSource
      /\ Idle.from = 0 /\ Idle.missed = 0 /\ Idle.ahead = 0
  BY NoThings DEF Idle, Records, Stages
<1>3. Places = {} BY <1>1 DEF Places
<1>4. Typed
  <2>1. chain \in Seq(Ops) BY <1>1
  <2>2. spent \in Spendings BY <1>1 DEF Spendings
  <2>3. caller \in [Callers -> Records] BY <1>1, <1>2
  <2>4. /\ entry \in Entries /\ state \in States /\ session \in Sessions
        /\ entry.phase = "none" <=> entry.no = None
    BY <1>1, NoThings
  <2>5. stored \in Logs /\ stored.len > 0 BY <1>1
  <2>6. slipped \in BOOLEAN /\ (entry.no = None => entry = NoEntry) BY <1>1
  <2> QED BY <2>1, <2>2, <2>3, <2>4, <2>5, <2>6 DEF Typed
<1>5. \A c \in Callers : caller[c] = Idle BY <1>1
<1>6. Fits(NoSource) BY <1>1, NoThings DEF Fits
<1>7. CallersFine
  BY <1>1, <1>2, <1>5, <1>6, NoThings
  DEF CallersFine, Fit, Fitting, Shared, Informed, Live, Honest, Sourced, Claiming, Keeping
<1>8. \A c \in Callers : ~Claims(c) /\ ~Keeps(c) /\ caller[c].stage # "holding"
  BY <1>2, <1>5 DEF Claims, Keeps, Claiming, Keeping
<1>9. OpsFit /\ Answered /\ SourcesFit
  BY <1>1, <1>3, <1>6, NoThings DEF OpsFit, Answered, SourcesFit
<1>10. OneClaim /\ EntryCurrent BY <1>1, <1>8, NoThings DEF OneClaim, EntryCurrent
<1>11. ReadsQueued BY <1>1, <1>3, NoThings DEF ReadsQueued
<1>12. HeadHolds BY <1>1 DEF HeadHolds, Adopting, Running
<1>13. Owns /\ Counts BY <1>1, <1>3, NoThings DEF Owns, Counts
<1> QED BY <1>4, <1>7, <1>9, <1>10, <1>11, <1>12, <1>13 DEF IInv

\* When nothing happens, all stays as it is.
LEMMA StutterKeeps ==
    ASSUME IInv, UNCHANGED vars PROVE IInv'
<1>1. UNCHANGED <<stored, entry, chain, state, session, caller, spent, slipped>> BY DEF vars
<1>2. SessionStep
  <2>1. session' \in Sessions /\ SessionGoesOn /\ spent' \in Spendings /\ ForeignStays
    BY <1>1 DEF SessionGoesOn, ForeignStays, IInv, Typed, Sessions
  <2> QED BY <1>1, <2>1, SessionStepAlone
<1>3. Owns' BY <1>1 DEF IInv, Owns, Places
<1>4. Counts' BY <1>1 DEF IInv, Counts
<1> QED BY <1>1, <1>2, <1>3, <1>4, SessionAlone

\* Every step keeps the invariant.
LEMMA StepsKeep == IInv /\ [Next]_vars => IInv'
<1> SUFFICES ASSUME IInv, [Next]_vars PROVE IInv' OBVIOUS
<1>1. ASSUME NEW c \in Callers, NEW call \in Calls, Call(c, call) PROVE IInv'
  BY <1>1, CallKeeps
<1>2. ASSUME NEW c \in Callers, CallAppend(c) PROVE IInv' BY <1>2, CallAppendKeeps
<1>3. ASSUME NEW c \in Callers, Retry(c) \/ Waited(c) \/ Reserve(c) \/ Reserved(c) PROVE IInv'
  BY <1>3, RetryKeeps, WaitedKeeps, ReserveKeeps, ReservedKeeps
<1>4. ASSUME NEW c \in Callers, NEW reusable \in BOOLEAN, Release(c, reusable) PROVE IInv'
  BY <1>4, ReleaseKeeps
<1>5. ASSUME NEW c \in Callers, NEW suffix \in 0..1, Publish(c, suffix) PROVE IInv'
  BY <1>5, PublishKeeps
<1>6. ASSUME NEW c \in Callers, Inspect(c) \/ Inspected(c) \/ Abort(c) \/ Flushed(c) PROVE IInv'
  BY <1>6, InspectKeeps, InspectedKeeps, AbortKeeps, FlushedKeeps
<1>7. ASSUME Load \/ Commit \/ Check PROVE IInv' BY <1>7, LoadKeeps, CommitKeeps, CheckKeeps
<1>8. ASSUME AppendStarts \/ AppendRepairs PROVE IInv'
  BY <1>8, AppendStartsKeeps, AppendRepairsKeeps
<1>9. ASSUME NEW open \in BOOLEAN, AppendWrites(open) \/ Event(open) \/ Foreign(open) PROVE IInv'
  BY <1>9, AppendWritesKeeps, EventKeeps, ForeignKeeps
<1>10. ASSUME Drain \/ Write \/ Dispose \/ Retire \/ Forget \/ Evict PROVE IInv'
  BY <1>10, DrainKeeps, WriteKeeps, DisposeKeeps, RetireKeeps, ForgetKeeps, EvictKeeps
<1>11. CASE UNCHANGED vars BY <1>11, StutterKeeps
<1> QED
  BY <1>1, <1>2, <1>3, <1>4, <1>5, <1>6, <1>7, <1>8, <1>9, <1>10, <1>11 DEF Next

\* The invariant holds for every number of callers, events and troubles.
THEOREM Invariance == Spec => []IInv
BY Begins, StepsKeep, PTL DEF Spec

\* The states are of their types: an entry has a phase when it has a number, and
\* an owner is entered with its state (PersistenceCoordinator's maps).
THEOREM TypesHold == Spec => []TypeOK
<1>1. IInv => TypeOK
  <2> SUFFICES ASSUME IInv PROVE TypeOK OBVIOUS
  <2>1. stored \in [len : Nat, open : BOOLEAN] /\ state.known \in BOOLEAN
    BY DEF IInv, Typed, Logs, States
  <2>2. entry.phase \in Phases /\ (entry.phase = "none" <=> entry.no = None)
    BY DEF IInv, Typed, Entries
  <2>3. session.phase \in {"none", "live", "retiring", "stuck"}
        /\ \A c \in Callers : caller[c].stage \in Stages
    BY DEF IInv, Typed, Sessions, Records
  <2>4. state.owner # None => state.known BY DEF IInv, Owns
  <2> QED BY <2>1, <2>2, <2>3, <2>4 DEF TypeOK
<1> QED BY <1>1, Invariance, PTL

\* Whoever holds a preparation is the log's only writer and continues it, for
\* any number of callers (reserve, commitPrepared, assertWritable).
THEOREM OneHolderOwnsTheLog == Spec => []HoldersOwnTheLog
<1>1. IInv => HoldersOwnTheLog
  <2> SUFFICES ASSUME IInv PROVE HoldersOwnTheLog OBVIOUS
  <2>1. ASSUME NEW c \in Holders
        PROVE  c \in Callers /\ Claims(c) /\ Keeps(c) /\ entry.no = caller[c].no
               /\ entry.phase = "reserved"
    BY <2>1 DEF Holders, Claims, Keeps, Claiming, Keeping, IInv, OneClaim
  <2>2. ASSUME NEW c \in Holders
        PROVE  /\ state = Committed(caller[c].src)
               /\ spent.foreign = 0 => stored.len = state.cursor /\ ~stored.open
    BY <2>1 DEF IInv, EntryCurrent
  <2>3. \A c, d \in Holders : c = d BY <2>1 DEF IInv, OneClaim
  <2>4. OneWriter BY <2>1, <2>2, <2>3 DEF OneWriter, Committed
  <2>5. stored = [len |-> stored.len, open |-> stored.open] /\ stored.open \in BOOLEAN
    BY DEF IInv, Typed, Logs
  <2>6. HeldIsCurrent BY <2>2, <2>5 DEF HeldIsCurrent, Committed
  <2> QED BY <2>4, <2>6 DEF HoldersOwnTheLog
<1> QED BY <1>1, Invariance, PTL

\* A write is counted when storage has it, step by step.
LEMMA WritesAreStored ==
    ASSUME IInv, [Next]_vars, ~slipped PROVE WriteStores
<1>1. session \in Sessions /\ session.written \in Nat BY DEF IInv, Typed, Sessions
<1>2. ASSUME session'.written = session.written PROVE WriteStores
  BY <1>1, <1>2 DEF WriteStores
<1>3. CASE UNCHANGED session BY <1>2, <1>3
<1>4. ASSUME NEW c \in Callers, NEW call \in Calls, Call(c, call) PROVE UNCHANGED session
  BY <1>4 DEF Call, Begin
<1>5. ASSUME NEW c \in Callers,
             CallAppend(c) \/ Retry(c) \/ Waited(c) \/ Reserve(c) \/ Reserved(c) \/ Inspect(c)
             \/ Inspected(c) \/ Abort(c) \/ Flushed(c)
      PROVE  UNCHANGED session
  BY <1>5
  DEF CallAppend, Retry, Begin, Waited, Reserve, Reserved, Inspect, Inspected, Abort, Flushed
<1>6. ASSUME NEW c \in Callers, NEW reusable \in BOOLEAN, Release(c, reusable)
      PROVE  UNCHANGED session
  BY <1>6 DEF Release
<1>7. ASSUME Load \/ Commit \/ Check \/ AppendStarts \/ AppendRepairs \/ Drain \/ Evict
      PROVE  UNCHANGED session
  BY <1>7 DEF Load, Commit, Check, AppendStarts, AppendRepairs, Drain, Evict
<1>8. ASSUME NEW open \in BOOLEAN, AppendWrites(open) \/ Foreign(open) PROVE UNCHANGED session
  BY <1>8 DEF AppendWrites, Foreign
<1>9. ASSUME NEW open \in BOOLEAN, Event(open) PROVE WriteStores
  BY <1>1, <1>2, <1>9 DEF Event, Sessions
<1>10. ASSUME Dispose \/ Retire PROVE WriteStores
  BY <1>1, <1>2, <1>10 DEF Dispose, Retire, Sessions
<1>11. ASSUME Forget PROVE WriteStores
  <2>1. session'.no = None BY <1>11, NoThings DEF Forget
  <2>2. session.no # None
    <3>1. Head1("forget") BY <1>11 DEF Forget
    <3>2. chain[1].kind = "forget" /\ 1 \in Places BY <3>1, HeadFacts
    <3> QED BY <3>2 DEF IInv, Owns, BySession
  <2> QED BY <2>1, <2>2 DEF WriteStores
<1>12. ASSUME NEW c \in Callers, NEW suffix \in 0..1, Publish(c, suffix) PROVE WriteStores
  <2>1. caller[c].stage = "holding" /\ session'.no = caller[c].no /\ state.owner = None
    BY <1>12 DEF Publish
  <2>2. caller[c].no # None BY <2>1 DEF IInv, CallersFine, Fit, Sourced, Claiming
  <2>3. session.no = None BY <2>1 DEF IInv, Owns
  <2> QED BY <2>1, <2>2, <2>3 DEF WriteStores
<1>13. ASSUME Write PROVE WriteStores
  <2>1. Head1("write") \/ Head1("suffix") BY <1>13 DEF Write
  <2>2. /\ Head(chain) = chain[1] /\ chain[1].kind \in {"write", "suffix"}
        /\ chain[1].step \in {"queued", "writing"}
        /\ chain[1].to \in Logs /\ chain[1].to.len > session.written
        /\ session.written = state.cursor
    BY <2>1, WriterFacts
  <2> DEFINE to == chain[1].to
  <2>3. to.len \in Nat /\ stored.len \in Nat BY <2>2 DEF Logs, IInv, Typed
  <2>4. to.len > state.cursor BY <2>2
  <2>5. ~(to.len <= state.cursor) BY <1>1, <2>2, <2>3, <2>4
  <2>6. \/ UNCHANGED session
        \/ WriteFails
        \/ /\ stored' = [len |-> stored.len + to.len - state.cursor, open |-> to.open]
           /\ session' = [session EXCEPT !.written = to.len, !.init = "ready"]
    <3> HIDE DEF to
    <3>1. CASE chain[1].step = "queued" BY <1>13, <2>2, <2>4, <2>5, <3>1 DEF Write, to
    <3>2. CASE chain[1].step = "writing" BY <1>13, <2>2, <3>2 DEF Write, to
    <3> QED BY <2>2, <3>1, <3>2
  <2>7. CASE WriteFails BY <1>1, <1>2, <2>7 DEF WriteFails, Sessions
  <2>8. CASE /\ stored' = [len |-> stored.len + to.len - state.cursor, open |-> to.open]
             /\ session' = [session EXCEPT !.written = to.len, !.init = "ready"]
    <3> HIDE DEF to
    <3>1. stored'.len = stored.len + to.len - state.cursor BY <2>8
    <3>2. session'.written = to.len BY <1>1, <2>8 DEF Sessions
    <3> QED BY <1>1, <2>2, <2>3, <3>1, <3>2 DEF WriteStores
  <2> QED BY <1>3, <2>6, <2>7, <2>8
<1>14. CASE UNCHANGED vars BY <1>3, <1>14 DEF vars
<1> QED
  BY <1>3, <1>4, <1>5, <1>6, <1>7, <1>8, <1>9, <1>10, <1>11, <1>12, <1>13, <1>14 DEF Next

\* No view misses what its caller could know of, none that is committed is ahead
\* of storage, and no event counts as written that storage does not have
\* (prepare, load, inspect; appendLiveBatch, attachPrepared).
THEOREM AnswersAreTrue == Spec => AnswersMatchStorage
<1>1. IInv => ViewsMatchTheLog
  BY DEF IInv, CallersFine, Honest, ViewsMatchTheLog, ViewsAreFresh, LoadsAreDurable
<1>2. IInv /\ [Next]_vars => [~slipped => WriteStores]_vars BY WritesAreStored
<1> QED BY <1>1, <1>2, Invariance, PTL DEF Spec, AnswersMatchStorage, StoredUnlessSlipped
=============================================================================
