----------------------- MODULE PersistenceCoordinator -----------------------
(***************************************************************************)
(* One stored session and those who read it, reserve it for a resume,       *)
(* append to it or own it live: PersistenceCoordinator over its cache of    *)
(* prepared sources, SessionPreparations.                                   *)
(*                                                                          *)
(* Every operation on the log runs on the chain of its id.  A source is     *)
(* known by the number of the read that built it, and so is the Session it  *)
(* holds; a number nobody holds any more is given again.  Of the log the    *)
(* model keeps its length, which is also its revision, and whether its      *)
(* last turn is open and owes a repair.  Other ids are there only in that   *)
(* they may push this one's ready source out of the cache, and the Session  *)
(* of an id goes live by a publication of its preparation.                  *)
(***************************************************************************)
EXTENDS Naturals, Sequences, FiniteSets

CONSTANTS
    Callers,        \* each makes one call
    Calls,          \* the calls they may make: "prepare", "load", "inspect", "append"
    MaxEvents,      \* bound: events appended to live sessions
    MaxTroubles     \* bound: writes of another process, evictions by sources of
                    \* other ids, and failing reads and writes, together

ASSUME BoundsAssumption == MaxEvents \in Nat /\ MaxTroubles \in Nat
ASSUME CallsAssumption == Calls \subseteq {"prepare", "load", "inspect", "append"}
ASSUME CallersAssumption == IsFiniteSet(Callers)

VARIABLES
    stored,    \* the durable log
    entry,     \* this.preparations' entry for the id
    chain,     \* this.chains: the operations in their order, the first one running
    state,     \* this.states
    session,   \* the live or retiring Session and its LiveSessionState
    caller,    \* where each call stands
    spent,     \* how much of each bound is used
    slipped    \* a detached append reached the log of a live session

vars == <<stored, entry, chain, state, session, caller, spent, slipped>>

None == 0
NoSource == [no |-> None, rev |-> 0, open |-> FALSE]
NoEntry == [no |-> None, phase |-> "none", src |-> NoSource]
NoPosition == [len |-> 0, open |-> FALSE]
NoState == [known |-> FALSE, cursor |-> 0, owner |-> None]
NoSession == [no |-> None, phase |-> "none", len |-> 0, open |-> FALSE,
              written |-> 0, init |-> "ready"]

Idle == [stage |-> "idle", call |-> "none", no |-> None, src |-> NoSource,
         from |-> 0, missed |-> 0, ahead |-> 0]

Op(kind, by, src, to) ==
    [kind |-> kind, by |-> by, src |-> src, to |-> to, step |-> "queued"]

Init ==
    /\ stored \in [len : {1}, open : BOOLEAN]
    /\ entry = NoEntry /\ chain = <<>> /\ state = NoState /\ session = NoSession
    /\ caller = [c \in Callers |-> Idle]
    /\ spent = [events |-> 0, foreign |-> 0, evictions |-> 0, failures |-> 0]
    /\ slipped = FALSE

(***************************************************************************)
(* Vocabulary.                                                              *)
(***************************************************************************)

\* ctx.sessions.get(id) !== undefined
Live == session.phase = "live"

\* The length of the balanced log a source shows: its closers included.
Length(s) == IF s.open THEN s.rev + 1 ELSE s.rev

\* prepareCore, as far as the log decides it.
Read(n) == [no |-> n, rev |-> stored.len, open |-> stored.open]

\* Mutant: the repair is left to the next load.
OwesNoRepair(src) == FALSE

\* The log ends in an open turn (or a torn record).
OwesRepair(src) == src.open

\* Mutant: the check compares the source with itself.
IsCurrentAlways(src) == src.rev = src.rev

\* isPreparedSourceCurrent
IsCurrent(src) == src.rev = stored.len

\* A number for the next read.
Fresh ==
    LET used == {entry.no, session.no} \cup {caller[c].no : c \in Callers}
                \cup {chain[i].by : i \in {j \in DOMAIN chain : chain[j].kind = "load"}}
    IN  CHOOSE n \in 1..(Cardinality(used) + 1) : n \notin used

Head1(kind) == chain # <<>> /\ Head(chain).kind = kind
Queued(kind) == \E i \in DOMAIN chain : chain[i].kind = kind
Serialize(op) == chain' = Append(chain, op)
OpEnds == chain' = Tail(chain)
OpGoesTo(step) == chain' = [chain EXCEPT ![1].step = step]

Spend(what) == spent' = [spent EXCEPT ![what] = @ + 1]
Trouble(what) ==
    spent.foreign + spent.evictions + spent.failures < MaxTroubles /\ Spend(what)
Fails == Trouble("failures")

\* A Session cannot be prepared beside a live one; else a failure is spent.
FailsUnlessLive == (Live /\ UNCHANGED spent) \/ Fails

Set(c, stage) == [caller EXCEPT ![c].stage = stage]

\* A call returns a view of the given length: how much it misses of what was
\* accepted before the call, and how far a committed one is ahead of storage.
Returns(r, view, stage) ==
    [Idle EXCEPT !.stage = stage,
                 !.missed = IF r.from > view THEN r.from - view ELSE 0,
                 !.ahead = IF r.call \in {"prepare", "load"} /\ view > stored.len
                             THEN view - stored.len ELSE 0]
Ends(c, view) == [caller EXCEPT ![c] = Returns(caller[c], view, "done")]
Borrows(c, view) == [caller EXCEPT ![c] = Returns(caller[c], view, "borrowed")]
Rejects(c) == [caller EXCEPT ![c] = [Idle EXCEPT !.stage = "rejected"]]
Retries(c) == [caller EXCEPT ![c].stage = "again", ![c].no = None, ![c].src = NoSource]

\* Mutant: nobody is told that a reservation is over.
SettleNobody(cs) == cs

\* settleReservation: whoever awaits the reservation looks again.
Settle(cs) == [c \in Callers |->
    IF cs[c].stage = "parked" /\ cs[c].no = entry.no
      THEN [cs[c] EXCEPT !.stage = "loaded"] ELSE cs[c]]

\* remove: forget the entry if it still is the one meant.
Remove(no, cs) ==
    IF entry.no = no
      THEN entry' = NoEntry /\ caller' = Settle(cs)
      ELSE caller' = cs /\ UNCHANGED entry

\* invalidate
Invalidate(cs) == Remove(entry.no, cs)

\* makeReady
MakeReady(no, src, cs) ==
    IF entry.no = no
      THEN /\ entry' = [no |-> no, phase |-> "ready", src |-> src]
           /\ caller' = Settle(cs)
      ELSE caller' = cs /\ UNCHANGED entry

\* Mutant: only a commit under way is protected.
WritableWhenReserved == entry.phase # "committing"

\* assertWritable does not throw.
Writable == entry.phase \notin {"committing", "reserved"}

(***************************************************************************)
(* A call up to the source it waits for.                                    *)
(***************************************************************************)

\* What was accepted for the log before a call is made.
Accepted == IF session.phase \in {"live", "retiring"} THEN session.len ELSE stored.len

\* loadLiveSnapshot up to its flush: what the session holds by now.
Snapshot(r) ==
    [r EXCEPT !.stage = "flushing", !.no = session.no,
              !.src = [NoSource EXCEPT !.rev = session.len, !.open = session.open]]

\* The look at the live session, then entryFor: r is the caller's record.
Look(c, r) ==
    IF Live
      THEN /\ UNCHANGED <<entry, chain>>
           /\ caller' = [caller EXCEPT ![c] =
                CASE r.call = "prepare" -> [Idle EXCEPT !.stage = "rejected"]
                  [] r.call = "inspect" -> Returns(r, session.len, "borrowed")
                  [] r.call = "load" -> Snapshot(r)]
      ELSE IF entry = NoEntry
        THEN LET n == Fresh IN
             /\ entry' = [NoEntry EXCEPT !.no = n, !.phase = "loading"]
             /\ Serialize(Op("load", n, NoSource, NoPosition))
             /\ caller' = [caller EXCEPT ![c] = [r EXCEPT !.stage = "loading", !.no = n]]
        ELSE /\ UNCHANGED <<entry, chain>>
             /\ caller' = [caller EXCEPT ![c] = [r EXCEPT
                    !.stage = IF entry.phase = "loading" THEN "loading" ELSE "loaded",
                    !.no = entry.no, !.src = entry.src]]

\* The top of the loop.  Only inspect looks for a retirement and goes on in the
\* same job when there is none; prepare and load await what they found.
Begin(c, r) ==
    /\ IF session.phase = "retiring" \/ r.call # "inspect"
         THEN /\ caller' = [caller EXCEPT ![c] = [r EXCEPT !.stage = "waiting",
                    !.no = IF session.phase = "retiring" THEN session.no ELSE None]]
              /\ UNCHANGED <<entry, chain>>
         ELSE Look(c, r)
    /\ UNCHANGED <<stored, state, session, spent, slipped>>

Call(c, call) ==
    /\ caller[c].stage = "idle" /\ call # "append"
    /\ Begin(c, [Idle EXCEPT !.call = call, !.from = Accepted])

Retry(c) == caller[c].stage = "again" /\ Begin(c, caller[c])

\* waitForRetirement is over; its failure is the caller's.
Waited(c) ==
    /\ caller[c].stage = "waiting"
    /\ LET mine == caller[c].no # None /\ session.no = caller[c].no IN
       /\ ~(mine /\ session.phase = "retiring")
       /\ IF mine /\ session.phase = "stuck"
            THEN caller' = Rejects(c) /\ UNCHANGED <<entry, chain>>
            ELSE Look(c, [caller[c] EXCEPT !.no = None])
    /\ UNCHANGED <<stored, state, session, spent, slipped>>

\* The read of an entry, and makeReady when the entry still stands.
Load ==
    /\ Head1("load") /\ OpEnds
    /\ LET n == Head(chain).by
           waiting(c) == caller[c].stage = "loading" /\ caller[c].no = n
       IN \/ /\ ~Live
             /\ MakeReady(n, Read(n), [c \in Callers |->
                    IF waiting(c) THEN [caller[c] EXCEPT !.stage = "loaded", !.src = Read(n)]
                                  ELSE caller[c]])
             /\ UNCHANGED spent
          \/ /\ FailsUnlessLive
             /\ Remove(n, [c \in Callers |->
                    IF waiting(c) THEN [Idle EXCEPT !.stage = "rejected"] ELSE caller[c]])
    /\ UNCHANGED <<stored, state, session, slipped>>

(***************************************************************************)
(* Reservation: prepare and load.                                           *)
(***************************************************************************)

\* Mutant: a reservation is no obstacle to another one.
FreeWhenReserved == entry.phase \in {"ready", "reserved"}

\* The entry waits for whoever reserves it.
Free == entry.phase = "ready"

\* reserve behind its await: again and again until the entry is ready or gone.
Reserve(c) ==
    /\ caller[c].stage = "loaded" /\ caller[c].call \in {"prepare", "load"}
    /\ IF entry.no # caller[c].no
         THEN caller' = Retries(c) /\ UNCHANGED <<entry, chain>>
         ELSE IF Free
           THEN /\ entry' = [entry EXCEPT !.phase = "committing"]
                /\ caller' = [caller EXCEPT ![c].stage = "committing", ![c].src = entry.src]
                /\ Serialize(Op("commit", c, entry.src, NoPosition))
           ELSE caller' = Set(c, "parked") /\ UNCHANGED <<entry, chain>>
    /\ UNCHANGED <<stored, state, session, spent, slipped>>

\* Mutant: the state is built, and not entered in the map.
CommittedUnset(src) == [known |-> FALSE, cursor |-> Length(src), owner |-> None]

\* The state a commit leaves: the source's cursor, and no owner.
Committed(src) == [known |-> TRUE, cursor |-> Length(src), owner |-> None]

\* commitPrepared on the chain.  "dropped": its caller's signal was aborted.
Commit ==
    /\ Head1("commit")
    /\ LET c == Head(chain).by
           src == Head(chain).src
       IN CASE Head(chain).step = "dropped" ->
                 OpEnds /\ UNCHANGED <<stored, state, caller, spent>>
            [] Head(chain).step = "queued" ->
                 /\ UNCHANGED stored
                 /\ IF state.owner # None
                      THEN OpEnds /\ caller' = Set(c, "refused") /\ UNCHANGED <<state, spent>>
                      ELSE \/ /\ ~IsCurrent(src)
                              /\ OpEnds /\ caller' = Set(c, "invalid") /\ UNCHANGED <<state, spent>>
                           \/ /\ IsCurrent(src) /\ OwesRepair(src)
                              /\ OpGoesTo("repair") /\ UNCHANGED <<state, caller, spent>>
                           \/ /\ IsCurrent(src) /\ ~OwesRepair(src)
                              /\ OpEnds /\ caller' = Set(c, "committed")
                              /\ state' = Committed(src) /\ UNCHANGED spent
                           \/ OpEnds /\ caller' = Set(c, "refused") /\ Fails /\ UNCHANGED state
            [] Head(chain).step = "repair" ->
                 /\ OpEnds /\ UNCHANGED state
                 /\ \/ /\ stored' = [len |-> stored.len + 1, open |-> FALSE]
                       /\ caller' = Set(c, "invalid") /\ UNCHANGED spent
                    \/ caller' = Set(c, "refused") /\ Fails /\ UNCHANGED stored
    /\ UNCHANGED <<entry, session, slipped>>

\* reserve behind its commit, then prepare's or load's last look at the id.
Reserved(c) ==
    /\ caller[c].stage \in {"refused", "invalid", "committed", "aborted"}
    /\ UNCHANGED <<stored, chain, state, session, spent, slipped>>
    /\ CASE caller[c].stage = "refused" -> Remove(caller[c].no, Rejects(c))
         [] caller[c].stage = "invalid" -> Remove(caller[c].no, Retries(c))
         [] caller[c].stage = "aborted" -> MakeReady(caller[c].no, caller[c].src, Rejects(c))
         [] caller[c].stage = "committed" ->
              IF entry.no # caller[c].no THEN caller' = Retries(c) /\ UNCHANGED entry
              ELSE IF caller[c].call = "load"
                THEN Remove(entry.no, IF Live THEN [caller EXCEPT ![c] = Snapshot(@)]
                                      ELSE Ends(c, Length(caller[c].src)))
                ELSE IF Live THEN Remove(entry.no, Rejects(c))
                  ELSE /\ entry' = [entry EXCEPT !.phase = "reserved"]
                       /\ caller' = Set(c, "holding")

\* The holder disposes of its preparation unpublished; reusable: its Session
\* got no event meanwhile.
Release(c, reusable) ==
    /\ caller[c].stage = "holding" /\ entry.no = caller[c].no
    /\ IF reusable THEN MakeReady(entry.no, entry.src, Ends(c, Length(caller[c].src)))
                   ELSE Remove(entry.no, Ends(c, Length(caller[c].src)))
    /\ UNCHANGED <<stored, chain, state, session, spent, slipped>>

\* The holder publishes its Session, with the events it got meanwhile: initFor
\* and attachPrepared.  When the state no longer matches they throw, and the
\* holder is left with its release.
Publish(c, suffix) ==
    LET len == Length(caller[c].src) IN
    /\ caller[c].stage = "holding" /\ entry.no = caller[c].no
    /\ state.owner = None /\ state.cursor = len
    /\ Remove(entry.no, Ends(c, len))
    /\ state' = [state EXCEPT !.owner = caller[c].no]
    /\ session' = [no |-> caller[c].no, phase |-> "live", len |-> len + suffix,
                   open |-> FALSE, written |-> len,
                   init |-> IF suffix > 0 THEN "running" ELSE "ready"]
    /\ IF suffix > 0
         THEN Serialize(Op("suffix", caller[c].no, NoSource,
                           [len |-> len + suffix, open |-> FALSE]))
         ELSE UNCHANGED chain
    /\ UNCHANGED <<stored, spent, slipped>>

(***************************************************************************)
(* Inspection, and the cancellation of a call.                              *)
(***************************************************************************)

\* inspect behind the source: a live session is preferred, else the source's
\* revision is checked on the chain.
Inspect(c) ==
    /\ caller[c].stage = "loaded" /\ caller[c].call = "inspect"
    /\ IF Live
         THEN caller' = Borrows(c, session.len) /\ UNCHANGED chain
         ELSE caller' = Set(c, "checking") /\ Serialize(Op("check", c, caller[c].src, NoPosition))
    /\ UNCHANGED <<stored, entry, state, session, spent, slipped>>

\* isPreparedSourceCurrent on the chain.
Check ==
    /\ Head1("check") /\ OpEnds
    /\ LET c == Head(chain).by IN
       IF Head(chain).step = "dropped" THEN UNCHANGED <<caller, spent>>
       ELSE \/ /\ caller' = Set(c, IF IsCurrent(caller[c].src) THEN "current" ELSE "stale")
               /\ UNCHANGED spent
            \/ /\ Fails
               /\ caller' = IF Live THEN Borrows(c, session.len) ELSE Rejects(c)
    /\ UNCHANGED <<stored, entry, state, session, slipped>>

\* discardReady and what inspect makes of it: a current source is returned, a
\* stale one read again, unless a reservation retains it.
Inspected(c) ==
    /\ caller[c].stage \in {"current", "stale"}
    /\ IF Live THEN caller' = Borrows(c, session.len) /\ UNCHANGED entry
       ELSE IF caller[c].stage = "current"
         THEN caller' = Ends(c, Length(caller[c].src)) /\ UNCHANGED entry
       ELSE IF entry.no = caller[c].no /\ entry.phase # "ready"
         THEN /\ caller' = Borrows(c, Length(caller[c].src))
              /\ UNCHANGED entry
       ELSE Remove(caller[c].no, Retries(c))
    /\ UNCHANGED <<stored, chain, state, session, spent, slipped>>

\* observeQueuedAbort: a caller's signal ends its wait, and takes its queued
\* operation out of effect; a commit that was done meanwhile is kept for the
\* next caller.
Abort(c) ==
    /\ caller[c].call \in {"prepare", "inspect"}
    /\ LET mine == {i \in DOMAIN chain : chain[i].kind \in {"commit", "check"}
                                         /\ chain[i].by = c /\ chain[i].step = "queued"}
           dropped == [i \in DOMAIN chain |->
                IF i \in mine THEN [chain[i] EXCEPT !.step = "dropped"] ELSE chain[i]]
       IN CASE caller[c].stage \in {"again", "waiting", "loading", "parked"} ->
                 caller' = Rejects(c) /\ UNCHANGED <<entry, chain>>
            [] caller[c].stage = "committing" /\ mine # {} ->
                 Remove(caller[c].no, Rejects(c)) /\ chain' = dropped
            [] caller[c].stage = "checking" /\ mine # {} ->
                 caller' = Rejects(c) /\ chain' = dropped /\ UNCHANGED entry
            [] caller[c].stage = "committed" ->
                 caller' = Set(c, "aborted") /\ UNCHANGED <<entry, chain>>
            [] OTHER -> FALSE
    /\ UNCHANGED <<stored, state, session, spent, slipped>>

(***************************************************************************)
(* Appends: appendCore, for a detached caller and for a live session.       *)
(***************************************************************************)

\* append(id, events), of one event, by a caller that knows the log's length
\* and sees no live session.
CallAppend(c) ==
    /\ caller[c].stage = "idle" /\ ~Live
    /\ caller' = [caller EXCEPT ![c] = [Idle EXCEPT !.stage = "appending", !.call = "append",
                                                    !.from = stored.len]]
    /\ Serialize(Op("append", c, NoSource, NoPosition))
    /\ UNCHANGED <<stored, entry, state, session, spent, slipped>>

\* An append goes on after its first checks, or adopts the id: a ready source
\* is taken out of the cache, else the log is read.
Adopt ==
    \/ /\ entry.phase = "ready"
       /\ chain' = [chain EXCEPT ![1].step = "adopted", ![1].src = entry.src]
       /\ Invalidate(caller) /\ UNCHANGED spent
    \/ /\ entry.phase # "ready" /\ ~Live
       /\ chain' = [chain EXCEPT ![1].step = "adopted", ![1].src = Read(None)]
       /\ UNCHANGED <<entry, caller, spent>>
    \/ /\ entry.phase # "ready"
       /\ FailsUnlessLive
       /\ OpEnds /\ caller' = Rejects(Head(chain).by) /\ UNCHANGED entry

\* appendCore up to the backend's write.
AppendStarts ==
    /\ Head1("append") /\ UNCHANGED <<stored, session, slipped>>
    /\ LET c == Head(chain).by
           src == Head(chain).src
       IN CASE Head(chain).step = "queued" ->
                 /\ UNCHANGED state
                 /\ IF ~Writable
                      THEN OpEnds /\ caller' = Rejects(c) /\ UNCHANGED <<entry, spent>>
                      ELSE IF state.known
                        THEN OpGoesTo("writing") /\ UNCHANGED <<entry, caller, spent>>
                        ELSE Adopt
            [] Head(chain).step = "stale" -> Adopt /\ UNCHANGED state
            [] Head(chain).step = "adopted" ->
                 /\ UNCHANGED entry
                 /\ \/ /\ ~IsCurrent(src)
                       /\ OpGoesTo("stale") /\ UNCHANGED <<state, caller, spent>>
                    \/ /\ IsCurrent(src) /\ OwesRepair(src)
                       /\ OpGoesTo("repair") /\ UNCHANGED <<state, caller, spent>>
                    \/ /\ IsCurrent(src) /\ ~OwesRepair(src)
                       /\ OpGoesTo("writing") /\ state' = Committed(src)
                       /\ UNCHANGED <<caller, spent>>
                    \/ OpEnds /\ caller' = Rejects(c) /\ Fails /\ UNCHANGED state
            [] OTHER -> FALSE

\* commitRepair inside an adoption.
AppendRepairs ==
    /\ Head1("append") /\ Head(chain).step = "repair"
    /\ \/ /\ stored' = [len |-> stored.len + 1, open |-> FALSE]
          /\ OpGoesTo("stale") /\ UNCHANGED <<caller, spent>>
       \/ OpEnds /\ caller' = Rejects(Head(chain).by) /\ Fails /\ UNCHANGED stored
    /\ UNCHANGED <<entry, state, session, slipped>>

\* The contiguity check, the backend's write, the cursor and the cache.
AppendWrites(open) ==
    /\ Head1("append") /\ Head(chain).step = "writing" /\ OpEnds
    /\ LET c == Head(chain).by IN
       \/ /\ state.cursor # caller[c].from
          /\ caller' = Rejects(c) /\ UNCHANGED <<stored, entry, state, spent, slipped>>
       \/ /\ state.cursor = caller[c].from
          /\ caller' = Rejects(c) /\ Fails /\ UNCHANGED <<stored, entry, state, slipped>>
       \/ /\ state.cursor = caller[c].from
          /\ stored' = [len |-> stored.len + 1, open |-> open]
          /\ state' = [state EXCEPT !.cursor = @ + 1]
          /\ slipped' = (slipped \/ state.owner # None)
          /\ Invalidate(Ends(c, state.cursor + 1)) /\ UNCHANGED spent
    /\ UNCHANGED session

(***************************************************************************)
(* The live session.  Its write controller is module WriteBehind; here it   *)
(* writes what is pending in any tick, and while it retires, until nothing  *)
(* is pending or its flush gives up.                                        *)
(***************************************************************************)

\* A session appends an event, which its controller buffers.
Event(open) ==
    /\ Live /\ spent.events < MaxEvents /\ Spend("events")
    /\ session' = [session EXCEPT !.len = @ + 1, !.open = open]
    /\ UNCHANGED <<stored, entry, chain, state, caller, slipped>>

\* createWriteBehind's write: it awaits the initialization, then serializes.
Drain ==
    /\ session.phase \in {"live", "retiring"} /\ session.init = "ready"
    /\ session.written < session.len /\ ~Queued("write")
    /\ Serialize(Op("write", session.no, NoSource,
                    [len |-> session.len, open |-> session.open]))
    /\ UNCHANGED <<stored, entry, state, session, caller, spent, slipped>>

\* A write of the session failed: its initialization with it, or it is kept
\* for the next one, and a retirement, or a flush, may be what it fails.
WriteFails ==
    /\ OpEnds /\ UNCHANGED <<stored, entry, state>>
    /\ IF Head(chain).kind = "suffix"
         THEN session' = [session EXCEPT !.init = "failed"] /\ UNCHANGED caller
         ELSE \E failed \in SUBSET {c \in Callers : caller[c].stage = "flushing"} :
              /\ caller' = [c \in Callers |->
                    IF c \in failed THEN [Idle EXCEPT !.stage = "rejected"] ELSE caller[c]]
              /\ session' \in {session, [session EXCEPT
                    !.phase = IF session.phase = "retiring" THEN "stuck" ELSE @]}

\* The first event of the batch that storage does not have: appendLiveBatch
\* filters those below the cursor; the suffix of a publication is not filtered.
Continues ==
    IF Head(chain).kind = "suffix" THEN state.cursor = session.written
                                   ELSE state.cursor >= session.written

\* Mutant: the cursor is advanced before the write and again behind it.
AdvanceTwice(to) == state' = [state EXCEPT !.cursor = 2 * to.len - @]

\* A committed batch advances the cursor behind it.
Advance(to) == state' = [state EXCEPT !.cursor = to.len]

\* appendLiveBatch, or the suffix attachPrepared serialized.
Write ==
    /\ Head1("write") \/ Head1("suffix")
    /\ UNCHANGED slipped
    /\ LET to == Head(chain).to IN
       CASE Head(chain).step = "queued" /\ Head(chain).kind = "write" /\ to.len <= state.cursor ->
              /\ OpEnds /\ session' = [session EXCEPT !.written = to.len]
              /\ UNCHANGED <<stored, entry, state, caller, spent>>
         [] Head(chain).step = "queued" /\ (Head(chain).kind = "suffix" \/ to.len > state.cursor) ->
              IF Writable /\ Continues
                THEN OpGoesTo("writing") /\ UNCHANGED <<stored, entry, state, session, caller, spent>>
                ELSE WriteFails /\ UNCHANGED spent
         [] Head(chain).step = "writing" ->
              \/ WriteFails /\ Fails
              \/ /\ OpEnds /\ UNCHANGED spent
                 /\ stored' = [len |-> stored.len + to.len - state.cursor, open |-> to.open]
                 /\ Advance(to)
                 /\ session' = [session EXCEPT !.written = to.len, !.init = "ready"]
                 /\ Invalidate(caller)

\* session/disposed: the retirement begins.
Dispose ==
    /\ Live /\ session' = [session EXCEPT !.phase = "retiring"]
    /\ UNCHANGED <<stored, entry, chain, state, caller, spent, slipped>>

\* retireCore behind its flush.
Retire ==
    /\ session.phase = "retiring"
    /\ \/ /\ session.init = "failed"
          /\ session' = [session EXCEPT !.phase = "stuck"] /\ UNCHANGED chain
       \/ /\ session.init = "ready" /\ session.written = session.len
          /\ ~Queued("write") /\ ~Queued("forget")
          /\ Serialize(Op("forget", session.no, NoSource, NoPosition)) /\ UNCHANGED session
    /\ UNCHANGED <<stored, entry, state, caller, spent, slipped>>

\* The end of retireCore on the chain: the id has no owner any more.
Forget ==
    /\ Head1("forget") /\ OpEnds
    /\ session' = NoSession
    /\ state' = IF state.owner = session.no THEN NoState ELSE state
    /\ UNCHANGED <<stored, entry, caller, spent, slipped>>

\* loadLiveSnapshot behind its flush: what it saw is stored, and is returned if
\* its turn was closed and the retirement has not forgotten the id meanwhile.
Flushed(c) ==
    /\ caller[c].stage = "flushing"
    /\ LET mine == session.no = caller[c].no IN
       \/ /\ mine => session.init = "ready" /\ session.written = session.len /\ ~Queued("write")
          /\ caller' = IF state.known /\ ~caller[c].src.open
                         THEN Borrows(c, caller[c].src.rev) ELSE Rejects(c)
       \/ /\ mine /\ (session.init = "failed" \/ session.phase = "stuck")
          /\ caller' = Rejects(c)
    /\ UNCHANGED <<stored, entry, chain, state, session, spent, slipped>>

(***************************************************************************)
(* Others.                                                                  *)
(***************************************************************************)

\* Another process writes to the log.
Foreign(open) ==
    /\ Trouble("foreign")
    /\ stored' = [len |-> stored.len + 1, open |-> open]
    /\ UNCHANGED <<entry, chain, state, session, caller, slipped>>

\* touch: the oldest ready source makes room for one of another id.
Evict ==
    /\ Trouble("evictions")
    /\ entry.phase = "ready" /\ entry' = NoEntry
    /\ UNCHANGED <<stored, chain, state, session, caller, slipped>>

Runs == Load \/ Commit \/ Check \/ AppendStarts \/ AppendRepairs
        \/ (\E open \in BOOLEAN : AppendWrites(open)) \/ Write \/ Forget

Proceeds(c) ==
    \/ Retry(c) \/ Waited(c) \/ Reserve(c) \/ Reserved(c) \/ Inspect(c) \/ Inspected(c)
    \/ Flushed(c) \/ Publish(c, 0) \/ Release(c, TRUE)

Next ==
    \/ \E c \in Callers :
         \/ \E call \in Calls : Call(c, call)
         \/ "append" \in Calls /\ CallAppend(c)
         \/ Retry(c) \/ Waited(c) \/ Reserve(c) \/ Reserved(c)
         \/ \E reusable \in BOOLEAN : Release(c, reusable)
         \/ \E suffix \in 0..1 : Publish(c, suffix)
         \/ Inspect(c) \/ Inspected(c) \/ Abort(c) \/ Flushed(c)
    \/ Load \/ Commit \/ Check \/ AppendStarts \/ AppendRepairs
    \/ \E open \in BOOLEAN : AppendWrites(open) \/ Event(open) \/ Foreign(open)
    \/ Drain \/ Write \/ Dispose \/ Retire \/ Forget \/ Evict

Spec == Init /\ [][Next]_vars

(***************************************************************************)
(* Fairness: every operation at the head of the chain and every reaction    *)
(* runs; whoever holds a preparation publishes or releases it; a live       *)
(* session's buffer is written, and a retirement goes on.                   *)
(***************************************************************************)
Fairness ==
    /\ WF_vars(Runs) /\ WF_vars(Drain) /\ WF_vars(Retire)
    /\ \A c \in Callers : WF_vars(Proceeds(c))

FairSpec == Spec /\ Fairness

(***************************************************************************)
(* Properties.                                                              *)
(***************************************************************************)

Phases == {"none", "loading", "ready", "committing", "reserved"}
Stages == {"idle", "again", "waiting", "loading", "loaded", "parked", "committing",
           "refused", "invalid", "committed", "aborted", "holding", "checking",
           "current", "stale", "flushing", "appending", "done", "borrowed", "rejected"}

TypeOK ==
    /\ stored \in [len : Nat, open : BOOLEAN]
    /\ entry.phase \in Phases /\ (entry.phase = "none" <=> entry.no = None)
    /\ state.known \in BOOLEAN /\ (state.owner # None => state.known)
    /\ session.phase \in {"none", "live", "retiring", "stuck"}
    /\ \A c \in Callers : caller[c].stage \in Stages

Holders == {c \in Callers : caller[c].stage = "holding"}

\* The id has one writer: a preparation is held by one caller, its entry is
\* reserved for it, and no live session owns the log meanwhile.
OneWriter ==
    /\ \A c, d \in Holders : c = d
    /\ \A c \in Holders : /\ entry.no = caller[c].no /\ entry.phase = "reserved"
                          /\ state.owner = None

\* What a held Session starts from is what is stored, balanced, and where the
\* next write goes; only another process can change that.
HeldIsCurrent ==
    \A c \in Holders :
        /\ state.cursor = Length(caller[c].src)
        /\ spent.foreign = 0 => stored = [len |-> state.cursor, open |-> FALSE]

\* Whoever holds a preparation is the log's only writer and continues it,
\* whatever other calls, appends and a publication before were under way
\* (reserve, commitPrepared's owner and revision checks, assertWritable).
HoldersOwnTheLog == OneWriter /\ HeldIsCurrent

\* A call sees all that was accepted for the log before it was made: the
\* stored log, and the tail of a session that is live or retires.  Only a view
\* borrowed from a reservation, or from a live session, may miss what another
\* process wrote.
ViewsAreFresh ==
    \A c \in Callers :
        caller[c].missed > 0 => caller[c].stage = "borrowed" /\ spent.foreign > 0

\* What load returned, and what a resumed Session started from, is durable.
LoadsAreDurable == \A c \in Callers : caller[c].ahead = 0

\* No view lags behind what its caller could know of, and no committed view is
\* ahead of storage (waitForRetirement, the revision checks, invalidate, the
\* flush of loadLiveSnapshot, the read again behind a repair).
ViewsMatchTheLog == ViewsAreFresh /\ LoadsAreDurable

\* appendLiveBatch counts as written what its filter drops.
WriteStores ==
    session'.no = session.no =>
        session'.written - session.written = IF session'.written = session.written THEN 0
                                             ELSE stored'.len - stored.len

\* An event of a live session counts as written when storage has it: none is
\* filtered as already stored, stored twice or skipped, unless a detached
\* append slipped into its log (appendLiveBatch, attachPrepared, the cursor).
StoredUnlessSlipped == [][~slipped => WriteStores]_vars

\* What the coordinator says of a log agrees with its storage: the views it
\* gives out, and the writes it counts.
AnswersMatchStorage == []ViewsMatchTheLog /\ StoredUnlessSlipped

\* "Append one controller-owned prefix after filtering events initialization
\* already stored" (coordinator.ts:1353): nothing else is filtered.
FiltersOnlyStored == [][WriteStores]_vars

\* Every call ends, whoever else is cancelled, refused, evicted or invalidated.
CallsEnd ==
    \A c \in Callers :
        caller[c].stage # "idle" ~> caller[c].stage \in {"done", "borrowed", "rejected"}
=============================================================================
