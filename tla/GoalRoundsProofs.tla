-------------------------- MODULE GoalRoundsProofs --------------------------
(***************************************************************************)
(* The goal round driver reserves and enters only rounds somebody wants.    *)
(*                                                                          *)
(* The operators of GoalRounds take a world to a world, and so do the       *)
(* lemmas: what a call does to a world, then which parts of the invariant   *)
(* it keeps.  Only the last ones speak of steps.                            *)
(***************************************************************************)
EXTENDS GoalRounds, SequenceTheorems, TLAPS

-----------------------------------------------------------------------------
(* The kinds of a world and of its parts                                    *)

Messages == [ref : Nat, round : Nat, id : Nat]
Attempts == [ref : Nat, round : Nat, id : Nat, cancelled : BOOLEAN, stale : BOOLEAN,
             phase : {"none", "queued", "claimed", "admitted"}]
Phases == {"none", "active", "paused", "blocked", "complete", "corrupt"}
Goals == [phase : Phases, ref : Nat, armed : BOOLEAN, rounds : 0..MaxRounds,
          max : 1..MaxRounds, durable : BOOLEAN]
Claims == [round : Messages, prompts : Nat, steers : Nat]
Agents == [phase : {"idle", "maintenance", "running"},
           pc : {"assembling", "inner", "outer", "refused", "step", "none"},
           aborted : BOOLEAN, wake : BOOLEAN, nextStep : Nat,
           nextTurn : Seq(Messages), claimed : Claims]
Drivers == [on : {"up", "stopping", "down"}, attempt : Attempts, competing : BOOLEAN,
            needsCheckpoint : BOOLEAN, requested : BOOLEAN, run : BOOLEAN,
            flushing : Nat, outdated : Nat, settling : Nat, nested : BOOLEAN,
            awaitsIdle : BOOLEAN, reserved : Nat]
Worlds == [goal : Goals, agent : Agents, driver : Drivers]

\* No attempt is without a phase, and every message belongs to a change and a
\* reservation there was, its own one.
Known(w, m) ==
    m.ref <= w.goal.ref /\ m.id <= w.driver.reserved /\ (m # Human => m.id > 0)
Shape(w) ==
    /\ w.driver.attempt.phase = "none" <=> w.driver.attempt = NoAttempt
    /\ Known(w, w.agent.claimed.round)
    /\ \A i \in DOMAIN w.agent.nextTurn : Known(w, w.agent.nextTurn[i])
    /\ \A i, j \in DOMAIN w.agent.nextTurn :
          i # j /\ w.agent.nextTurn[i] # Human => w.agent.nextTurn[i].id # w.agent.nextTurn[j].id

-----------------------------------------------------------------------------
(* What calls do to a world                                                 *)

\* The passes that are live, in every loop.
Live(w) == w.driver.flushing + w.driver.outdated + w.driver.settling

\* Of the driver, what only reservations, listeners and the teardown touch.
SameDriver(w, v) ==
    /\ v.driver.on = w.driver.on /\ v.driver.attempt = w.driver.attempt
    /\ v.driver.reserved = w.driver.reserved /\ v.driver.nested = w.driver.nested

\* A loop is started, or none is.
Starts(w, v) ==
    \/ v.driver.run = w.driver.run /\ Live(v) = Live(w)
    \/ ~w.driver.run /\ v.driver.run /\ Live(v) = Live(w) + 1

\* The goal is changed and announced.
ChangesTo(w, v) ==
    /\ v \in Worlds /\ v.agent = w.agent /\ SameDriver(w, v) /\ Starts(w, v)
    /\ v.goal.ref = w.goal.ref + 1
    /\ w.driver.on # "down" => v.driver.needsCheckpoint \/ v.driver.flushing > 0

\* A commit changes the goal, and starts a loop unless one is there.
LEMMA ChangedIs ==
    ASSUME NEW w \in Worlds, NEW p \in Phases, NEW a \in BOOLEAN
    PROVE  ChangesTo(w, Changed(w, p, a)) /\ Changed(w, p, a).goal.armed = a
<1> DEFINE c == [w EXCEPT !.goal.phase = p, !.goal.ref = @ + 1, !.goal.armed = a,
                       !.goal.durable = FALSE,
                       !.driver.outdated = @ + w.driver.flushing, !.driver.flushing = 0]
           d == [c EXCEPT !.driver.needsCheckpoint = TRUE]
<1>1. /\ w.goal.ref + 1 \in Nat /\ w.driver.outdated + w.driver.flushing \in Nat /\ 0 \in Nat
      /\ w.goal \in Goals /\ w.driver \in Drivers
  BY DEF Worlds, Goals, Drivers
<1>2. c \in Worlds
  <2> DEFINE g == [w.goal EXCEPT !.phase = p, !.ref = @ + 1, !.armed = a, !.durable = FALSE]
             e == [w.driver EXCEPT !.outdated = @ + w.driver.flushing, !.flushing = 0]
  <2>1. c = [w EXCEPT !.goal = g, !.driver = e]
    BY DEF Worlds
  <2>2. g \in Goals
    BY <1>1, Zenon DEF Goals
  <2>3. e \in Drivers
    BY <1>1, Zenon DEF Drivers
  <2> QED
    BY <2>1, <2>2, <2>3, Zenon DEF Worlds
<1>3. /\ c.agent = w.agent /\ c.goal.ref = w.goal.ref + 1 /\ c.goal.armed = a
      /\ c.driver = [w.driver EXCEPT !.outdated = @ + w.driver.flushing, !.flushing = 0]
  BY <1>1 DEF Worlds, Goals
<1>5. Changed(w, p, a) = IF w.driver.on = "down" THEN c ELSE Requested(d)
  BY DEF Changed
<1> HIDE DEF c
<1>4. SameDriver(w, c) /\ Live(c) = Live(w) /\ c.driver.run = w.driver.run
  <2>1. /\ c.driver.outdated = w.driver.outdated + w.driver.flushing /\ c.driver.flushing = 0
        /\ c.driver.settling = w.driver.settling /\ c.driver.run = w.driver.run
        /\ SameDriver(w, c)
    BY <1>1, <1>3 DEF Drivers, SameDriver
  <2> QED
    BY <2>1, <1>1 DEF Live, Drivers
<1>6. d \in Worlds
  BY <1>2, Zenon DEF Worlds, Drivers
<1>7. /\ d.agent = c.agent /\ d.goal = c.goal
      /\ d.driver = [c.driver EXCEPT !.needsCheckpoint = TRUE] /\ c.driver \in Drivers
  BY <1>2 DEF Worlds
<1>8. /\ SameDriver(w, d) /\ Live(d) = Live(w) /\ d.driver.run = w.driver.run
      /\ d.driver.needsCheckpoint
  BY <1>4, <1>7 DEF Drivers, Live, SameDriver
<1> HIDE DEF d
<1>9. ChangesTo(w, c) \/ w.driver.on # "down"
  BY <1>2, <1>3, <1>4 DEF ChangesTo, Starts
<1>10. ASSUME w.driver.on # "down" PROVE ChangesTo(w, Requested(d))
  <2>1. d.driver \in Drivers /\ d.driver.on # "down"
    BY <1>6, <1>8, <1>10 DEF Worlds, SameDriver
  <2>2. CASE d.driver.on # "up"
    BY <2>2, <1>3, <1>6, <1>7, <1>8 DEF Requested, ChangesTo, Starts
  <2>3. CASE d.driver.on = "up" /\ d.driver.run
    <3> DEFINE v == [d EXCEPT !.driver.requested = TRUE]
    <3>1. v \in Worlds
      BY <1>6, Zenon DEF Worlds, Drivers
    <3>2. /\ v.agent = d.agent /\ v.goal = d.goal
          /\ v.driver = [d.driver EXCEPT !.requested = TRUE]
      BY <1>6 DEF Worlds
    <3>3. /\ SameDriver(d, v) /\ Live(d) = Live(v) /\ d.driver.run = v.driver.run
          /\ v.driver.needsCheckpoint
      BY <3>2, <2>1, <1>8 DEF Drivers, Live, SameDriver
    <3>4. Requested(d) = v
      BY <2>3 DEF Requested
    <3> HIDE DEF v
    <3> QED
      BY <3>1, <3>2, <3>3, <3>4, <1>3, <1>7, <1>8 DEF ChangesTo, Starts, SameDriver
  <2>4. CASE d.driver.on = "up" /\ ~d.driver.run
    <3> DEFINE s == Settling(d)
               k == Checkpointing(d)
    <3>1. d.driver.settling + 1 \in Nat /\ d.driver.flushing + 1 \in Nat
      BY <2>1 DEF Drivers
    <3>2. s \in Worlds /\ k \in Worlds
      BY <3>1, <1>6, Zenon DEF Worlds, Drivers, Settling, Checkpointing
    <3>3. /\ s.agent = d.agent /\ s.goal = d.goal
          /\ s.driver = [d.driver EXCEPT !.settling = @ + 1]
      BY <1>6 DEF Worlds, Settling
    <3>4. /\ k.agent = d.agent /\ k.goal = d.goal
          /\ k.driver = [d.driver EXCEPT !.needsCheckpoint = FALSE, !.flushing = @ + 1]
      BY <1>6 DEF Worlds, Checkpointing
    <3>5. SameDriver(d, s) /\ Live(s) = Live(d) + 1 /\ s.driver.needsCheckpoint
      BY <3>3, <2>1, <1>8 DEF Drivers, Live, SameDriver
    <3>6. SameDriver(d, k) /\ Live(k) = Live(d) + 1 /\ k.driver.flushing > 0
      <4>1. /\ k.driver.flushing = d.driver.flushing + 1 /\ k.driver.outdated = d.driver.outdated
            /\ k.driver.settling = d.driver.settling /\ SameDriver(d, k)
        BY <3>4, <2>1 DEF Drivers, SameDriver
      <4> QED
        BY <4>1, <2>1 DEF Live, Drivers
    <3> HIDE DEF s, k
    <3>7. PICK q \in {s, k} :
              Requested(d) = [q EXCEPT !.driver.requested = FALSE, !.driver.run = TRUE]
      BY <2>4 DEF Requested, s, k
    <3> DEFINE v == [q EXCEPT !.driver.requested = FALSE, !.driver.run = TRUE]
    <3>8. v \in Worlds
      BY <3>2, Zenon DEF Worlds, Drivers
    <3>9. /\ v.agent = q.agent /\ v.goal = q.goal /\ q.driver \in Drivers
          /\ v.driver = [q.driver EXCEPT !.requested = FALSE, !.run = TRUE]
      BY <3>2 DEF Worlds
    <3> HIDE DEF v
    <3>10. SameDriver(q, v) /\ Live(v) = Live(q) /\ v.driver.run
           /\ (q.driver.needsCheckpoint => v.driver.needsCheckpoint)
           /\ v.driver.flushing = q.driver.flushing
      BY <3>9 DEF Drivers, Live, SameDriver
    <3>11. SameDriver(d, q) /\ Live(q) = Live(d) + 1 /\ q.agent = d.agent /\ q.goal = d.goal
           /\ (q.driver.needsCheckpoint \/ q.driver.flushing > 0)
      BY <3>3, <3>4, <3>5, <3>6
    <3>12. Requested(d) = v
      BY <3>7 DEF v
    <3> QED
      <4>1. SameDriver(w, v)
        BY <3>10, <3>11, <1>8 DEF SameDriver
      <4>2. v.agent = w.agent /\ v.goal.ref = w.goal.ref + 1
        BY <3>9, <3>11, <1>3, <1>7
      <4>3. ~w.driver.run /\ Live(v) = Live(w) + 1
        BY <3>10, <3>11, <1>8, <2>4
      <4> QED
        BY <4>1, <4>2, <4>3, <3>8, <3>10, <3>11, <3>12 DEF ChangesTo, Starts
  <2> QED
    BY <2>2, <2>3, <2>4
<1>11. Changed(w, p, a).goal.armed = a
  <2>1. Requested(d).goal = d.goal
    BY <1>6 DEF Worlds, Requested, Settling, Checkpointing
  <2> QED
    BY <2>1, <1>3, <1>5, <1>7
<1> QED
  BY <1>5, <1>9, <1>10, <1>11

-----------------------------------------------------------------------------
(* The invariant, and what calls keep of it                                 *)

\* An attempt is of a change there was; one of the present change fits the goal, asks
\* for no checkpoint, and has none beside it unless a loop started another. A driver
\* that is down has none.
Attempt(w) ==
    LET a == w.driver.attempt
    IN  /\ a.ref <= w.goal.ref
        /\ Attempting(w) /\ a.ref = w.goal.ref =>
              /\ a.round <= w.goal.max /\ ~w.driver.needsCheckpoint
              /\ ~w.driver.nested => w.driver.flushing + w.driver.outdated = 0
        /\ w.driver.on = "down" => ~Attempting(w)

\* A loaded driver may continue the goal by itself.
Wanted(w) == w.driver.on # "down" /\ Armed(w)
Taken(w) == w.agent.claimed.round

\* A cancel stopped the present change: its turn is still going, and aborted, or the
\* goal is not wanted any more.
Stops(w, st) ==
    /\ st \in Nat /\ st <= w.goal.ref
    /\ Wanted(w) /\ st = w.goal.ref => w.agent.phase = "running" /\ w.agent.aborted

\* A round behind the driver's check is its own attempt, claimed.
Entering(w) ==
    w.agent.pc \in {"inner", "outer"} /\ Taken(w) # Human /\ w.driver.on # "down" =>
        Own(w, Taken(w)) /\ w.driver.attempt.phase = "claimed"

\* A round in front of its step is the next one, which no cancel has caught.
Gap(w, st) ==
    /\ w.agent.pc = "outer" /\ Taken(w) # Human /\ w.driver.on # "down"
    /\ ~w.agent.aborted /\ ~UpstreamHooks
    => /\ w.driver.on = "up" /\ w.goal.phase = "active" /\ st # w.goal.ref
       /\ Taken(w).ref = w.goal.ref /\ Taken(w).round = w.goal.rounds + 1
       /\ w.goal.armed \/ w.driver.nested

\* A queued or claimed round of a wanted change is the attempt.
Queued(w) ==
    Wanted(w) => \A i \in DOMAIN w.agent.nextTurn :
        LET m == w.agent.nextTurn[i]
        IN  m # Human /\ m.ref = w.goal.ref =>
                /\ w.driver.attempt.phase = "queued" /\ SameRound(m, w.driver.attempt)
                /\ m.id = w.driver.attempt.id
InHand(w) ==
    /\ Wanted(w) /\ w.agent.pc \in {"assembling", "inner", "outer"}
    /\ Taken(w) # Human /\ Taken(w).ref = w.goal.ref
    => w.driver.attempt.phase = "claimed" /\ Taken(w).id = w.driver.attempt.id

\* Behind an idle agent the attempt of a wanted change has entered.
Rested(w) ==
    /\ Wanted(w) /\ w.agent.phase = "idle" /\ Attempting(w)
    /\ w.driver.attempt.ref = w.goal.ref
    => w.driver.attempt.phase = "admitted"

\* What is not durable of a wanted goal will be, before the next round.
Owed(w) ==
    Wanted(w) /\ ~w.goal.durable /\ ~UpstreamHooks =>
        \/ w.driver.needsCheckpoint \/ w.driver.flushing > 0
        \/ w.driver.attempt.phase = "admitted" /\ w.driver.attempt.ref = w.goal.ref

\* The agent is in its loop exactly while its phase is running.
Looping(w) == (w.agent.phase = "running") = (w.agent.pc # "none")

\* What holds in front of a claim, and what holds between two calls.
Base(w, st) == w \in Worlds /\ Shape(w) /\ Attempt(w) /\ Stops(w, st)
Mid(w, st, mt) == Base(w, st) /\ (~mt => Queued(w) /\ Owed(w))
Core(w, st, mt) ==
    /\ Mid(w, st, mt) /\ Looping(w) /\ Entering(w) /\ Gap(w, st)
    /\ ~mt => InHand(w) /\ Rested(w) /\ w.agent.phase # "maintenance"

\* One loop is live, or a loop has started another.
Loops(w) ==
    /\ w.driver.run => Live(w) > 0
    /\ ~w.driver.nested => Live(w) <= 1 /\ (Live(w) = 1 => w.driver.run)

\* v differs from w in what the invariant does not speak of, in flags of the attempt, in
\* an abort, in human messages that were queued or in a queue that was cleared, or in
\* that a loop started another.
SameAttempt(w, v) ==
    LET a == w.driver.attempt
        b == v.driver.attempt
    IN  /\ b.ref = a.ref /\ b.round = a.round /\ b.id = a.id /\ b.phase = a.phase
        /\ b = NoAttempt <=> a = NoAttempt
Resembles(w, v) ==
    /\ v \in Worlds /\ SameAttempt(w, v) /\ v.driver.reserved = w.driver.reserved
    /\ (w.driver.nested => v.driver.nested) /\ v.driver.needsCheckpoint = w.driver.needsCheckpoint
    /\ v.driver.flushing = w.driver.flushing /\ v.driver.outdated = w.driver.outdated
    /\ v.agent.phase = w.agent.phase /\ v.agent.pc = w.agent.pc
    /\ (w.agent.aborted => v.agent.aborted) /\ Taken(v) = Taken(w)
    /\ \A i \in DOMAIN v.agent.nextTurn :
          \/ v.agent.nextTurn[i] = Human
          \/ i \in DOMAIN w.agent.nextTurn /\ v.agent.nextTurn[i] = w.agent.nextTurn[i]
Alike(w, v) == Resembles(w, v) /\ v.goal = w.goal /\ v.driver.on = w.driver.on

\* Worlds that resemble each other are of the same shape.
LEMMA ResemblesShape ==
    ASSUME NEW w \in Worlds, NEW v, Shape(w), Resembles(w, v), v.goal.ref = w.goal.ref
    PROVE  Shape(v)
<1> DEFINE s == w.agent.nextTurn
           t == v.agent.nextTurn
<1>1. w.goal.ref \in Nat /\ w.driver.reserved \in Nat
  BY DEF Worlds, Goals, Drivers
<1>2. \A x : Known(w, x) <=> Known(v, x)
  BY DEF Known, Resembles
<1>3. Known(v, Human) /\ Human.id = 0
  <2>1. Known(w, Human) /\ Human.id = 0
    BY <1>1 DEF Known, Human
  <2> QED
    BY <2>1, <1>2
<1>4. v.driver.attempt.phase = "none" <=> v.driver.attempt = NoAttempt
  BY DEF Shape, Resembles, SameAttempt
<1>5. Known(v, v.agent.claimed.round)
  BY <1>2 DEF Shape, Resembles, Taken
<1>6. \A i \in DOMAIN t : t[i] = Human \/ (i \in DOMAIN s /\ t[i] = s[i])
  BY DEF Resembles
<1>7. \A i \in DOMAIN t : Known(v, t[i])
  BY <1>2, <1>3, <1>6 DEF Shape
<1>8. ASSUME NEW i \in DOMAIN t, NEW j \in DOMAIN t, i # j, t[i] # Human PROVE t[i].id # t[j].id
  <2>1. t[i] = s[i] /\ i \in DOMAIN s
    BY <1>6, <1>8
  <2>2. CASE t[j] = Human
    BY <2>2, <1>3, <1>7, <1>8 DEF Known
  <2>3. CASE t[j] # Human
    BY <2>1, <2>3, <1>6, <1>8 DEF Shape
  <2> QED
    BY <2>2, <2>3
<1> QED
  BY <1>4, <1>5, <1>7, <1>8 DEF Shape

\* The invariant does not tell such worlds apart, neither in front of a claim nor
\* between two calls.
LEMMA AlikeMid ==
    ASSUME NEW w, NEW v, NEW st, NEW mt, Mid(w, st, mt), Alike(w, v)
    PROVE  Mid(v, st, mt) /\ Wanted(v) = Wanted(w) /\ Attempting(v) = Attempting(w)
<1>1. /\ Wanted(v) = Wanted(w) /\ Attempting(v) = Attempting(w) /\ Resembles(w, v)
      /\ w \in Worlds /\ v \in Worlds /\ v.goal = w.goal /\ v.driver.on = w.driver.on
      /\ SameAttempt(w, v)
  BY DEF Alike, Resembles, SameAttempt, Wanted, Armed, Attempting, Mid, Base
<1>2. Base(v, st)
  <2>1. Shape(v)
    BY <1>1, ResemblesShape DEF Mid, Base
  <2>2. Attempt(v)
    BY <1>1 DEF Mid, Base, Resembles, SameAttempt, Attempt
  <2>3. Stops(v, st)
    BY <1>1 DEF Mid, Base, Resembles, Stops
  <2> QED
    BY <1>1, <2>1, <2>2, <2>3 DEF Base
<1>3. ASSUME ~mt PROVE Queued(v) /\ Owed(v)
  <2>1. Queued(v)
    BY <1>1, <1>3 DEF Mid, Queued, Resembles, SameAttempt, SameRound
  <2>2. Owed(v)
    BY <1>1, <1>3 DEF Mid, Owed, Resembles, SameAttempt
  <2> QED
    BY <2>1, <2>2
<1> QED
  BY <1>1, <1>2, <1>3 DEF Mid

\* Nor does the whole invariant between two calls.
LEMMA AlikeKeeps ==
    ASSUME NEW w, NEW v, NEW st, NEW mt, Core(w, st, mt), Alike(w, v)
    PROVE  Core(v, st, mt)
<1>1. /\ Mid(v, st, mt) /\ Wanted(v) = Wanted(w) /\ Attempting(v) = Attempting(w)
      /\ Resembles(w, v) /\ v.goal = w.goal /\ v.driver.on = w.driver.on /\ SameAttempt(w, v)
  BY AlikeMid DEF Core, Alike, Resembles
<1>2. Looping(v) /\ Entering(v) /\ Gap(v, st)
  BY <1>1 DEF Core, Resembles, Looping, Entering, Gap, Own, SameAttempt, SameRound
<1>3. ~mt => InHand(v) /\ Rested(v)
  BY <1>1 DEF Core, Resembles, InHand, Rested, SameAttempt
<1>4. ~mt => v.agent.phase # "maintenance"
  BY <1>1 DEF Core, Resembles
<1> QED
  BY <1>1, <1>2, <1>3, <1>4 DEF Core

\* What a change of the goal builds on.
Past(w, st) ==
    /\ w \in Worlds /\ Shape(w) /\ w.driver.attempt.ref <= w.goal.ref
    /\ w.driver.on = "down" => ~Attempting(w)
    /\ st \in Nat /\ st <= w.goal.ref

\* A change leaves all that was reserved behind.
LEMMA ChangeKeeps ==
    ASSUME NEW w, NEW v, NEW st, NEW mt, Past(w, st), Entering(w), Looping(w),
           w.agent.phase = "maintenance" => mt,
           w.agent.pc # "outer" \/ UpstreamHooks, ChangesTo(w, v)
    PROVE  Core(v, st, mt)
<1>1. /\ w \in Worlds /\ v \in Worlds /\ w.goal.ref \in Nat /\ v.goal.ref = w.goal.ref + 1
      /\ v.agent = w.agent /\ SameDriver(w, v) /\ Attempting(v) = Attempting(w)
      /\ w.driver.attempt.ref \in Nat /\ w.agent.nextTurn \in Seq(Messages)
      /\ w.agent.claimed.round \in Messages /\ st \in Nat
  BY DEF ChangesTo, Past, Worlds, Goals, Agents, Drivers, Attempts, Claims, SameDriver, Attempting
<1>2. /\ v.driver.attempt.ref < v.goal.ref /\ st < v.goal.ref /\ Taken(v).ref < v.goal.ref
      /\ Known(v, v.agent.claimed.round)
  <2>1. w.driver.attempt.ref <= w.goal.ref /\ st <= w.goal.ref
    BY DEF Past
  <2>2. PICK r \in Messages : r = w.agent.claimed.round
    BY <1>1
  <2>3. Known(w, r) /\ r.ref \in Nat /\ v.driver.reserved = w.driver.reserved
    BY <1>1, <2>2 DEF Past, Shape, Messages, SameDriver
  <2>4. Known(v, r) /\ r.ref < v.goal.ref
    BY <1>1, <2>3 DEF Known
  <2>5. v.driver.attempt.ref < v.goal.ref /\ st < v.goal.ref
    BY <1>1, <2>1 DEF SameDriver
  <2> QED
    BY <1>1, <2>2, <2>4, <2>5 DEF Taken
<1>3. \A i \in DOMAIN v.agent.nextTurn : Known(v, v.agent.nextTurn[i])
                                         /\ v.agent.nextTurn[i].ref < v.goal.ref
  <2> SUFFICES ASSUME NEW i \in DOMAIN v.agent.nextTurn
               PROVE  Known(v, v.agent.nextTurn[i]) /\ v.agent.nextTurn[i].ref < v.goal.ref
    OBVIOUS
  <2> DEFINE m == w.agent.nextTurn[i]
  <2>1. Known(w, m) /\ m \in Messages /\ v.agent.nextTurn[i] = m
    BY <1>1 DEF Past, Shape
  <2> HIDE DEF m
  <2>2. m.ref \in Nat /\ v.driver.reserved = w.driver.reserved
    BY <1>1, <2>1 DEF SameDriver, Messages
  <2>3. Known(v, m) /\ m.ref < v.goal.ref
    BY <1>1, <2>1, <2>2 DEF Known
  <2> QED
    BY <2>1, <2>3
<1>4. Base(v, st)
  <2>1. Shape(v)
    BY <1>1, <1>2, <1>3 DEF Past, Shape, SameDriver
  <2>2. Attempt(v)
    BY <1>1, <1>2 DEF Past, Attempt, SameDriver
  <2>3. Stops(v, st)
    BY <1>1, <1>2 DEF Stops
  <2> QED
    BY <1>1, <2>1, <2>2, <2>3 DEF Base
<1>5. Queued(v) /\ InHand(v) /\ Rested(v)
  BY <1>2, <1>3, <1>1 DEF Queued, InHand, Rested
<1>6. Owed(v)
  BY <1>1 DEF ChangesTo, Owed, Wanted, SameDriver
<1>7. Looping(v) /\ Entering(v) /\ Gap(v, st)
  BY <1>1 DEF Looping, Entering, Gap, Taken, Own, SameDriver
<1> QED
  BY <1>1, <1>4, <1>5, <1>6, <1>7 DEF Core, Mid

-----------------------------------------------------------------------------
(* Claims and wakes                                                         *)

\* What concerns the driver's loops.
SameLoops(w, v) ==
    /\ v.driver.run = w.driver.run /\ Live(v) = Live(w)
    /\ v.driver.nested = w.driver.nested

\* Only the attempt's phase differs in the driver.
Marked(w, v) ==
    /\ v.driver.on = w.driver.on /\ v.driver.reserved = w.driver.reserved
    /\ v.driver.nested = w.driver.nested /\ v.driver.run = w.driver.run
    /\ v.driver.needsCheckpoint = w.driver.needsCheckpoint
    /\ v.driver.flushing = w.driver.flushing /\ v.driver.outdated = w.driver.outdated
    /\ v.driver.settling = w.driver.settling /\ v.driver.competing = w.driver.competing

\* The agent claims m, and the first n messages are gone.
Takes(w, v, m, n) ==
    /\ v \in Worlds /\ v.goal = w.goal /\ Marked(w, v)
    /\ v.agent.phase = w.agent.phase /\ v.agent.pc = "assembling"
    /\ v.agent.aborted = w.agent.aborted /\ Taken(v) = m
    /\ \A i \in DOMAIN v.agent.nextTurn :
          i + n \in DOMAIN w.agent.nextTurn /\ v.agent.nextTurn[i] = w.agent.nextTurn[i + n]
    /\ IF Own(w, m) /\ w.driver.on # "down"
       THEN v.driver.attempt = [w.driver.attempt EXCEPT !.phase = "claimed"]
       ELSE v.driver.attempt = w.driver.attempt

\* A queue without its first message, or the queue itself, keeps the order of the rest.
LEMMA SkipIs ==
    ASSUME NEW s \in Seq(Messages), NEW n \in {0, 1}, n = 1 => s # <<>>
    PROVE  /\ SubSeq(s, n + 1, Len(s)) \in Seq(Messages)
           /\ \A i \in DOMAIN SubSeq(s, n + 1, Len(s)) :
                 i + n \in DOMAIN s /\ SubSeq(s, n + 1, Len(s))[i] = s[i + n]
<1>1. PICK l \in Nat : Len(s) = l /\ DOMAIN s = 1..l
  BY LenProperties
<1>2. PICK k \in Nat : k = n + 1
  OBVIOUS
<1>3. k - 1 <= l
  <2>1. s # <<>> => l # 0
    BY <1>1, EmptySeq
  <2> QED
    BY <1>2, <2>1
<1>4. \A i \in k..l : s[i] \in Messages
  BY <1>1, <1>2
<1>5. PICK q : q = SubSeq(s, k, l)
  OBVIOUS
<1>6. /\ q \in Seq(Messages) /\ Len(q) = IF k <= l THEN l - k + 1 ELSE 0
      /\ \A i \in 1..l - k + 1 : q[i] = s[k + i - 1]
  BY <1>4, <1>5, SubSeqProperties
<1>7. Len(q) = l - k + 1 /\ DOMAIN q = 1..Len(q)
  BY <1>3, <1>6, LenProperties
<1>8. ASSUME NEW i \in DOMAIN q PROVE i + n \in DOMAIN s /\ q[i] = s[i + n]
  <2>1. i \in 1..l - k + 1
    BY <1>7
  <2>2. k + i - 1 = i + n /\ i + n \in 1..l
    BY <2>1, <1>2
  <2> QED
    BY <2>1, <2>2, <1>1, <1>6
<1> QED
  BY <1>1, <1>2, <1>5, <1>6, <1>8

\* A claim takes at most one message, the first, and a round only for a new turn.
LEMMA ClaimedIs ==
    ASSUME NEW w \in Worlds, NEW target \in {"nextTurn", "nextStep"}
    PROVE  \E m \in Messages, n \in {0, 1} :
              /\ Takes(w, Claimed(w, target), m, n)
              /\ m # Human => n = 1
              /\ n = 1 => w.agent.nextTurn # <<>> /\ m = w.agent.nextTurn[1]
<1> DEFINE m == IF target = "nextTurn" /\ w.agent.nextTurn # <<>>
                THEN Head(w.agent.nextTurn) ELSE Human
           n == IF target = "nextTurn" /\ w.agent.nextTurn # <<>> THEN 1 ELSE 0
           k == [round |-> m, steers |-> w.agent.nextStep, prompts |-> IF m = Human THEN n ELSE 0]
           q == SubSeq(w.agent.nextTurn, n + 1, Len(w.agent.nextTurn))
           c == [w EXCEPT !.agent.pc = "assembling", !.agent.nextStep = 0,
                          !.agent.nextTurn = SubSeq(@, n + 1, Len(@)),
                          !.agent.claimed = k]
           v == [c EXCEPT !.driver.attempt.phase = "claimed"]
<1>1. /\ w.agent \in Agents /\ w.driver \in Drivers /\ w.goal \in Goals
      /\ w.agent.nextTurn \in Seq(Messages) /\ w.agent.nextStep \in Nat
      /\ w.driver.attempt \in Attempts
  BY DEF Worlds, Agents, Drivers
<1>2. /\ n \in {0, 1} /\ m \in Messages /\ (m # Human => n = 1)
      /\ (n = 1 => w.agent.nextTurn # <<>> /\ m = w.agent.nextTurn[1])
  <2>1. Human \in Messages
    BY DEF Human, Messages
  <2>2. w.agent.nextTurn # <<>> => Head(w.agent.nextTurn) = w.agent.nextTurn[1]
                                   /\ Head(w.agent.nextTurn) \in Messages
    BY <1>1, HeadTailProperties
  <2> QED
    BY <2>1, <2>2
<1>3. Claimed(w, target) = IF Own(w, m) /\ w.driver.on # "down" THEN v ELSE c
  BY DEF Claimed
<1> HIDE DEF m, n
<1>4. k \in Claims /\ k.round = m
  BY <1>1, <1>2 DEF Claims
<1> HIDE DEF k
<1>5. /\ q \in Seq(Messages)
      /\ \A i \in DOMAIN q : i + n \in DOMAIN w.agent.nextTurn /\ q[i] = w.agent.nextTurn[i + n]
  BY <1>1, <1>2, SkipIs
<1> DEFINE a == [w.agent EXCEPT !.pc = "assembling", !.nextStep = 0, !.nextTurn = q, !.claimed = k]
<1>6. c = [w EXCEPT !.agent = a]
  BY DEF Worlds
<1> HIDE DEF q
<1>7. a \in Agents
  BY <1>1, <1>4, <1>5, Zenon DEF Agents
<1>8. /\ a.phase = w.agent.phase /\ a.pc = "assembling" /\ a.aborted = w.agent.aborted
      /\ a.claimed = k /\ a.nextTurn = q
  BY <1>1 DEF Agents
<1> HIDE DEF a, c
<1>9. c \in Worlds
  BY <1>6, <1>7, Zenon DEF Worlds
<1>10. c.agent = a /\ c.goal = w.goal /\ c.driver = w.driver
  BY <1>6 DEF Worlds
<1> DEFINE b == [w.driver.attempt EXCEPT !.phase = "claimed"]
           d == [w.driver EXCEPT !.attempt = b]
<1>11. v = [c EXCEPT !.driver = d]
  BY <1>9, <1>10 DEF Worlds, Drivers
<1>12. b \in Attempts
  BY <1>1, Zenon DEF Attempts
<1> HIDE DEF b
<1>13. d \in Drivers
  BY <1>1, <1>12, Zenon DEF Drivers
<1>14. /\ d.attempt = b /\ d.on = w.driver.on /\ d.reserved = w.driver.reserved
       /\ d.nested = w.driver.nested /\ d.run = w.driver.run /\ d.flushing = w.driver.flushing
       /\ d.needsCheckpoint = w.driver.needsCheckpoint /\ d.outdated = w.driver.outdated
       /\ d.settling = w.driver.settling /\ d.competing = w.driver.competing
  BY <1>1 DEF Drivers
<1> HIDE DEF d, v
<1>15. v \in Worlds
  BY <1>9, <1>11, <1>13, Zenon DEF Worlds
<1>16. v.agent = a /\ v.goal = w.goal /\ v.driver = d
  BY <1>9, <1>10, <1>11 DEF Worlds
<1>17. CASE Own(w, m) /\ w.driver.on # "down"
  <2>1. Takes(w, v, m, n)
    BY <1>17, <1>4, <1>5, <1>8, <1>14, <1>15, <1>16 DEF Takes, Marked, Taken, b
  <2> QED
    BY <1>2, <1>3, <1>17, <2>1
<1>18. CASE ~(Own(w, m) /\ w.driver.on # "down")
  <2>1. Takes(w, c, m, n)
    BY <1>18, <1>4, <1>5, <1>8, <1>9, <1>10 DEF Takes, Marked, Taken
  <2> QED
    BY <1>2, <1>3, <1>18, <2>1
<1> QED
  BY <1>17, <1>18

\* A claim keeps the invariant, and puts the agent in front of the driver's check.
LEMMA ClaimKeeps ==
    ASSUME NEW w, NEW st, NEW mt, Mid(w, st, mt), w.agent.phase = "running",
           NEW v, NEW m, NEW n \in {0, 1}, Takes(w, v, m, n), m \in Messages,
           m # Human => n = 1, n = 1 => w.agent.nextTurn # <<>> /\ m = w.agent.nextTurn[1]
    PROVE  Core(v, st, mt) /\ SameLoops(w, v)
<1> DEFINE o == w.driver.attempt
           a == v.driver.attempt
           s == w.agent.nextTurn
           t == v.agent.nextTurn
<1>1. /\ w \in Worlds /\ v \in Worlds /\ o \in Attempts /\ s \in Seq(Messages)
      /\ w.driver.reserved \in Nat /\ w.goal.ref \in Nat /\ t \in Seq(Messages)
  BY DEF Mid, Base, Takes, Worlds, Drivers, Agents, Goals
<1>2. DOMAIN s = 1..Len(s) /\ DOMAIN t = 1..Len(t) /\ Len(s) \in Nat /\ Len(t) \in Nat
  BY <1>1, LenProperties
<1>3. m # Human => 1 \in DOMAIN s /\ m = s[1] /\ n = 1
  BY <1>1, <1>2, EmptySeq
<1>4. \A i \in DOMAIN t : i + n \in DOMAIN s /\ t[i] = s[i + n] /\ i \in Nat
  BY <1>2 DEF Takes
<1>5. /\ a.ref = o.ref /\ a.round = o.round /\ a.id = o.id
      /\ IF Own(w, m) /\ w.driver.on # "down" THEN a.phase = "claimed" ELSE a = o
  BY <1>1 DEF Takes, Attempts
<1>6. Own(w, m) => Attempting(w) /\ m # Human /\ SameRound(m, o)
  BY DEF Own
<1>7. Attempting(w) <=> o.phase # "none"
  BY <1>1 DEF Mid, Base, Shape, Attempting
<1>8. a.phase = "none" <=> a = NoAttempt
  BY <1>5, <1>6, <1>7 DEF Attempting, NoAttempt
<1>9. Attempting(v) = Attempting(w)
  BY <1>5, <1>6, <1>7, <1>8 DEF Attempting
<1>10. \A i \in DOMAIN s : Known(w, s[i])
  BY DEF Mid, Base, Shape
<1>11. Human \in Messages /\ Known(w, Human)
  BY <1>1 DEF Human, Messages, Known
<1>12. Known(w, m)
  BY <1>3, <1>10, <1>11
<1> HIDE DEF o, a, s, t
<1>13. \A x : Known(w, x) <=> Known(v, x)
  BY DEF Known, Takes, Marked
<1>14. Shape(v)
  <2>1. Known(v, v.agent.claimed.round)
    BY <1>12, <1>13 DEF Takes, Taken
  <2>2. \A i \in DOMAIN t : Known(v, t[i])
    BY <1>4, <1>10, <1>13
  <2>3. ASSUME NEW i \in DOMAIN t, NEW j \in DOMAIN t, i # j, t[i] # Human
        PROVE  t[i].id # t[j].id
    <3>1. i + n # j + n
      BY <1>4, <2>3
    <3>2. \A x, y \in DOMAIN s : x # y /\ s[x] # Human => s[x].id # s[y].id
      BY DEF Mid, Base, Shape, s
    <3> QED
      BY <3>1, <3>2, <1>4, <2>3
  <2> QED
    BY <1>8, <2>1, <2>2, <2>3 DEF Shape, a, t
<1>15. Attempt(v)
  BY <1>5, <1>9 DEF Mid, Base, Attempt, Takes, Marked, o, a
<1>16. Wanted(v) = Wanted(w) /\ Stops(v, st)
  BY DEF Mid, Base, Stops, Takes, Marked, Wanted, Armed
<1>17. ASSUME ~mt, Wanted(w) PROVE \A i \in DOMAIN s : s[i] # Human /\ s[i].ref = w.goal.ref =>
           o.phase = "queued" /\ SameRound(s[i], o) /\ s[i].id = o.id
  BY <1>17 DEF Mid, Queued, s, o
<1>18. ASSUME ~mt PROVE Queued(v)
  <2> SUFFICES ASSUME Wanted(v), NEW i \in DOMAIN t, t[i] # Human, t[i].ref = v.goal.ref
               PROVE  a.phase = "queued" /\ SameRound(t[i], a) /\ t[i].id = a.id
    BY DEF Queued, t, a
  <2>1. /\ i + n \in DOMAIN s /\ t[i] = s[i + n] /\ o.phase = "queued" /\ SameRound(t[i], o)
        /\ t[i].id = o.id
    BY <1>4, <1>16, <1>17, <1>18 DEF Takes
  <2>2. CASE Own(w, m) /\ w.driver.on # "down"
    <3>1. m = s[1] /\ 1 \in DOMAIN s /\ m # Human /\ SameRound(m, o) /\ n = 1
      BY <1>3, <1>6, <2>2
    <3>2. m.ref = w.goal.ref
      BY <2>1, <3>1 DEF SameRound, Takes
    <3>3. m.id = o.id
      BY <3>1, <3>2, <1>16, <1>17, <1>18
    <3>4. i + n # 1
      BY <1>4, <3>1, <1>2
    <3>5. \A x, y \in DOMAIN s : x # y /\ s[x] # Human => s[x].id # s[y].id
      BY DEF Mid, Base, Shape, s
    <3> QED
      BY <2>1, <3>1, <3>3, <3>4, <3>5
  <2> QED
    BY <2>1, <2>2, <1>5 DEF SameRound
<1>19. ASSUME ~mt PROVE InHand(v)
  <2> SUFFICES ASSUME Wanted(v), m # Human, m.ref = v.goal.ref
               PROVE  a.phase = "claimed" /\ m.id = a.id
    BY DEF InHand, Takes, a
  <2>1. o.phase = "queued" /\ SameRound(m, o) /\ m.id = o.id
    BY <1>3, <1>16, <1>17, <1>19 DEF Takes
  <2>2. Own(w, m) /\ w.driver.on # "down"
    BY <2>1, <1>7, <1>16 DEF Own, o, Wanted
  <2> QED
    BY <2>1, <2>2, <1>5
<1>20. ASSUME ~mt PROVE Owed(v)
  <2> SUFFICES ASSUME Wanted(w), o.phase = "admitted", o.ref = w.goal.ref,
                      Own(w, m) /\ w.driver.on # "down"
               PROVE  FALSE
    BY <1>5, <1>16, <1>20 DEF Mid, Owed, Takes, Marked, o, a
  <2>1. m # Human /\ SameRound(m, o) /\ m = s[1] /\ 1 \in DOMAIN s
    BY <1>3, <1>6
  <2> QED
    BY <2>1, <1>17, <1>20 DEF SameRound
<1>21. Looping(v) /\ Entering(v) /\ Gap(v, st) /\ Rested(v) /\ v.agent.phase = "running"
  BY DEF Takes, Looping, Entering, Gap, Rested
<1>22. SameLoops(w, v)
  BY DEF Takes, Marked, SameLoops, Live
<1> QED
  BY <1>1, <1>14, <1>15, <1>16, <1>18, <1>19, <1>20, <1>21, <1>22 DEF Core, Mid, Base

\* The loop is where it was, or a wake has claimed.
AtPoint(w, v) == v.agent.pc \in {w.agent.pc, "assembling"}

\* The call leaves the goal, the driver's loops and what it reserved.
Leaves(w, v) ==
    /\ v.goal = w.goal /\ SameLoops(w, v)
    /\ v.driver.reserved = w.driver.reserved /\ v.driver.on = w.driver.on /\ AtPoint(w, v)

\* A wake claims for an idle agent, and is latched or dropped otherwise.
LEMMA WokenKeeps ==
    ASSUME NEW w, NEW st, NEW mt, NEW b \in BOOLEAN, Mid(w, st, mt),
           IF w.agent.phase = "idle" THEN ~b ELSE Core(w, st, mt)
    PROVE  Core(Woken(w, b), st, mt) /\ Leaves(w, Woken(w, b))
<1>1. w \in Worlds /\ w.agent \in Agents
  BY DEF Mid, Base, Worlds
<1>2. CASE w.agent.phase = "idle"
  <2> DEFINE c == [w EXCEPT !.agent.phase = "running", !.agent.aborted = FALSE,
                            !.agent.wake = FALSE]
             a == [w.agent EXCEPT !.phase = "running", !.aborted = FALSE, !.wake = FALSE]
  <2>1. Woken(w, b) = Claimed(c, "nextTurn")
    BY <1>2 DEF Woken
  <2>2. c = [w EXCEPT !.agent = a]
    BY <1>1 DEF Worlds
  <2>3. a \in Agents
    BY <1>1, Zenon DEF Agents
  <2>4. a.phase = "running" /\ a.nextTurn = w.agent.nextTurn /\ a.claimed = w.agent.claimed
    BY <1>1 DEF Agents
  <2> HIDE DEF a, c
  <2>5. c \in Worlds
    BY <1>1, <2>2, <2>3, Zenon DEF Worlds
  <2>6. c.agent = a /\ c.driver = w.driver /\ c.goal = w.goal
    BY <1>1, <2>2 DEF Worlds
  <2>7. Mid(c, st, mt)
    <3>1. Shape(c) /\ Attempt(c)
      BY <2>4, <2>6 DEF Mid, Base, Shape, Known, Attempt, Attempting
    <3>2. Stops(c, st)
      BY <1>2, <2>6 DEF Mid, Base, Stops, Wanted, Armed
    <3>3. ~mt => Queued(c) /\ Owed(c)
      BY <2>4, <2>6 DEF Mid, Queued, Owed, Wanted, Armed
    <3> QED
      BY <2>5, <3>1, <3>2, <3>3 DEF Mid, Base
  <2>8. PICK m \in Messages, n \in {0, 1} :
            /\ Takes(c, Claimed(c, "nextTurn"), m, n)
            /\ m # Human => n = 1
            /\ n = 1 => c.agent.nextTurn # <<>> /\ m = c.agent.nextTurn[1]
    BY <2>5, ClaimedIs
  <2>9. Core(Claimed(c, "nextTurn"), st, mt) /\ SameLoops(c, Claimed(c, "nextTurn"))
    <3>1. c.agent.phase = "running"
      BY <2>4, <2>6
    <3> HIDE DEF c
    <3> QED
      BY <3>1, <2>7, <2>8, ClaimKeeps
  <2>10. Leaves(w, Claimed(c, "nextTurn"))
    BY <2>6, <2>8, <2>9 DEF Leaves, SameLoops, Takes, Marked, Live, AtPoint
  <2> QED
    BY <2>1, <2>9, <2>10
<1>3. CASE w.agent.phase # "idle"
  <2> DEFINE v == [w EXCEPT !.agent.wake = TRUE]
             a == [w.agent EXCEPT !.wake = TRUE]
  <2>1. Woken(w, b) \in {v, w}
    BY <1>3 DEF Woken
  <2>2. v = [w EXCEPT !.agent = a]
    BY <1>1 DEF Worlds
  <2>3. a \in Agents
    BY <1>1, Zenon DEF Agents
  <2>4. /\ a.phase = w.agent.phase /\ a.pc = w.agent.pc /\ a.aborted = w.agent.aborted
        /\ a.nextTurn = w.agent.nextTurn /\ a.claimed = w.agent.claimed
    BY <1>1 DEF Agents
  <2> HIDE DEF a, v
  <2>5. v \in Worlds
    BY <1>1, <2>2, <2>3, Zenon DEF Worlds
  <2>6. v.agent = a /\ v.driver = w.driver /\ v.goal = w.goal
    BY <1>1, <2>2 DEF Worlds
  <2>7. Alike(w, v)
    BY <2>4, <2>5, <2>6 DEF Alike, Resembles, SameAttempt, Taken
  <2>8. Core(v, st, mt)
    BY <2>7, <1>3, AlikeKeeps
  <2>9. Leaves(w, v) /\ Leaves(w, w)
    BY <2>4, <2>6 DEF Leaves, SameLoops, Live, AtPoint
  <2> QED
    BY <2>1, <2>8, <2>9, <1>3
<1> QED
  BY <1>2, <1>3

-----------------------------------------------------------------------------
(* The driver's passes                                                      *)

\* A pass that ends is one more that is about to settle.
LEMMA SettlingIs ==
    ASSUME NEW w \in Worlds
    PROVE  /\ Alike(w, Settling(w)) /\ Live(Settling(w)) = Live(w) + 1
           /\ Settling(w).driver.run = w.driver.run /\ Settling(w).agent = w.agent
           /\ Settling(w).driver.nested = w.driver.nested
<1> DEFINE v == Settling(w)
<1>1. w.driver \in Drivers /\ w.driver.settling + 1 \in Nat
  BY DEF Worlds, Drivers
<1>2. v \in Worlds
  BY <1>1, Zenon DEF Worlds, Drivers, Settling
<1>3. /\ v.agent = w.agent /\ v.goal = w.goal
      /\ v.driver = [w.driver EXCEPT !.settling = @ + 1]
  BY DEF Worlds, Settling
<1> HIDE DEF v
<1>4. /\ SameDriver(w, v) /\ v.driver.needsCheckpoint = w.driver.needsCheckpoint
      /\ v.driver.flushing = w.driver.flushing /\ v.driver.outdated = w.driver.outdated
      /\ v.driver.settling = w.driver.settling + 1 /\ v.driver.run = w.driver.run
  BY <1>1, <1>3 DEF Drivers, SameDriver
<1>5. Live(v) = Live(w) + 1
  BY <1>1, <1>4 DEF Live, Drivers
<1> QED
  BY <1>2, <1>3, <1>4, <1>5 DEF Alike, Resembles, SameAttempt, Taken, SameDriver, v

\* A checkpoint takes over what was owed.
LEMMA CheckpointingKeeps ==
    ASSUME NEW w, NEW st, NEW mt, Core(w, st, mt), w.driver.needsCheckpoint
    PROVE  /\ Core(Checkpointing(w), st, mt) /\ Live(Checkpointing(w)) = Live(w) + 1
           /\ Checkpointing(w).driver.run = w.driver.run /\ Checkpointing(w).agent = w.agent
           /\ Checkpointing(w).driver.nested = w.driver.nested
           /\ Checkpointing(w).driver.reserved = w.driver.reserved
           /\ Checkpointing(w).driver.on = w.driver.on
<1> DEFINE v == Checkpointing(w)
<1>1. w \in Worlds /\ w.driver \in Drivers /\ w.driver.flushing + 1 \in Nat
  BY DEF Core, Mid, Base, Worlds, Drivers
<1>2. v \in Worlds
  BY <1>1, Zenon DEF Worlds, Drivers, Checkpointing
<1>3. /\ v.agent = w.agent /\ v.goal = w.goal
      /\ v.driver = [w.driver EXCEPT !.needsCheckpoint = FALSE, !.flushing = @ + 1]
  BY <1>1 DEF Worlds, Checkpointing
<1> HIDE DEF v
<1>4. /\ SameDriver(w, v) /\ v.driver.outdated = w.driver.outdated
      /\ v.driver.flushing = w.driver.flushing + 1
      /\ v.driver.settling = w.driver.settling /\ v.driver.run = w.driver.run
  BY <1>1, <1>3 DEF Drivers, SameDriver
<1>5. Live(v) = Live(w) + 1 /\ v.driver.flushing > 0
  BY <1>1, <1>4 DEF Live, Drivers
<1>6. Wanted(v) = Wanted(w) /\ Attempting(v) = Attempting(w)
  BY <1>3, <1>4 DEF Wanted, Armed, Attempting, SameDriver
<1>7. Base(v, st)
  BY <1>2, <1>3, <1>4, <1>6 DEF Core, Mid, Base, Shape, Known, Attempt, Stops, SameDriver
<1>8. ~mt => Queued(v) /\ Owed(v) /\ InHand(v) /\ Rested(v)
  BY <1>3, <1>4, <1>5, <1>6 DEF Core, Mid, Queued, Owed, InHand, Rested, SameDriver, Taken
<1>9. Looping(v) /\ Entering(v) /\ Gap(v, st)
  BY <1>3, <1>4, <1>6 DEF Core, Looping, Entering, Gap, Own, SameDriver, Taken
<1> QED
  BY <1>3, <1>4, <1>5, <1>7, <1>8, <1>9 DEF Core, Mid, v, SameDriver

\* A pass has its place: no loop is live beside the one it belongs to, unless a
\* loop started another.
Slot(w) == ~w.driver.nested => Live(w) = 0

\* A round is reserved when everything is durable.
Prompts(w, v, mt) ==
    v.driver.reserved > w.driver.reserved /\ ~w.driver.nested /\ ~mt /\ ~UpstreamHooks
    => v.goal.durable

\* What the rest of drive may do beside keeping the invariant.
Passes(w, v, mt) ==
    /\ Starts(w, v) /\ Prompts(w, v, mt)
    /\ v.driver.nested = w.driver.nested /\ v.driver.on = w.driver.on /\ AtPoint(w, v)

\* Without a live loop nothing is flushed.
LEMMA NothingLive ==
    ASSUME NEW w \in Worlds, Live(w) = 0
    PROVE  w.driver.flushing = 0 /\ w.driver.outdated = 0 /\ w.driver.settling = 0
<1>1. PICK x \in Nat, y \in Nat, z \in Nat :
          w.driver.flushing = x /\ w.driver.outdated = y /\ w.driver.settling = z
  BY DEF Worlds, Drivers
<1>2. x + y + z = 0
  BY <1>1 DEF Live
<1> QED
  BY <1>1, <1>2

\* The next round is queued, and its attempt is the driver's.
NextRound(w) == [ref |-> w.goal.ref, round |-> w.goal.rounds + 1, id |-> w.driver.reserved + 1]
NextAttempt(w) == [ref |-> w.goal.ref, round |-> w.goal.rounds + 1, id |-> w.driver.reserved + 1,
                   phase |-> "queued", cancelled |-> FALSE, stale |-> FALSE]
Reserving(w) ==
    [w EXCEPT !.driver.attempt = NextAttempt(w), !.driver.reserved = NextRound(w).id,
              !.agent.nextTurn = Append(@, NextRound(w))]

\* A round that is reserved is the only one of its change, and all before it is durable.
LEMMA ReservedKeeps ==
    ASSUME NEW w, NEW st, NEW mt, Core(w, st, mt), Ready(w), ~w.driver.needsCheckpoint, Slot(w),
           ~Attempting(w), Armed(w), w.goal.rounds < w.goal.max
    PROVE  LET v == Reserving(w)
           IN  /\ Mid(v, st, mt) /\ (w.agent.phase # "idle" => Core(v, st, mt))
               /\ v.agent.phase = w.agent.phase /\ v.goal = w.goal /\ SameLoops(w, v)
               /\ v.driver.on = w.driver.on /\ v.agent.pc = w.agent.pc
               /\ (~w.driver.nested /\ ~mt /\ ~UpstreamHooks => v.goal.durable)
<1> DEFINE v == Reserving(w)
           m == NextRound(w)
           a == NextAttempt(w)
<1> DEFINE s == w.agent.nextTurn
           t == Append(s, m)
           d == [w.driver EXCEPT !.attempt = a, !.reserved = m.id]
           g == [w.agent EXCEPT !.nextTurn = t]
<1>1. /\ w \in Worlds /\ w.agent \in Agents /\ w.driver \in Drivers /\ w.goal \in Goals
      /\ s \in Seq(Messages) /\ w.goal.ref \in Nat /\ w.goal.rounds \in Nat /\ w.goal.max \in Nat
      /\ w.driver.reserved \in Nat /\ w.driver.attempt \in Attempts
      /\ w.driver.flushing \in Nat /\ w.driver.outdated \in Nat /\ w.driver.settling \in Nat
  BY GoalRoundsAssumption DEF Core, Mid, Base, Worlds, Agents, Drivers, Goals
<1>2. /\ m.ref = w.goal.ref /\ m.round = w.goal.rounds + 1 /\ m.id = w.driver.reserved + 1
      /\ m \in Messages /\ m # Human
  BY <1>1 DEF Messages, Human, NextRound
<1>3. /\ a.ref = m.ref /\ a.round = m.round /\ a.id = m.id /\ a.phase = "queued"
      /\ a # NoAttempt /\ a \in Attempts
  BY <1>1, <1>2 DEF Attempts, Messages, NoAttempt, NextAttempt
<1>4. v = [w EXCEPT !.driver = d, !.agent = g]
  BY <1>1 DEF Worlds, Reserving
<1> HIDE DEF m, a, v
<1>5. PICK l \in Nat : Len(s) = l /\ DOMAIN s = 1..l
  BY <1>1, LenProperties
<1>6. /\ t \in Seq(Messages) /\ Len(t) = l + 1 /\ t[l + 1] = m
      /\ \A i \in 1..l : t[i] = s[i]
  BY <1>1, <1>2, <1>5, AppendProperties
<1>7. DOMAIN t = 1..(l + 1)
  BY <1>6, LenProperties
<1> HIDE DEF t
<1>8. d \in Drivers
  BY <1>1, <1>2, <1>3, Zenon DEF Drivers, Messages
<1>9. g \in Agents
  BY <1>1, <1>6, Zenon DEF Agents
<1>10. /\ d.attempt = a /\ d.reserved = m.id /\ d.on = w.driver.on /\ d.nested = w.driver.nested
       /\ d.run = w.driver.run /\ d.needsCheckpoint = w.driver.needsCheckpoint
       /\ d.flushing = w.driver.flushing /\ d.outdated = w.driver.outdated
       /\ d.settling = w.driver.settling
  BY <1>1 DEF Drivers
<1>11. /\ g.nextTurn = t /\ g.phase = w.agent.phase /\ g.pc = w.agent.pc
       /\ g.claimed = w.agent.claimed /\ g.aborted = w.agent.aborted
  BY <1>1 DEF Agents
<1> HIDE DEF d, g
<1>12. v \in Worlds
  BY <1>1, <1>4, <1>8, <1>9, Zenon DEF Worlds
<1>13. v.driver = d /\ v.agent = g /\ v.goal = w.goal
  BY <1>1, <1>4 DEF Worlds
<1>14. /\ w.driver.on = "up" /\ w.agent.phase \in {"idle", "maintenance"} /\ w.agent.pc = "none"
  BY <1>1 DEF Ready, Idle, Core, Looping, Agents
<1>15. w.driver.attempt.phase = "none"
  BY DEF Core, Mid, Base, Shape, Attempting
<1>16. ~w.driver.nested => w.driver.flushing = 0 /\ w.driver.outdated = 0
  BY <1>1, NothingLive DEF Slot
<1>17. \A i \in 1..l : s[i] \in Messages /\ Known(w, s[i]) /\ Known(v, s[i])
  <2> SUFFICES ASSUME NEW i \in 1..l PROVE s[i] \in Messages /\ Known(w, s[i]) /\ Known(v, s[i])
    OBVIOUS
  <2>1. s[i] \in Messages /\ Known(w, s[i])
    BY <1>1, <1>5 DEF Core, Mid, Base, Shape
  <2>2. s[i].id \in Nat
    BY <2>1 DEF Messages
  <2> QED
    BY <1>1, <1>2, <1>10, <1>13, <2>1, <2>2 DEF Known
<1>18. Shape(v)
  <2>1. Known(v, v.agent.claimed.round)
    <3>1. PICK r \in Messages : r = w.agent.claimed.round
      BY <1>1 DEF Agents, Claims
    <3>2. Known(w, r) /\ v.agent.claimed.round = r /\ r.id \in Nat
      BY <3>1, <1>11, <1>13 DEF Core, Mid, Base, Shape, Messages
    <3> QED
      BY <1>1, <1>2, <1>10, <1>13, <3>2 DEF Known
  <2>2. Known(v, m)
    BY <1>1, <1>2, <1>10, <1>13 DEF Known
  <2>3. \A i \in DOMAIN t : Known(v, t[i])
    <3> SUFFICES ASSUME NEW i \in DOMAIN t PROVE Known(v, t[i])
      OBVIOUS
    <3>1. i \in 1..l \/ i = l + 1
      BY <1>7
    <3> QED
      BY <3>1, <2>2, <1>6, <1>17
  <2>4. ASSUME NEW i \in DOMAIN t, NEW j \in DOMAIN t, i # j, t[i] # Human PROVE t[i].id # t[j].id
    <3>1. (i \in 1..l \/ i = l + 1) /\ (j \in 1..l \/ j = l + 1)
      BY <1>7
    <3>2. CASE i \in 1..l /\ j \in 1..l
      BY <3>2, <2>4, <1>5, <1>6 DEF Core, Mid, Base, Shape
    <3>3. \A x \in 1..l : s[x].id # m.id
      <4> SUFFICES ASSUME NEW x \in 1..l PROVE s[x].id # m.id
        OBVIOUS
      <4>1. s[x].id \in Nat /\ s[x].id <= w.driver.reserved
        BY <1>17 DEF Messages, Known
      <4> QED
        BY <4>1, <1>1, <1>2
    <3>4. CASE i \in 1..l /\ j = l + 1
      BY <3>3, <3>4, <1>6
    <3>5. CASE i = l + 1 /\ j \in 1..l
      BY <3>3, <3>5, <1>6
    <3> QED
      BY <3>1, <3>2, <3>4, <3>5, <2>4
  <2>5. v.driver.attempt.phase = "none" <=> v.driver.attempt = NoAttempt
    BY <1>3, <1>10, <1>13
  <2>6. v.agent.nextTurn = t
    BY <1>11, <1>13
  <2>7. \A i, j \in DOMAIN t : i # j /\ t[i] # Human => t[i].id # t[j].id
    BY <2>4
  <2>8. \A i \in DOMAIN v.agent.nextTurn : Known(v, v.agent.nextTurn[i])
    BY <2>3, <2>6
  <2>9. \A i, j \in DOMAIN v.agent.nextTurn :
            i # j /\ v.agent.nextTurn[i] # Human => v.agent.nextTurn[i].id # v.agent.nextTurn[j].id
    BY <2>6, <2>7
  <2> QED
    BY <2>1, <2>5, <2>8, <2>9 DEF Shape
<1>19. Attempt(v)
  BY <1>1, <1>2, <1>3, <1>10, <1>13, <1>14, <1>16 DEF Attempt
<1>20. Stops(v, st)
  BY <1>10, <1>11, <1>13, <1>14 DEF Core, Mid, Base, Stops, Wanted, Armed
<1>21. ASSUME ~mt PROVE Queued(v)
  <2> SUFFICES ASSUME NEW i \in DOMAIN t, t[i] # Human, t[i].ref = w.goal.ref
               PROVE  SameRound(t[i], a) /\ t[i].id = a.id
    BY <1>3, <1>10, <1>11, <1>13 DEF Queued
  <2>1. i \in 1..l => FALSE
    BY <1>5, <1>6, <1>14, <1>15, <1>21 DEF Core, Mid, Queued, Wanted
  <2>2. i = l + 1
    BY <2>1, <1>7
  <2> QED
    BY <2>2, <1>3, <1>6 DEF SameRound
<1>22. ASSUME ~mt PROVE Owed(v)
  BY <1>10, <1>13, <1>15, <1>22 DEF Core, Mid, Owed, Wanted, Armed
<1>23. Mid(v, st, mt)
  BY <1>12, <1>18, <1>19, <1>20, <1>21, <1>22 DEF Mid, Base
<1>24. Looping(v) /\ Entering(v) /\ Gap(v, st) /\ InHand(v)
       /\ (w.agent.phase # "idle" => Rested(v))
  BY <1>11, <1>13, <1>14 DEF Looping, Entering, Gap, InHand, Rested
<1>25. SameLoops(w, v)
  BY <1>10, <1>13 DEF SameLoops, Live
<1>26. ~w.driver.nested /\ ~mt /\ ~UpstreamHooks => v.goal.durable
  <2>1. w.driver.flushing > 0 => w.driver.nested
    BY <1>16
  <2> QED
    BY <2>1, <1>13, <1>14, <1>15 DEF Core, Mid, Owed, Wanted
<1> QED
  BY <1>10, <1>11, <1>13, <1>23, <1>24, <1>25, <1>26 DEF Core, v

\* What is released behind an entered round is owed a checkpoint.
LEMMA SettledKeeps ==
    ASSUME NEW w, NEW st, NEW mt, Core(w, st, mt), Ready(w),
           NEW v, v = [Released(w) EXCEPT !.driver.needsCheckpoint = TRUE,
                                          !.driver.requested = TRUE]
    PROVE  Core(v, st, mt) /\ SameLoops(w, v) /\ v.driver.reserved = w.driver.reserved
           /\ v.driver.on = w.driver.on /\ v.agent = w.agent
<1> DEFINE d == [w.driver EXCEPT !.attempt = NoAttempt, !.needsCheckpoint = TRUE,
                                 !.requested = TRUE]
<1>1. w \in Worlds /\ w.driver \in Drivers
  BY DEF Core, Mid, Base, Worlds
<1>2. v = [w EXCEPT !.driver = d]
  BY <1>1 DEF Worlds, Released
<1>3. NoAttempt \in Attempts /\ NoAttempt.phase = "none" /\ NoAttempt.ref = 0
  BY DEF NoAttempt, Attempts
<1>4. d \in Drivers
  BY <1>1, <1>3, Zenon DEF Drivers
<1>5. /\ d.attempt = NoAttempt /\ d.reserved = w.driver.reserved /\ d.on = w.driver.on
      /\ d.nested = w.driver.nested /\ d.run = w.driver.run /\ d.needsCheckpoint
      /\ d.flushing = w.driver.flushing /\ d.outdated = w.driver.outdated
      /\ d.settling = w.driver.settling
  BY <1>1 DEF Drivers
<1> HIDE DEF d
<1>6. v \in Worlds
  BY <1>1, <1>2, <1>4, Zenon DEF Worlds
<1>7. v.driver = d /\ v.agent = w.agent /\ v.goal = w.goal
  BY <1>1, <1>2 DEF Worlds
<1>8. w.driver.on = "up" /\ w.agent.phase \in {"idle", "maintenance"} /\ w.agent.pc = "none"
  BY <1>1 DEF Ready, Idle, Core, Looping, Worlds, Agents
<1>9. Wanted(v) = Wanted(w) /\ ~Attempting(v) /\ v.goal.ref \in Nat
  BY <1>1, <1>5, <1>7 DEF Wanted, Armed, Attempting, Worlds, Goals
<1>10. Base(v, st)
  <2>1. Shape(v)
    BY <1>3, <1>5, <1>7 DEF Core, Mid, Base, Shape, Known
  <2>2. Attempt(v)
    BY <1>3, <1>5, <1>7, <1>9 DEF Attempt
  <2>3. Stops(v, st)
    BY <1>7, <1>9 DEF Core, Mid, Base, Stops
  <2> QED
    BY <1>6, <2>1, <2>2, <2>3 DEF Base
<1>11. Owed(v) /\ Looping(v) /\ Entering(v) /\ Gap(v, st) /\ InHand(v) /\ Rested(v)
  BY <1>5, <1>7, <1>8, <1>9 DEF Core, Owed, Looping, Entering, Gap, InHand, Rested
<1>12. ASSUME ~mt PROVE Queued(v)
  <2> SUFFICES ASSUME Wanted(w), NEW i \in DOMAIN w.agent.nextTurn,
                      w.agent.nextTurn[i] # Human, w.agent.nextTurn[i].ref = w.goal.ref
               PROVE  FALSE
    BY <1>7, <1>9 DEF Queued
  <2>1. w.driver.attempt.phase = "queued" /\ w.driver.attempt.ref = w.goal.ref
    BY <1>12 DEF Core, Mid, Queued, SameRound
  <2>2. Attempting(w)
    BY <2>1, <1>3 DEF Attempting
  <2>3. CASE w.agent.phase = "idle"
    BY <2>1, <2>2, <2>3, <1>12 DEF Core, Rested
  <2>4. CASE w.agent.phase = "maintenance"
    BY <2>4, <1>12 DEF Core
  <2> QED
    BY <2>3, <2>4, <1>8
<1> QED
  BY <1>5, <1>7, <1>10, <1>11, <1>12 DEF Core, Mid, SameLoops, Live

\* The rest of drive keeps the invariant, whether it gives the attempt back, reserves the
\* next round or blocks the goal.
LEMMA DroveOnKeeps ==
    ASSUME NEW w, NEW st, NEW mt, Core(w, st, mt), Ready(w), ~w.driver.needsCheckpoint, Slot(w)
    PROVE  Core(DroveOn(w), st, mt) /\ Passes(w, DroveOn(w), mt)
<1>1. /\ w \in Worlds /\ w.driver.reserved \in Nat /\ w.agent.pc = "none"
      /\ (w.agent.phase = "maintenance" => mt) /\ w.agent.phase # "running"
  <2>1. w.agent.phase \in {"idle", "maintenance"} /\ w.agent \in Agents
    BY DEF Ready, Idle, Core, Mid, Base, Worlds
  <2> QED
    BY <2>1 DEF Core, Mid, Base, Looping, Worlds, Agents, Drivers
<1>2. CASE Attempting(w)
  <2> DEFINE v == [Released(w) EXCEPT !.driver.needsCheckpoint = TRUE, !.driver.requested = TRUE]
  <2>1. DroveOn(w) = v
    BY <1>2 DEF DroveOn
  <2> HIDE DEF v
  <2>2. /\ Core(v, st, mt) /\ SameLoops(w, v) /\ v.driver.reserved = w.driver.reserved
        /\ v.driver.on = w.driver.on /\ v.agent = w.agent
    BY SettledKeeps DEF v
  <2> QED
    BY <1>1, <2>1, <2>2 DEF Passes, Starts, Prompts, SameLoops, AtPoint
<1>3. CASE ~Attempting(w) /\ ~Armed(w)
  <2>1. DroveOn(w) = w
    BY <1>3 DEF DroveOn
  <2> QED
    BY <1>1, <2>1 DEF Passes, Starts, Prompts, AtPoint
<1>4. CASE ~Attempting(w) /\ Armed(w) /\ w.goal.rounds >= w.goal.max
  <2>1. DroveOn(w) = Changed(w, "blocked", FALSE)
    BY <1>4 DEF DroveOn
  <2>2. ChangesTo(w, DroveOn(w))
    BY <1>1, <2>1, ChangedIs DEF Phases
  <2>3. Core(DroveOn(w), st, mt)
    BY <1>1, <2>2, ChangeKeeps DEF Core, Mid, Base, Attempt, Stops, Past
  <2> QED
    BY <1>1, <2>2, <2>3 DEF ChangesTo, SameDriver, Passes, Prompts, AtPoint
<1>5. CASE ~Attempting(w) /\ Armed(w) /\ ~(w.goal.rounds >= w.goal.max)
  <2>1. w.goal.rounds < w.goal.max
    BY <1>1, <1>5, GoalRoundsAssumption DEF Worlds, Goals
  <2>2. DroveOn(w) = Woken(Reserving(w), FALSE)
    BY <1>5 DEF DroveOn, Reserving, NextRound, NextAttempt
  <2>3. PICK v : v = Reserving(w)
    OBVIOUS
  <2>4. /\ Mid(v, st, mt) /\ (w.agent.phase # "idle" => Core(v, st, mt))
        /\ v.agent.phase = w.agent.phase /\ v.goal = w.goal /\ SameLoops(w, v)
        /\ v.driver.on = w.driver.on /\ v.agent.pc = w.agent.pc
        /\ (~w.driver.nested /\ ~mt /\ ~UpstreamHooks => v.goal.durable)
    BY <1>5, <2>1, <2>3, ReservedKeeps
  <2>5. Core(Woken(v, FALSE), st, mt) /\ Leaves(v, Woken(v, FALSE))
    BY <2>4, WokenKeeps
  <2> QED
    BY <2>2, <2>3, <2>4, <2>5 DEF Leaves, SameLoops, Passes, Starts, Prompts, AtPoint
<1> QED
  BY <1>2, <1>3, <1>4, <1>5

\* A pass adds itself to the live ones, and nobody else but a loop it started.
Advances(w, v, mt) ==
    /\ \/ v.driver.run = w.driver.run /\ Live(v) = Live(w) + 1
       \/ ~w.driver.run /\ v.driver.run /\ Live(v) = Live(w) + 2
    /\ Prompts(w, v, mt)
    /\ v.driver.nested = w.driver.nested /\ v.driver.on = w.driver.on
    /\ AtPoint(w, v) /\ (~Idle(w) => v.agent = w.agent)

\* The driver's counts are numbers.
LEMMA LiveIsNat ==
    ASSUME NEW w \in Worlds
    PROVE  Live(w) \in Nat /\ w.driver.reserved \in Nat /\ w.driver.run \in BOOLEAN
BY DEF Worlds, Drivers, Live

\* A pass that has ended what drive did is one more that is about to settle.
LEMMA SettledPass ==
    ASSUME NEW w, NEW v, NEW st, NEW mt, w \in Worlds, Core(v, st, mt), Passes(w, v, mt),
           ~Idle(w) => v.agent = w.agent
    PROVE  Core(Settling(v), st, mt) /\ Advances(w, Settling(v), mt)
<1>1. v \in Worlds
  BY DEF Core, Mid, Base
<1>2. PICK x : x = Settling(v)
  OBVIOUS
<1>3. /\ Alike(v, x) /\ Live(x) = Live(v) + 1 /\ x.driver.run = v.driver.run
      /\ x.agent = v.agent /\ x.driver.nested = v.driver.nested
  BY <1>1, <1>2, SettlingIs
<1>4. Core(x, st, mt)
  BY <1>3, AlikeKeeps
<1>5. Advances(w, x, mt)
  BY <1>1, <1>3, LiveIsNat DEF Advances, Passes, Starts, Prompts, Alike, Resembles, AtPoint
<1> QED
  BY <1>2, <1>4, <1>5

\* A pass keeps the invariant in every branch.
LEMMA PassKeeps ==
    ASSUME NEW w, NEW st, NEW mt, Core(w, st, mt), Slot(w)
    PROVE  Core(Pass(w), st, mt) /\ Advances(w, Pass(w), mt)
<1>1. w \in Worlds
  BY DEF Core, Mid, Base
<1>2. Passes(w, w, mt)
  BY <1>1, LiveIsNat DEF Passes, Starts, Prompts, AtPoint
<1>3. CASE ~Ready(w)
  BY <1>1, <1>2, <1>3, SettledPass DEF Pass
<1>4. CASE Ready(w) /\ w.driver.needsCheckpoint
  <2>1. Pass(w) = Checkpointing(w) /\ Idle(w)
    BY <1>4 DEF Pass, Ready
  <2> QED
    BY <1>1, <1>4, <2>1, CheckpointingKeeps, LiveIsNat DEF Advances, Prompts, AtPoint
<1>5. CASE Ready(w) /\ ~w.driver.needsCheckpoint
  <2>1. Pass(w) = Settling(DroveOn(w)) /\ Idle(w)
    BY <1>5 DEF Pass, Ready
  <2> QED
    BY <1>1, <1>5, <2>1, DroveOnKeeps, SettledPass
<1> QED
  BY <1>3, <1>4, <1>5

\* What requestDrive notes concerns no one but the loops.
LEMMA NotedIs ==
    ASSUME NEW w \in Worlds, NEW b \in BOOLEAN
    PROVE  LET z == [w EXCEPT !.driver.requested = b]
           IN  Alike(w, z) /\ SameLoops(w, z) /\ z.agent = w.agent
<1> DEFINE z == [w EXCEPT !.driver.requested = b]
<1>1. w.driver \in Drivers
  BY DEF Worlds
<1>2. z \in Worlds
  BY Zenon DEF Worlds, Drivers
<1>3. /\ z.agent = w.agent /\ z.goal = w.goal
      /\ z.driver = [w.driver EXCEPT !.requested = b]
  BY DEF Worlds
<1> HIDE DEF z
<1>4. /\ z.driver.on = w.driver.on /\ z.driver.attempt = w.driver.attempt
      /\ z.driver.reserved = w.driver.reserved /\ z.driver.nested = w.driver.nested
      /\ z.driver.run = w.driver.run /\ z.driver.needsCheckpoint = w.driver.needsCheckpoint
      /\ z.driver.flushing = w.driver.flushing /\ z.driver.outdated = w.driver.outdated
      /\ z.driver.settling = w.driver.settling
  BY <1>1, <1>3 DEF Drivers
<1> QED
  BY <1>2, <1>3, <1>4 DEF Alike, Resembles, SameAttempt, SameLoops, Live, Taken, z

\* What requestDrive does: nothing, a note, or a pass of a loop of its own.
LEMMA RequestDriveIs ==
    ASSUME NEW w \in Worlds
    PROVE  LET v == RequestDrive(w)
           IN  \/ Alike(w, v) /\ SameLoops(w, v) /\ v.agent = w.agent
               \/ /\ ~w.driver.run
                  /\ \E y : /\ Alike(w, y) /\ SameLoops(w, y) /\ y.agent = w.agent
                            /\ Pass(y) \in Worlds =>
                                  /\ Alike(Pass(y), v) /\ v.agent = Pass(y).agent
                                  /\ Live(v) = Live(Pass(y)) /\ v.driver.run
                                  /\ v.driver.nested = (Pass(y).driver.nested \/ Pass(y).driver.run)
<1> DEFINE v == RequestDrive(w)
<1>1. w.driver \in Drivers
  BY DEF Worlds
<1>2. ASSUME NEW b \in BOOLEAN, NEW z, z = [w EXCEPT !.driver.requested = b]
      PROVE  Alike(w, z) /\ SameLoops(w, z) /\ z.agent = w.agent
  BY <1>2, NotedIs
<1>3. CASE w.driver.on # "up"
  BY <1>3 DEF RequestDrive, Alike, Resembles, SameAttempt, SameLoops
<1>4. CASE w.driver.on = "up" /\ w.driver.run
  <2>1. PICK x : x = [w EXCEPT !.driver.requested = TRUE]
    OBVIOUS
  <2>2. v = x
    BY <1>4, <2>1 DEF RequestDrive
  <2>3. Alike(w, x) /\ SameLoops(w, x) /\ x.agent = w.agent
    BY <1>2, <2>1
  <2> QED
    BY <2>2, <2>3
<1>5. CASE w.driver.on = "up" /\ ~w.driver.run
  <2>1. PICK y : y = [w EXCEPT !.driver.requested = FALSE]
    OBVIOUS
  <2>2. Alike(w, y) /\ SameLoops(w, y) /\ y.agent = w.agent
    BY <1>2, <2>1
  <2>3. PICK p : p = Pass(y)
    OBVIOUS
  <2>4. ASSUME p \in Worlds
        PROVE  /\ Alike(p, v) /\ v.agent = p.agent /\ Live(v) = Live(p) /\ v.driver.run
               /\ v.driver.nested = (p.driver.nested \/ p.driver.run)
    <3>1. PICK e : e = (p.driver.nested \/ p.driver.run)
      OBVIOUS
    <3>2. e \in BOOLEAN /\ p.driver \in Drivers
      BY <2>4, <3>1 DEF Worlds
    <3>3. v = [p EXCEPT !.driver.run = TRUE, !.driver.nested = e]
      BY <1>5, <2>1, <2>3, <2>4, <3>1, <3>2 DEF RequestDrive, Worlds, Drivers
    <3> HIDE DEF v
    <3>4. v.agent = p.agent /\ v.goal = p.goal
           /\ v.driver = [p.driver EXCEPT !.run = TRUE, !.nested = e]
      BY <2>4, <3>3 DEF Worlds
    <3>5. v \in Worlds
      BY <2>4, <3>2, <3>3, Zenon DEF Worlds, Drivers
    <3>6. /\ v.driver.on = p.driver.on /\ v.driver.attempt = p.driver.attempt
          /\ v.driver.reserved = p.driver.reserved /\ v.driver.nested = e
          /\ v.driver.run /\ v.driver.needsCheckpoint = p.driver.needsCheckpoint
          /\ v.driver.flushing = p.driver.flushing /\ v.driver.outdated = p.driver.outdated
          /\ v.driver.settling = p.driver.settling
      BY <3>2, <3>4 DEF Drivers
    <3> QED
      BY <3>1, <3>4, <3>5, <3>6 DEF Alike, Resembles, SameAttempt, Live, Taken
  <2> QED
    BY <1>5, <2>2, <2>3, <2>4
<1> QED
  BY <1>3, <1>4, <1>5

\* requestDrive keeps the invariant and one live loop, unless a pass started another.
LEMMA RequestDriveKeeps ==
    ASSUME NEW w, NEW st, NEW mt, Core(w, st, mt), Loops(w)
    PROVE  LET v == RequestDrive(w)
           IN  /\ Core(v, st, mt) /\ Loops(v) /\ Prompts(w, v, mt)
               /\ v.driver.on = w.driver.on /\ AtPoint(w, v)
<1>1. w \in Worlds
  BY DEF Core, Mid, Base
<1>2. PICK v : v = RequestDrive(w)
  OBVIOUS
<1>3. CASE Alike(w, v) /\ SameLoops(w, v)
  BY <1>1, <1>2, <1>3, AlikeKeeps, LiveIsNat
  DEF Loops, SameLoops, Prompts, Alike, Resembles, AtPoint
<1>4. CASE /\ ~w.driver.run
           /\ \E y : /\ Alike(w, y) /\ SameLoops(w, y) /\ y.agent = w.agent
                     /\ Pass(y) \in Worlds =>
                           /\ Alike(Pass(y), v) /\ v.agent = Pass(y).agent
                           /\ Live(v) = Live(Pass(y)) /\ v.driver.run
                           /\ v.driver.nested = (Pass(y).driver.nested \/ Pass(y).driver.run)
  <2>1. PICK y : /\ Alike(w, y) /\ SameLoops(w, y)
                 /\ Pass(y) \in Worlds =>
                       /\ Alike(Pass(y), v) /\ v.agent = Pass(y).agent
                       /\ Live(v) = Live(Pass(y)) /\ v.driver.run
                       /\ v.driver.nested = (Pass(y).driver.nested \/ Pass(y).driver.run)
    BY <1>4
  <2>2. Core(y, st, mt)
    BY <2>1, AlikeKeeps
  <2>3. Slot(y)
    BY <1>1, <1>4, <2>1, LiveIsNat DEF Slot, Loops, SameLoops
  <2>4. PICK p : p = Pass(y)
    OBVIOUS
  <2>5. Core(p, st, mt) /\ Advances(y, p, mt) /\ p \in Worlds
    BY <2>2, <2>3, <2>4, PassKeeps DEF Core, Mid, Base
  <2>6. /\ Alike(p, v) /\ Live(v) = Live(p) /\ v.driver.run
        /\ v.driver.nested = (p.driver.nested \/ p.driver.run)
    BY <2>1, <2>4, <2>5
  <2>7. Core(v, st, mt)
    BY <2>5, <2>6, AlikeKeeps
  <2>8. Loops(v)
    <3>1. /\ Live(w) \in Nat /\ Live(y) = Live(w) /\ ~y.driver.run
          /\ y.driver.nested = w.driver.nested
      BY <1>1, <1>4, <2>1, LiveIsNat DEF SameLoops
    <3>2. /\ \/ Live(v) = Live(y) + 1
             \/ Live(v) = Live(y) + 2 /\ p.driver.run
          /\ p.driver.nested = y.driver.nested
      BY <2>5, <2>6, <3>1 DEF Advances
    <3>3. ~v.driver.nested => Live(y) = 0 /\ ~p.driver.run
      BY <2>3, <2>6, <3>1, <3>2 DEF Slot
    <3> QED
      BY <2>6, <3>1, <3>2, <3>3 DEF Loops
  <2>9. Prompts(w, v, mt) /\ v.driver.on = w.driver.on /\ AtPoint(w, v)
    BY <2>1, <2>5, <2>6 DEF Prompts, Advances, Alike, Resembles, SameLoops, AtPoint
  <2> QED
    BY <1>2, <2>7, <2>8, <2>9
<1> QED
  BY <1>1, <1>2, <1>3, <1>4, RequestDriveIs

\* With an agent at work requestDrive leaves all but the loops as it is.
LEMMA BusyDrive ==
    ASSUME NEW w \in Worlds, ~Idle(w), Loops(w)
    PROVE  LET v == RequestDrive(w)
           IN  /\ Alike(w, v) /\ Loops(v) /\ v.agent = w.agent
               /\ v.driver.nested = w.driver.nested
<1>1. PICK v : v = RequestDrive(w)
  OBVIOUS
<1>2. CASE Alike(w, v) /\ SameLoops(w, v) /\ v.agent = w.agent
  BY <1>1, <1>2 DEF Loops, SameLoops
<1>3. CASE /\ ~w.driver.run
           /\ \E y : /\ Alike(w, y) /\ SameLoops(w, y) /\ y.agent = w.agent
                     /\ Pass(y) \in Worlds =>
                           /\ Alike(Pass(y), v) /\ v.agent = Pass(y).agent
                           /\ Live(v) = Live(Pass(y)) /\ v.driver.run
                           /\ v.driver.nested = (Pass(y).driver.nested \/ Pass(y).driver.run)
  <2>1. PICK y : /\ Alike(w, y) /\ SameLoops(w, y) /\ y.agent = w.agent
                 /\ Pass(y) \in Worlds =>
                       /\ Alike(Pass(y), v) /\ v.agent = Pass(y).agent
                       /\ Live(v) = Live(Pass(y)) /\ v.driver.run
                       /\ v.driver.nested = (Pass(y).driver.nested \/ Pass(y).driver.run)
    BY <1>3
  <2>2. y \in Worlds /\ Pass(y) = Settling(y)
    BY <2>1 DEF Alike, Resembles, Pass, Ready, Idle
  <2>3. PICK p : p = Settling(y)
    OBVIOUS
  <2>4. /\ Alike(y, p) /\ Live(p) = Live(y) + 1 /\ p.driver.run = y.driver.run
        /\ p.agent = y.agent /\ p.driver.nested = y.driver.nested /\ p \in Worlds
    BY <2>2, <2>3, SettlingIs DEF Alike, Resembles
  <2>5. /\ Alike(p, v) /\ Live(v) = Live(p) /\ v.driver.run /\ v.agent = p.agent
        /\ v.driver.nested = (p.driver.nested \/ p.driver.run)
    BY <2>1, <2>2, <2>3, <2>4
  <2>6. v.driver.nested = w.driver.nested
    <3>1. ~p.driver.run /\ p.driver.nested = w.driver.nested /\ w.driver.nested \in BOOLEAN
      BY <1>3, <2>1, <2>4 DEF SameLoops, Worlds, Drivers
    <3> QED
      BY <2>5, <3>1
  <2>7. Alike(w, v) /\ v.agent = w.agent
    BY <2>1, <2>4, <2>5, <2>6 DEF Alike, Resembles, SameAttempt
  <2>8. Loops(v)
    BY <1>3, <2>1, <2>4, <2>5, <2>6, LiveIsNat DEF Loops, SameLoops
  <2> QED
    BY <1>1, <2>6, <2>7, <2>8
<1> QED
  BY <1>1, <1>2, <1>3, RequestDriveIs

-----------------------------------------------------------------------------
(* Changes, disarmed goals and refused steps                                *)

\* What every step keeps.
Good(w, v, st, mt) == Core(v, st, mt) /\ Loops(v) /\ Prompts(w, v, mt)

\* A call that starts a loop only where there is none keeps one live loop.
LEMMA StartsLoops ==
    ASSUME NEW w \in Worlds, NEW v, Loops(w), Starts(w, v), v.driver.nested = w.driver.nested
    PROVE  Loops(v)
BY LiveIsNat DEF Loops, Starts

\* So does one that leaves the loops alone.
LEMMA SameLoopsKeep ==
    ASSUME NEW w, NEW v, Loops(w), SameLoops(w, v)
    PROVE  Loops(v)
BY DEF Loops, SameLoops

\* Nothing is reserved where the count of reservations stays.
LEMMA NoPrompt ==
    ASSUME NEW w \in Worlds, NEW v, NEW mt, v.driver.reserved = w.driver.reserved
    PROVE  Prompts(w, v, mt)
BY LiveIsNat DEF Prompts

\* Every change of the goal keeps the invariant, wherever it may be made.
LEMMA ChangedGood ==
    ASSUME NEW w, NEW st, NEW mt, Core(w, st, mt), Loops(w),
           w.agent.pc # "outer" \/ UpstreamHooks,
           NEW x \in Worlds, x.agent = w.agent, x.driver = w.driver, x.goal.ref = w.goal.ref,
           NEW p \in Phases, NEW a \in BOOLEAN
    PROVE  Good(w, Changed(x, p, a), st, mt)
<1>1. PICK v : v = Changed(x, p, a)
  OBVIOUS
<1>2. ChangesTo(x, v) /\ w \in Worlds /\ v \in Worlds
  BY <1>1, ChangedIs DEF Core, Mid, Base, ChangesTo
<1>3. Past(x, st)
  BY DEF Core, Mid, Base, Shape, Known, Attempt, Attempting, Stops, Past
<1>4. Entering(x) /\ Looping(x) /\ (x.agent.phase = "maintenance" => mt)
  BY DEF Core, Entering, Taken, Own, Attempting, Looping
<1>5. Core(v, st, mt)
  BY <1>2, <1>3, <1>4, ChangeKeeps
<1>6. Loops(v)
  <2>1. Loops(x)
    BY DEF Loops, Live
  <2> QED
    BY <1>2, <2>1, StartsLoops DEF ChangesTo, SameDriver
<1>7. Prompts(w, v, mt)
  BY <1>2, NoPrompt DEF ChangesTo, SameDriver
<1> QED
  BY <1>1, <1>5, <1>6, <1>7 DEF Good

\* What disarming does.
LEMMA DisarmedIs ==
    ASSUME NEW w \in Worlds
    PROVE  LET v == Disarmed(w)
           IN  /\ v \in Worlds /\ v.agent = w.agent /\ v.driver = w.driver
               /\ v.goal.ref = w.goal.ref /\ v.goal.max = w.goal.max /\ ~v.goal.armed
               /\ v.goal.phase = w.goal.phase /\ v.goal.rounds = w.goal.rounds
               /\ v.goal.durable = w.goal.durable
<1> DEFINE g == [w.goal EXCEPT !.armed = FALSE]
<1>1. Disarmed(w) = [w EXCEPT !.goal = g] /\ w.goal \in Goals
  BY DEF Worlds, Disarmed
<1>2. g \in Goals
  BY <1>1, Zenon DEF Goals
<1>3. /\ g.ref = w.goal.ref /\ g.max = w.goal.max /\ ~g.armed /\ g.phase = w.goal.phase
      /\ g.rounds = w.goal.rounds /\ g.durable = w.goal.durable
  BY <1>1 DEF Goals
<1> HIDE DEF g
<1>4. Disarmed(w) \in Worlds
  BY <1>1, <1>2, Zenon DEF Worlds
<1>5. /\ Disarmed(w).agent = w.agent /\ Disarmed(w).driver = w.driver
      /\ Disarmed(w).goal = g
  BY <1>1 DEF Worlds
<1> QED
  BY <1>3, <1>4, <1>5

\* A goal that is disarmed is not wanted: what is left to show is that no round
\* stands in front of its step.
LEMMA UnwantedKeeps ==
    ASSUME NEW w, NEW v, NEW st, NEW mt, Base(w, st), Looping(w), Entering(w),
           w.agent.phase = "maintenance" => mt,
           Resembles(w, v), v.goal.ref = w.goal.ref, v.goal.max = w.goal.max, ~v.goal.armed,
           \/ v.driver.on = w.driver.on
           \/ v.driver.on # "down" /\ w.driver.on # "down",
           Gap(v, st)
    PROVE  Core(v, st, mt)
<1>1. w \in Worlds /\ v \in Worlds /\ SameAttempt(w, v) /\ Attempting(v) = Attempting(w)
  BY DEF Base, Resembles, SameAttempt, Attempting
<1>2. ~Wanted(v)
  BY DEF Wanted, Armed
<1>3. Shape(v)
  BY <1>1, ResemblesShape DEF Base
<1>4. Attempt(v)
  BY <1>1 DEF Base, Attempt, Resembles, SameAttempt
<1>5. Stops(v, st)
  BY <1>2 DEF Base, Stops
<1>6. Looping(v) /\ Entering(v)
  BY <1>1 DEF Looping, Entering, Resembles, SameAttempt, Own, SameRound
<1>8. Queued(v) /\ Owed(v) /\ InHand(v) /\ Rested(v)
  BY <1>2 DEF Queued, Owed, InHand, Rested
<1>9. ~mt => v.agent.phase # "maintenance"
  BY DEF Resembles
<1> QED
  BY <1>1, <1>3, <1>4, <1>5, <1>6, <1>8, <1>9 DEF Core, Mid, Base

\* A step at its next point.
Points == {"assembling", "inner", "outer", "refused", "step"}
Moved(w, p) == [w EXCEPT !.agent.pc = p]

\* Moving on changes nothing but the point.
LEMMA MovedIs ==
    ASSUME NEW w \in Worlds, NEW p \in Points
    PROVE  LET v == Moved(w, p) IN
           /\ v \in Worlds /\ v.goal = w.goal /\ v.driver = w.driver
           /\ v.agent.phase = w.agent.phase /\ v.agent.pc = p /\ v.agent.aborted = w.agent.aborted
           /\ v.agent.nextTurn = w.agent.nextTurn /\ v.agent.claimed = w.agent.claimed
           /\ v.agent.nextStep = w.agent.nextStep /\ v.agent.wake = w.agent.wake
<1> DEFINE v == Moved(w, p)
           a == [w.agent EXCEPT !.pc = p]
<1>1. v = [w EXCEPT !.agent = a] /\ w.agent \in Agents
  BY DEF Worlds, Moved
<1> HIDE DEF v
<1>2. a \in Agents
  <2>1. p \in {"assembling", "inner", "outer", "refused", "step", "none"}
    BY DEF Points
  <2> QED
    BY <1>1, <2>1, Zenon DEF Agents
<1>3. /\ a.phase = w.agent.phase /\ a.pc = p /\ a.aborted = w.agent.aborted
      /\ a.nextTurn = w.agent.nextTurn /\ a.claimed = w.agent.claimed
      /\ a.nextStep = w.agent.nextStep /\ a.wake = w.agent.wake
  BY <1>1 DEF Agents
<1> HIDE DEF a
<1>4. v \in Worlds
  BY <1>1, <1>2, Zenon DEF Worlds
<1>5. v.agent = a /\ v.goal = w.goal /\ v.driver = w.driver
  BY <1>1 DEF Worlds
<1> QED
  BY <1>3, <1>4, <1>5 DEF v

\* The agent's loop goes on to another point of its step.
LEMMA MovedKeeps ==
    ASSUME NEW w, NEW st, NEW mt, Mid(w, st, mt), w.agent.phase = "running",
           NEW p \in Points, Entering(Moved(w, p)), Gap(Moved(w, p), st),
           ~mt => InHand(Moved(w, p))
    PROVE  Core(Moved(w, p), st, mt) /\ SameLoops(w, Moved(w, p))
<1> DEFINE v == Moved(w, p)
<1>1. w \in Worlds
  BY DEF Mid, Base
<1>2. /\ v \in Worlds /\ v.goal = w.goal /\ v.driver = w.driver
      /\ v.agent.phase = w.agent.phase /\ v.agent.pc = p /\ v.agent.aborted = w.agent.aborted
      /\ v.agent.nextTurn = w.agent.nextTurn /\ v.agent.claimed = w.agent.claimed
  BY <1>1, MovedIs
<1> HIDE DEF v
<1>3. Base(v, st)
  BY <1>2 DEF Mid, Base, Shape, Known, Attempt, Attempting, Stops, Wanted, Armed
<1>4. ~mt => Queued(v) /\ Owed(v)
  BY <1>2 DEF Mid, Queued, Owed, Wanted, Armed
<1>5. Looping(v) /\ Rested(v) /\ v.agent.phase # "maintenance"
  BY <1>2 DEF Looping, Rested, Points
<1>6. Entering(v) /\ Gap(v, st) /\ (~mt => InHand(v))
  BY DEF v
<1> QED
  BY <1>2, <1>3, <1>4, <1>5, <1>6 DEF Core, Mid, SameLoops, Live, v

\* A refused step is behind the fence, whatever became of its reservation.
LEMMA RefusedKeeps ==
    ASSUME NEW w, NEW st, NEW mt, Mid(w, st, mt), w.agent.phase = "running"
    PROVE  Core(Refused(w), st, mt) /\ SameLoops(w, Refused(w)) /\ Refused(w).driver = w.driver
<1>1. PICK v : v = Moved(w, "refused")
  OBVIOUS
<1>2. v.agent.pc = "refused" /\ v.driver = w.driver /\ "refused" \in Points
  BY <1>1, MovedIs DEF Mid, Base, Points
<1>3. Entering(v) /\ Gap(v, st) /\ InHand(v)
  BY <1>2 DEF Entering, Gap, InHand
<1>4. Core(v, st, mt) /\ SameLoops(w, v)
  BY <1>1, <1>2, <1>3, MovedKeeps
<1> QED
  BY <1>1, <1>2, <1>4 DEF Refused, Moved

\* What releasing the attempt does.
LEMMA ReleasedIs ==
    ASSUME NEW w \in Worlds
    PROVE  LET v == Released(w)
           IN  /\ v \in Worlds /\ v.agent = w.agent /\ v.goal = w.goal /\ SameLoops(w, v)
               /\ v.driver.attempt = NoAttempt /\ v.driver.reserved = w.driver.reserved
               /\ v.driver.on = w.driver.on /\ v.driver.needsCheckpoint = w.driver.needsCheckpoint
               /\ v.driver.flushing = w.driver.flushing /\ v.driver.outdated = w.driver.outdated
               /\ v.driver.nested = w.driver.nested
<1> DEFINE d == [w.driver EXCEPT !.attempt = NoAttempt]
           v == Released(w)
<1>1. v = [w EXCEPT !.driver = d] /\ w.driver \in Drivers
  BY DEF Worlds, Released
<1>2. NoAttempt \in Attempts
  BY DEF NoAttempt, Attempts
<1>3. d \in Drivers
  BY <1>1, <1>2, Zenon DEF Drivers
<1>4. /\ d.attempt = NoAttempt /\ d.reserved = w.driver.reserved /\ d.on = w.driver.on
      /\ d.nested = w.driver.nested /\ d.run = w.driver.run
      /\ d.needsCheckpoint = w.driver.needsCheckpoint
      /\ d.flushing = w.driver.flushing /\ d.outdated = w.driver.outdated
      /\ d.settling = w.driver.settling
  BY <1>1 DEF Drivers
<1> HIDE DEF d, v
<1>5. v \in Worlds
  BY <1>1, <1>3, Zenon DEF Worlds
<1>6. v.driver = d /\ v.agent = w.agent /\ v.goal = w.goal
  BY <1>1 DEF Worlds
<1> QED
  BY <1>4, <1>5, <1>6 DEF SameLoops, Live, v

\* A reservation in the agent's hand is released in front of a refusal.
LEMMA ReleasedKeeps ==
    ASSUME NEW w, NEW st, NEW mt, Core(w, st, mt), w.agent.pc \in {"assembling", "inner"},
           Own(w, Taken(w))
    PROVE  LET v == Released(w)
           IN  /\ Mid(v, st, mt) /\ v.agent = w.agent /\ v.goal = w.goal /\ SameLoops(w, v)
               /\ v.driver.on = w.driver.on /\ v.driver.reserved = w.driver.reserved
<1> DEFINE v == Released(w)
           d == v.driver
<1>1. w \in Worlds /\ w.goal.ref \in Nat
  BY DEF Core, Mid, Base, Worlds, Goals
<1>3. NoAttempt.phase = "none" /\ NoAttempt.ref = 0
  BY DEF NoAttempt
<1>5. /\ d.attempt = NoAttempt /\ d.reserved = w.driver.reserved /\ d.on = w.driver.on
      /\ d.nested = w.driver.nested /\ d.needsCheckpoint = w.driver.needsCheckpoint
      /\ d.flushing = w.driver.flushing /\ d.outdated = w.driver.outdated
  BY <1>1, ReleasedIs
<1>7. v \in Worlds /\ v.agent = w.agent /\ v.goal = w.goal /\ SameLoops(w, v)
  BY <1>1, ReleasedIs
<1> HIDE DEF d, v
<1>8. Wanted(v) = Wanted(w) /\ ~Attempting(v)
  BY <1>5, <1>7 DEF Wanted, Armed, Attempting, d
<1>9. Base(v, st)
  <2>1. Shape(v)
    BY <1>3, <1>5, <1>7 DEF Core, Mid, Base, Shape, Known, d
  <2>2. Attempt(v)
    BY <1>1, <1>3, <1>5, <1>7, <1>8 DEF Attempt, d
  <2>3. Stops(v, st)
    BY <1>7, <1>8 DEF Core, Mid, Base, Stops
  <2> QED
    BY <1>7, <2>1, <2>2, <2>3 DEF Base
<1>10. ASSUME ~mt, Wanted(w), w.driver.attempt.ref = w.goal.ref
       PROVE  w.driver.attempt.phase = "claimed"
  BY <1>10 DEF Core, InHand, Own, SameRound
<1>11. ASSUME ~mt PROVE Queued(v)
  <2> SUFFICES ASSUME Wanted(w), NEW i \in DOMAIN w.agent.nextTurn,
                      w.agent.nextTurn[i] # Human, w.agent.nextTurn[i].ref = w.goal.ref
               PROVE  FALSE
    BY <1>7, <1>8 DEF Queued
  <2>1. w.driver.attempt.phase = "queued" /\ w.driver.attempt.ref = w.goal.ref
    BY <1>11 DEF Core, Mid, Queued, SameRound
  <2> QED
    BY <2>1, <1>10, <1>11
<1>12. ASSUME ~mt PROVE Owed(v)
  BY <1>5, <1>7, <1>8, <1>10, <1>12 DEF Core, Mid, Owed, d
<1> QED
  BY <1>5, <1>7, <1>9, <1>11, <1>12 DEF Mid, d, v

\* What was claimed beside a round goes back to the queue.
LEMMA RestoredIs ==
    ASSUME NEW w \in Worlds
    PROVE  LET v == Restored(w)
           IN  Alike(w, v) /\ SameLoops(w, v) /\ v.driver = w.driver
<1> DEFINE c == [w.agent.claimed EXCEPT !.steers = 0]
           a == [w.agent EXCEPT !.nextStep = @ + w.agent.claimed.steers, !.claimed = c]
           v == Restored(w)
<1>1. /\ w.agent \in Agents /\ w.agent.claimed \in Claims
      /\ w.agent.nextStep + w.agent.claimed.steers \in Nat
  BY DEF Worlds, Agents, Claims
<1>2. v = [w EXCEPT !.agent = a]
  BY <1>1 DEF Worlds, Agents, Restored
<1>3. c \in Claims /\ c.round = w.agent.claimed.round
  BY <1>1 DEF Claims
<1> HIDE DEF c
<1>4. a \in Agents
  BY <1>1, <1>3, Zenon DEF Agents
<1>5. /\ a.phase = w.agent.phase /\ a.pc = w.agent.pc /\ a.aborted = w.agent.aborted
      /\ a.nextTurn = w.agent.nextTurn /\ a.claimed = c
  BY <1>1 DEF Agents
<1> HIDE DEF a, v
<1>6. v \in Worlds
  BY <1>2, <1>4, Zenon DEF Worlds
<1>7. v.agent = a /\ v.goal = w.goal /\ v.driver = w.driver
  BY <1>2 DEF Worlds
<1> QED
  BY <1>3, <1>5, <1>6, <1>7
     DEF Alike, Resembles, SameAttempt, SameLoops, Live, Taken, v

\* Refusing worlds that are alike makes them no less so.
LEMMA RefusedAlike ==
    ASSUME NEW w \in Worlds, NEW v, Alike(w, v)
    PROVE  Alike(Refused(w), Refused(v))
<1>1. PICK x : x = Moved(w, "refused")
  OBVIOUS
<1>2. PICK y : y = Moved(v, "refused")
  OBVIOUS
<1>3. v \in Worlds
  BY DEF Alike, Resembles
<1>4. /\ x \in Worlds /\ x.goal = w.goal /\ x.driver = w.driver
      /\ x.agent.phase = w.agent.phase /\ x.agent.pc = "refused" /\ x.agent.aborted = w.agent.aborted
      /\ x.agent.nextTurn = w.agent.nextTurn /\ x.agent.claimed = w.agent.claimed
  BY <1>1, MovedIs DEF Points
<1>5. /\ y \in Worlds /\ y.goal = v.goal /\ y.driver = v.driver
      /\ y.agent.phase = v.agent.phase /\ y.agent.pc = "refused" /\ y.agent.aborted = v.agent.aborted
      /\ y.agent.nextTurn = v.agent.nextTurn /\ y.agent.claimed = v.agent.claimed
  BY <1>2, <1>3, MovedIs DEF Points
<1>6. Alike(x, y)
  BY <1>4, <1>5 DEF Alike, Resembles, SameAttempt, Taken
<1> QED
  BY <1>1, <1>2, <1>6 DEF Refused, Moved

\* The driver refuses a step: what it claimed is restored, and the driver looks again.
LEMMA RefusedGood ==
    ASSUME NEW w, NEW st, NEW mt, Mid(w, st, mt), Loops(w), w.agent.phase = "running"
    PROVE  LET v == Refused(RequestDrive(Restored(w)))
           IN  Core(v, st, mt) /\ Loops(v) /\ v.driver.reserved = w.driver.reserved
<1>1. PICK x : x = Restored(w)
  OBVIOUS
<1>2. PICK y : y = RequestDrive(x)
  OBVIOUS
<1>3. w \in Worlds /\ Alike(w, x) /\ SameLoops(w, x) /\ x.driver = w.driver
  BY <1>1, RestoredIs DEF Mid, Base
<1>4. x \in Worlds /\ ~Idle(x) /\ Loops(x)
  BY <1>3, SameLoopsKeep DEF Alike, Resembles, Idle
<1>5. Alike(x, y) /\ Loops(y) /\ y \in Worlds
  BY <1>2, <1>4, BusyDrive DEF Alike, Resembles
<1>6. Core(Refused(w), st, mt)
  BY RefusedKeeps
<1>7. Core(Refused(x), st, mt)
  BY <1>3, <1>6, RefusedAlike, AlikeKeeps
<1>8. Core(Refused(y), st, mt)
  BY <1>4, <1>5, <1>7, RefusedAlike, AlikeKeeps
<1>9. Refused(y).driver = y.driver
  BY <1>5, MovedIs DEF Refused, Moved, Points
<1>10. Loops(Refused(y))
  BY <1>5, <1>9 DEF Loops, Live
<1>11. y.driver.reserved = w.driver.reserved
  BY <1>3, <1>5 DEF Alike, Resembles
<1> QED
  BY <1>1, <1>2, <1>8, <1>9, <1>10, <1>11

-----------------------------------------------------------------------------
(* The end of a turn                                                        *)

\* What holds in front of an idle agent: a cancel has marked the attempt it caught.
Ending(w, st, mt) ==
    /\ w \in Worlds /\ Shape(w) /\ Attempt(w)
    /\ st \in Nat /\ st <= w.goal.ref
    /\ Wanted(w) /\ st = w.goal.ref => w.driver.attempt.cancelled
    /\ ~mt => Queued(w) /\ Owed(w)

\* An idle agent's attempt has entered and was not cancelled, or its goal is paused.
LEMMA QuiescedGood ==
    ASSUME NEW z, NEW st, NEW mt, Ending(z, st, mt), Loops(z),
           z.agent.phase = "idle", z.agent.pc = "none"
    PROVE  Good(z, Quiesced(z), st, mt) /\ AtPoint(z, Quiesced(z))
<1> DEFINE a == z.driver.attempt
           cond == (a.phase \in {"queued", "claimed"} \/ a.cancelled) /\ Armed(z)
<1>1. z \in Worlds /\ z.driver \in Drivers /\ a \in Attempts
  BY DEF Ending, Worlds, Drivers
<1>2. CASE z.driver.on = "down"
  <2>1. Quiesced(z) = z
    BY <1>2 DEF Quiesced
  <2>2. ~Wanted(z)
    BY <1>2 DEF Wanted
  <2>3. Base(z, st)
    BY <2>2 DEF Ending, Base, Stops
  <2>4. Queued(z) /\ Owed(z) /\ InHand(z) /\ Rested(z)
    BY <2>2 DEF Queued, Owed, InHand, Rested
  <2>5. Looping(z) /\ Entering(z) /\ Gap(z, st)
    BY DEF Looping, Entering, Gap
  <2>6. Core(z, st, mt)
    BY <2>3, <2>4, <2>5 DEF Core, Mid
  <2> QED
    BY <1>1, <2>1, <2>6, NoPrompt DEF Good, AtPoint
<1>3. CASE z.driver.on # "down"
  <2>1. PICK q : q = [z EXCEPT !.driver.competing = FALSE]
    OBVIOUS
  <2>2. q \in Worlds
    BY <1>1, <2>1, Zenon DEF Worlds, Drivers
  <2>3. q.agent = z.agent /\ q.goal = z.goal /\ q.driver = [z.driver EXCEPT !.competing = FALSE]
    BY <1>1, <2>1 DEF Worlds
  <2>4. /\ q.driver.on = z.driver.on /\ q.driver.attempt = a
        /\ q.driver.reserved = z.driver.reserved /\ q.driver.nested = z.driver.nested
        /\ q.driver.needsCheckpoint = z.driver.needsCheckpoint
        /\ q.driver.flushing = z.driver.flushing /\ q.driver.outdated = z.driver.outdated
        /\ SameLoops(z, q)
    BY <1>1, <2>3 DEF Drivers, SameLoops, Live
  <2>5. Loops(q)
    BY <2>4, SameLoopsKeep
  <2>6. Wanted(q) = Wanted(z) /\ Attempting(q) = Attempting(z)
    BY <2>3, <2>4 DEF Wanted, Armed, Attempting
  <2>7. Shape(q) /\ Attempt(q)
    BY <2>3, <2>4, <2>6 DEF Ending, Shape, Known, Attempt
  <2>8. Looping(q) /\ Entering(q) /\ Gap(q, st) /\ InHand(q)
    BY <2>3 DEF Looping, Entering, Gap, InHand
  <2>9. PICK p : p = IF cond THEN Changed(Released(q), "paused", FALSE) ELSE q
    OBVIOUS
  <2>10. Core(p, st, mt) /\ Loops(p) /\ p.driver.reserved = z.driver.reserved
         /\ p.driver.nested = z.driver.nested /\ p.agent = z.agent
    <3>1. CASE cond
      <4>1. PICK r : r = Released(q)
        OBVIOUS
      <4>2. /\ r \in Worlds /\ r.agent = q.agent /\ r.goal = q.goal /\ SameLoops(q, r)
            /\ r.driver.attempt = NoAttempt /\ r.driver.reserved = q.driver.reserved
            /\ r.driver.nested = q.driver.nested
        BY <2>2, <4>1, ReleasedIs
      <4>3. p = Changed(r, "paused", FALSE)
        BY <2>9, <3>1, <4>1
      <4>4. ChangesTo(r, p)
        BY <4>2, <4>3, ChangedIs DEF Phases
      <4>5. Past(r, st)
        <5>1. Shape(r)
          BY <2>7, <4>2 DEF Shape, Known, NoAttempt
        <5>2. r.driver.attempt.ref = 0 /\ ~Attempting(r) /\ r.goal.ref \in Nat
          BY <4>2 DEF NoAttempt, Attempting, Worlds, Goals
        <5> QED
          BY <2>3, <4>2, <5>1, <5>2 DEF Past, Ending
      <4>6. Entering(r) /\ Looping(r) /\ r.agent.phase # "maintenance" /\ r.agent.pc # "outer"
        BY <2>3, <4>2 DEF Entering, Looping
      <4>7. Core(p, st, mt)
        BY <4>4, <4>5, <4>6, ChangeKeeps
      <4>8. Loops(p)
        BY <2>5, <4>2, <4>4, SameLoopsKeep, StartsLoops DEF ChangesTo, SameDriver
      <4> QED
        BY <2>3, <2>4, <4>2, <4>4, <4>7, <4>8 DEF ChangesTo, SameDriver
    <3>2. CASE ~cond
      <4>1. p = q
        BY <2>9, <3>2
      <4>2. Stops(q, st)
        BY <2>3, <2>6, <3>2 DEF Ending, Stops, Wanted
      <4>3. ~mt => Queued(q) /\ Owed(q)
        BY <2>3, <2>4, <2>6 DEF Ending, Queued, Owed
      <4>4. Rested(q)
        <5>1. Attempting(z) /\ Wanted(z) => a.phase = "admitted"
          BY <1>1, <3>2 DEF Ending, Shape, Attempting, Attempts, Wanted
        <5> QED
          BY <2>4, <2>6, <5>1 DEF Rested
      <4>5. Core(q, st, mt)
        BY <2>2, <2>3, <2>7, <2>8, <4>2, <4>3, <4>4 DEF Core, Mid, Base
      <4> QED
        BY <2>3, <2>4, <2>5, <4>1, <4>5
    <3> QED
      BY <3>1, <3>2
  <2>11. Quiesced(z) = RequestDrive(p)
    BY <1>3, <2>1, <2>9 DEF Quiesced
  <2>12. /\ Core(RequestDrive(p), st, mt) /\ Loops(RequestDrive(p))
         /\ Prompts(p, RequestDrive(p), mt) /\ AtPoint(p, RequestDrive(p))
    BY <2>10, RequestDriveKeeps
  <2>13. Prompts(z, RequestDrive(p), mt)
    BY <2>10, <2>12 DEF Prompts
  <2> QED
    BY <2>10, <2>11, <2>12, <2>13 DEF Good, AtPoint
<1> QED
  BY <1>2, <1>3

\* The agent turns idle, and a latched wake starts the next turn.
LEMMA WentIdleGood ==
    ASSUME NEW w, NEW st, NEW mt, Ending(w, st, mt), Loops(w)
    PROVE  Good(w, WentIdle(w), st, mt) /\ WentIdle(w).agent.pc \in {"none", "assembling"}
<1> DEFINE a == [w.agent EXCEPT !.phase = "idle", !.pc = "none", !.claimed = NoClaim,
                                !.aborted = FALSE, !.wake = FALSE]
<1>1. w \in Worlds /\ w.agent \in Agents /\ w.goal.ref \in Nat /\ w.driver.reserved \in Nat
  BY DEF Ending, Worlds, Goals, Drivers
<1>2. NoClaim \in Claims /\ NoClaim.round = Human
  BY DEF NoClaim, Claims, Human, Messages
<1>3. PICK z : z = [w EXCEPT !.agent.phase = "idle", !.agent.pc = "none", !.agent.claimed = NoClaim,
                             !.agent.aborted = FALSE, !.agent.wake = FALSE]
  OBVIOUS
<1>4. z = [w EXCEPT !.agent = a]
  BY <1>1, <1>3 DEF Worlds
<1>5. a \in Agents
  BY <1>1, <1>2, Zenon DEF Agents
<1>6. /\ a.phase = "idle" /\ a.pc = "none" /\ a.claimed = NoClaim
      /\ a.nextTurn = w.agent.nextTurn
  BY <1>1 DEF Agents
<1> HIDE DEF a
<1>7. z \in Worlds
  BY <1>1, <1>4, <1>5, Zenon DEF Worlds
<1>8. z.agent = a /\ z.goal = w.goal /\ z.driver = w.driver
  BY <1>1, <1>4 DEF Worlds
<1>9. Ending(z, st, mt)
  <2>1. Known(z, z.agent.claimed.round)
    BY <1>1, <1>2, <1>6, <1>8 DEF Known, Human
  <2>2. Shape(z)
    BY <1>6, <1>8, <2>1 DEF Ending, Shape, Known
  <2>3. Attempt(z) /\ Wanted(z) = Wanted(w)
    BY <1>8 DEF Ending, Attempt, Attempting, Wanted, Armed
  <2>4. ~mt => Queued(z) /\ Owed(z)
    BY <1>6, <1>8, <2>3 DEF Ending, Queued, Owed
  <2> QED
    BY <1>7, <1>8, <2>2, <2>3, <2>4 DEF Ending
<1>10. PICK i : i = Quiesced(z)
  OBVIOUS
<1>11. /\ Core(i, st, mt) /\ Loops(i) /\ Prompts(z, i, mt)
       /\ i.agent.pc \in {"none", "assembling"}
  <2>1. Loops(z)
    BY <1>8 DEF Loops, Live
  <2> QED
    BY <1>6, <1>8, <1>9, <1>10, <2>1, QuiescedGood DEF Good, AtPoint
<1>12. Prompts(w, i, mt)
  BY <1>8, <1>11 DEF Prompts
<1>13. Core(Woken(i, FALSE), st, mt) /\ Leaves(i, Woken(i, FALSE))
  BY <1>11, WokenKeeps DEF Core
<1>14. Loops(Woken(i, FALSE)) /\ Prompts(w, Woken(i, FALSE), mt)
  BY <1>11, <1>12, <1>13, SameLoopsKeep DEF Leaves, Prompts
<1>15. WentIdle(w) = i \/ WentIdle(w) = Woken(i, FALSE)
  BY <1>3, <1>10 DEF WentIdle
<1> QED
  BY <1>11, <1>12, <1>13, <1>14, <1>15 DEF Good, Leaves, AtPoint

\* A flag of an attempt does not make it another one.
LEMMA FlagsKeep ==
    ASSUME NEW a \in Attempts, a.phase = "none" <=> a = NoAttempt,
           NEW x \in BOOLEAN, x => a # NoAttempt,
           NEW b \in {[a EXCEPT !.stale = x], [a EXCEPT !.cancelled = x]}
    PROVE  /\ b \in Attempts /\ b.ref = a.ref /\ b.round = a.round /\ b.id = a.id
           /\ b.phase = a.phase /\ (b = NoAttempt <=> a = NoAttempt)
<1>1. b \in Attempts
  BY Zenon DEF Attempts
<1>2. b.ref = a.ref /\ b.round = a.round /\ b.id = a.id /\ b.phase = a.phase
  BY DEF Attempts
<1>3. b = NoAttempt => a = NoAttempt
  BY <1>2 DEF NoAttempt
<1>4. ASSUME a = NoAttempt PROVE b = NoAttempt
  BY <1>4 DEF NoAttempt
<1> QED
  BY <1>1, <1>2, <1>3, <1>4

\* A turn that ends at an abort marks the attempt it caught, or disarms the goal;
\* the next turn begins, or the agent turns idle.
LEMMA TurnEndedGood ==
    ASSUME NEW w, NEW st, NEW mt, Mid(w, st, mt), Loops(w), w.agent.phase = "running",
           NEW reason, w.agent.aborted => reason = "aborted"
    PROVE  /\ Good(w, TurnEnded(w, reason), st, mt)
           /\ TurnEnded(w, reason).agent.pc \in {"none", "assembling"}
<1> DEFINE a == w.driver.attempt
           caught == a.phase \in {"claimed", "admitted"}
<1>1. /\ w \in Worlds /\ w.driver \in Drivers /\ a \in Attempts /\ w.agent \in Agents
      /\ (a.phase = "none" <=> a = NoAttempt)
  BY DEF Mid, Base, Shape, Worlds, Drivers
<1>2. PICK e : e = IF w.driver.on = "down" THEN w
                   ELSE IF reason = "aborted" /\ caught
                   THEN [w EXCEPT !.driver.attempt.cancelled = TRUE]
                   ELSE IF reason \in {"aborted", "max-tokens", "error"} THEN Disarmed(w) ELSE w
  OBVIOUS
<1>3. /\ Resembles(w, e) /\ SameLoops(w, e) /\ e.agent = w.agent /\ e.driver.on = w.driver.on
      /\ e.goal.ref = w.goal.ref /\ e.goal.max = w.goal.max /\ e.goal.durable = w.goal.durable
      /\ (Wanted(e) => Wanted(w))
      /\ (Wanted(e) /\ reason = "aborted" => e.driver.attempt.cancelled)
  <2>1. CASE w.driver.on = "down"
    BY <1>1, <1>2, <2>1 DEF Resembles, SameAttempt, SameLoops, Wanted
  <2>2. CASE w.driver.on # "down" /\ reason = "aborted" /\ caught
    <3> DEFINE b == [a EXCEPT !.cancelled = TRUE]
               d == [w.driver EXCEPT !.attempt = b]
    <3>1. e = [w EXCEPT !.driver = d]
      BY <1>1, <1>2, <2>2 DEF Worlds, Drivers
    <3>2. /\ b \in Attempts /\ b.ref = a.ref /\ b.round = a.round /\ b.id = a.id
          /\ b.phase = a.phase /\ (b = NoAttempt <=> a = NoAttempt)
      BY <1>1, <2>2, FlagsKeep
    <3>3. b.cancelled
      BY <1>1 DEF Attempts
    <3> HIDE DEF b
    <3>4. d \in Drivers
      BY <1>1, <3>2, Zenon DEF Drivers
    <3>5. /\ d.attempt = b /\ d.reserved = w.driver.reserved /\ d.on = w.driver.on
          /\ d.nested = w.driver.nested /\ d.run = w.driver.run
          /\ d.needsCheckpoint = w.driver.needsCheckpoint
          /\ d.flushing = w.driver.flushing /\ d.outdated = w.driver.outdated
          /\ d.settling = w.driver.settling
      BY <1>1 DEF Drivers
    <3> HIDE DEF d
    <3>6. e \in Worlds
      BY <1>1, <3>1, <3>4, Zenon DEF Worlds
    <3>7. e.driver = d /\ e.agent = w.agent /\ e.goal = w.goal
      BY <1>1, <3>1 DEF Worlds
    <3> QED
      BY <3>2, <3>3, <3>5, <3>6, <3>7
         DEF Resembles, SameAttempt, SameLoops, Live, Taken, Wanted, Armed
  <2>3. CASE w.driver.on # "down" /\ ~(reason = "aborted" /\ caught)
             /\ reason \in {"aborted", "max-tokens", "error"}
    <3>1. e = Disarmed(w)
      BY <1>2, <2>3
    <3>2. /\ e \in Worlds /\ e.agent = w.agent /\ e.driver = w.driver
          /\ e.goal.ref = w.goal.ref /\ e.goal.max = w.goal.max /\ ~e.goal.armed
          /\ e.goal.durable = w.goal.durable
      BY <1>1, <3>1, DisarmedIs
    <3> QED
      BY <3>2 DEF Resembles, SameAttempt, SameLoops, Live, Taken, Wanted, Armed
  <2>4. CASE w.driver.on # "down" /\ ~(reason = "aborted" /\ caught)
             /\ reason \notin {"aborted", "max-tokens", "error"}
    BY <1>1, <1>2, <2>4 DEF Resembles, SameAttempt, SameLoops, Wanted
  <2> QED
    BY <2>1, <2>2, <2>3, <2>4
<1>4. e \in Worlds /\ Shape(e) /\ Loops(e) /\ e.driver.reserved = w.driver.reserved
  BY <1>1, <1>3, ResemblesShape, SameLoopsKeep DEF Mid, Base, Resembles
<1>5. Attempt(e)
  <2>1. Attempting(e) = Attempting(w)
    BY <1>3 DEF Resembles, SameAttempt, Attempting
  <2> QED
    BY <1>3, <2>1 DEF Mid, Base, Attempt, Resembles, SameAttempt
<1>6. ASSUME ~mt PROVE Queued(e) /\ Owed(e)
  <2>1. Queued(e)
    BY <1>3, <1>6 DEF Mid, Queued, Resembles, SameAttempt, SameRound
  <2>2. Owed(e)
    BY <1>3, <1>6 DEF Mid, Owed, Resembles, SameAttempt
  <2> QED
    BY <2>1, <2>2
<1>7. st \in Nat /\ st <= e.goal.ref /\ (Wanted(e) /\ st = e.goal.ref => w.agent.aborted)
  BY <1>3 DEF Mid, Base, Stops
<1>8. CASE reason \in {"completed", "max-tokens"} /\ Pending(e)
  <2> DEFINE b == [e.agent EXCEPT !.aborted = FALSE, !.wake = FALSE]
  <2>1. PICK x : x = [e EXCEPT !.agent.aborted = FALSE, !.agent.wake = FALSE]
    OBVIOUS
  <2>2. TurnEnded(w, reason) = Claimed(x, "nextTurn")
    BY <1>2, <1>8, <2>1 DEF TurnEnded
  <2>3. x = [e EXCEPT !.agent = b] /\ e.agent \in Agents
    BY <1>4, <2>1 DEF Worlds
  <2>4. b \in Agents
    BY <2>3, Zenon DEF Agents
  <2>5. b.phase = "running" /\ b.nextTurn = e.agent.nextTurn /\ b.claimed = e.agent.claimed
    BY <1>3, <2>3 DEF Agents
  <2> HIDE DEF b
  <2>6. x \in Worlds
    BY <1>4, <2>3, <2>4, Zenon DEF Worlds
  <2>7. x.agent = b /\ x.goal = e.goal /\ x.driver = e.driver
    BY <1>4, <2>3 DEF Worlds
  <2>8. ~Wanted(e) \/ st # e.goal.ref
    BY <1>7, <1>8
  <2>9. Mid(x, st, mt)
    <3>1. Shape(x) /\ Attempt(x)
      BY <1>4, <1>5, <2>5, <2>7 DEF Shape, Known, Attempt, Attempting
    <3>2. Stops(x, st)
      BY <1>7, <2>7, <2>8 DEF Stops, Wanted, Armed
    <3>3. ~mt => Queued(x) /\ Owed(x)
      BY <1>6, <2>5, <2>7 DEF Queued, Owed, Wanted, Armed
    <3> QED
      BY <2>6, <3>1, <3>2, <3>3 DEF Mid, Base
  <2>10. PICK m \in Messages, n \in {0, 1} :
            /\ Takes(x, Claimed(x, "nextTurn"), m, n)
            /\ m # Human => n = 1
            /\ n = 1 => x.agent.nextTurn # <<>> /\ m = x.agent.nextTurn[1]
    BY <2>6, ClaimedIs
  <2>11. x.agent.phase = "running"
    BY <2>5, <2>7
  <2>12. PICK v : v = Claimed(x, "nextTurn")
    OBVIOUS
  <2>13. Core(v, st, mt) /\ SameLoops(x, v)
    BY <2>9, <2>10, <2>11, <2>12, ClaimKeeps
  <2>14. Loops(v)
    <3>1. Loops(x)
      BY <1>4, <2>7 DEF Loops, Live
    <3> QED
      BY <3>1, <2>13, SameLoopsKeep
  <2>15. Prompts(w, v, mt) /\ v.agent.pc = "assembling"
    BY <1>1, <1>4, <2>7, <2>10, <2>12, NoPrompt DEF Takes, Marked
  <2> QED
    BY <2>2, <2>12, <2>13, <2>14, <2>15 DEF Good
<1>9. CASE ~(reason \in {"completed", "max-tokens"} /\ Pending(e))
  <2>1. TurnEnded(w, reason) = WentIdle(e)
    BY <1>2, <1>9 DEF TurnEnded
  <2>2. Ending(e, st, mt)
    BY <1>3, <1>4, <1>5, <1>6, <1>7 DEF Ending
  <2>3. Good(e, WentIdle(e), st, mt) /\ WentIdle(e).agent.pc \in {"none", "assembling"}
    BY <1>4, <2>2, WentIdleGood
  <2>4. Prompts(w, WentIdle(e), mt)
    <3>1. e.driver.nested = w.driver.nested
      BY <1>3 DEF SameLoops
    <3> QED
      BY <1>4, <2>3, <3>1 DEF Good, Prompts
  <2> QED
    BY <2>1, <2>3, <2>4 DEF Good
<1> QED
  BY <1>8, <1>9

-----------------------------------------------------------------------------
(* A round that enters, messages and cancels                                *)

\* The round that enters is the one the driver waits for: it marks its attempt as
\* admitted, and takes its number from the goal.
LEMMA AdmittedGood ==
    ASSUME NEW w, NEW st, NEW mt, Core(w, st, mt), Loops(w), w.agent.pc = "outer",
           Taken(w) # Human
    PROVE  Good(w, Admitted(Moved(w, "step")), st, mt)
<1>1. PICK x : x = Moved(w, "step")
  OBVIOUS
<1>2. w \in Worlds
  BY DEF Core, Mid, Base
<1>3. /\ x \in Worlds /\ x.goal = w.goal /\ x.driver = w.driver
      /\ x.agent.phase = w.agent.phase /\ x.agent.pc = "step" /\ x.agent.aborted = w.agent.aborted
      /\ x.agent.nextTurn = w.agent.nextTurn /\ x.agent.claimed = w.agent.claimed
  BY <1>1, <1>2, MovedIs DEF Points
<1> DEFINE m == x.agent.claimed.round
           o == x.driver.attempt
           next == /\ x.goal.phase = "active" /\ m.ref = x.goal.ref
                   /\ m.round = x.goal.rounds + 1 /\ m.round <= x.goal.max
           g == IF next THEN [x.goal EXCEPT !.rounds = m.round, !.durable = FALSE]
                ELSE [x.goal EXCEPT !.phase = "corrupt"]
           p == IF o.id = m.id /\ x.driver.on # "down" THEN "admitted" ELSE o.phase
           b == [o EXCEPT !.phase = p]
           d == [x.driver EXCEPT !.attempt = b, !.outdated = @ + x.driver.flushing, !.flushing = 0]
           v == Admitted(x)
<1>4. /\ x.goal \in Goals /\ x.driver \in Drivers /\ o \in Attempts /\ m \in Messages
      /\ x.goal.ref \in Nat
      /\ x.driver.outdated + x.driver.flushing \in Nat /\ 0 \in Nat
  BY <1>3 DEF Worlds, Drivers, Agents, Claims, Goals
<1>5. v = [x EXCEPT !.goal = g, !.driver = d]
  BY <1>3, <1>4 DEF Worlds, Drivers, Admitted
<1>6. g \in Goals
  <2>1. CASE next
    <3>1. m.round \in 0..MaxRounds
      BY <1>4, <2>1, GoalRoundsAssumption DEF Goals, Messages
    <3>2. [x.goal EXCEPT !.rounds = m.round, !.durable = FALSE] \in Goals
      BY <1>4, <3>1, Zenon DEF Goals
    <3> QED
      BY <2>1, <3>2
  <2>2. CASE ~next
    <3>1. [x.goal EXCEPT !.phase = "corrupt"] \in Goals
      BY <1>4, Zenon DEF Goals, Phases
    <3> QED
      BY <2>2, <3>1
  <2> QED
    BY <2>1, <2>2
<1>7. /\ g.ref = x.goal.ref /\ g.max = x.goal.max /\ g.armed = x.goal.armed
      /\ (g.phase = "active" => next)
  BY <1>4 DEF Goals
<1>8. p \in {"none", "queued", "claimed", "admitted"}
  BY <1>4 DEF Attempts
<1> HIDE DEF g, p
<1>9. b \in Attempts
  BY <1>4, <1>8, Zenon DEF Attempts
<1>10. b.ref = o.ref /\ b.round = o.round /\ b.id = o.id /\ b.phase = p
  BY <1>4 DEF Attempts
<1> HIDE DEF b
<1>11. d \in Drivers
  BY <1>4, <1>9, Zenon DEF Drivers
<1>12. /\ d.attempt = b /\ d.reserved = x.driver.reserved /\ d.on = x.driver.on
       /\ d.nested = x.driver.nested /\ d.run = x.driver.run
       /\ d.needsCheckpoint = x.driver.needsCheckpoint
       /\ d.flushing = 0 /\ d.outdated = x.driver.outdated + x.driver.flushing
       /\ d.settling = x.driver.settling
  BY <1>4 DEF Drivers
<1> HIDE DEF d, v
<1>13. v \in Worlds
  BY <1>3, <1>5, <1>6, <1>11, Zenon DEF Worlds
<1>14. v.goal = g /\ v.driver = d /\ v.agent = x.agent
  BY <1>3, <1>5 DEF Worlds
<1>15. w.driver.attempt = o /\ Taken(w) = m /\ (o.phase = "none" <=> o = NoAttempt)
  BY <1>3 DEF Taken, Core, Mid, Base, Shape
<1>16. m.id > 0 /\ Known(w, m)
  BY <1>15 DEF Core, Mid, Base, Shape, Known, Taken
<1>17. (b.phase = "none" <=> b = NoAttempt) /\ (b = NoAttempt <=> o = NoAttempt)
  <2>1. o.id = m.id => o # NoAttempt
    BY <1>16 DEF NoAttempt
  <2>2. CASE o = NoAttempt
    <3>1. p = "none"
      BY <2>1, <2>2 DEF p, NoAttempt
    <3>2. b = NoAttempt
      BY <2>2, <3>1 DEF b, NoAttempt
    <3> QED
      BY <2>2, <3>1, <3>2, <1>10
  <2>3. CASE o # NoAttempt
    <3>1. p # "none"
      BY <2>3, <1>15 DEF p
    <3> QED
      BY <2>3, <3>1, <1>10 DEF NoAttempt
  <2> QED
    BY <2>2, <2>3
<1>18. SameLoops(w, v)
  <2>1. /\ x.driver.flushing \in Nat /\ x.driver.outdated \in Nat /\ x.driver.settling \in Nat
    BY <1>4 DEF Drivers
  <2> QED
    BY <1>3, <1>12, <1>14, <2>1 DEF SameLoops, Live
<1>19. (Wanted(v) => Wanted(w) /\ next) /\ (Attempting(v) <=> Attempting(w))
  BY <1>3, <1>7, <1>12, <1>14, <1>15, <1>17 DEF Wanted, Armed, Attempting
<1>20. Base(v, st)
  <2>1. \A y : Known(w, y) <=> Known(v, y)
    BY <1>3, <1>7, <1>12, <1>14 DEF Known
  <2>2. Shape(v)
    BY <1>3, <1>12, <1>14, <1>17, <2>1 DEF Core, Mid, Base, Shape
  <2>3. Attempt(v)
    <3>1. x.driver.flushing \in Nat /\ x.driver.outdated \in Nat
      BY <1>4 DEF Drivers
    <3> QED
      BY <1>3, <1>7, <1>10, <1>12, <1>14, <1>15, <1>19, <3>1 DEF Core, Mid, Base, Attempt
  <2>4. Stops(v, st)
    BY <1>3, <1>7, <1>14, <1>19 DEF Core, Mid, Base, Stops
  <2> QED
    BY <1>13, <2>2, <2>3, <2>4 DEF Base
<1>21. ASSUME Wanted(w) PROVE o.phase = "claimed" /\ SameRound(m, o)
  BY <1>15, <1>21 DEF Core, Entering, Own, Wanted
<1>22. ASSUME ~mt PROVE Queued(v) /\ Owed(v)
  <2>1. Queued(v)
    <3> SUFFICES ASSUME Wanted(w), NEW i \in DOMAIN w.agent.nextTurn,
                        w.agent.nextTurn[i] # Human, w.agent.nextTurn[i].ref = w.goal.ref
                 PROVE  FALSE
      BY <1>3, <1>7, <1>14, <1>19 DEF Queued
    <3>1. o.phase = "queued"
      BY <1>15, <1>22 DEF Core, Mid, Queued
    <3> QED
      BY <3>1, <1>21
  <2>2. ASSUME Wanted(v) PROVE b.phase = "admitted" /\ b.ref = v.goal.ref
    <3>1. Wanted(w) /\ m.ref = w.goal.ref /\ w.driver.on # "down"
      BY <1>3, <1>19, <2>2 DEF Wanted
    <3>2. m.id = o.id /\ m.ref = o.ref
      BY <1>15, <1>21, <1>22, <3>1 DEF Core, InHand, SameRound
    <3> QED
      BY <1>3, <1>7, <1>10, <1>14, <3>1, <3>2 DEF p
  <2> QED
    BY <2>1, <2>2, <1>12, <1>14 DEF Owed
<1>23. Looping(v) /\ Entering(v) /\ Gap(v, st) /\ InHand(v) /\ Rested(v)
       /\ v.agent.phase = "running"
  <2>1. w.agent.phase = "running"
    BY DEF Core, Looping
  <2> QED
    BY <1>3, <1>14, <2>1 DEF Looping, Entering, Gap, InHand, Rested
<1>24. Core(v, st, mt)
  BY <1>20, <1>22, <1>23 DEF Core, Mid
<1>25. Loops(v) /\ Prompts(w, v, mt)
  BY <1>2, <1>3, <1>12, <1>14, <1>18, SameLoopsKeep, NoPrompt
<1> QED
  BY <1>1, <1>24, <1>25 DEF Good, v

\* A message that competes with a reservation marks it as stale.
LEMMA CompetesIs ==
    ASSUME NEW w \in Worlds, w.driver.attempt.phase = "none" <=> w.driver.attempt = NoAttempt
    PROVE  LET v == Competes(w)
           IN  Alike(w, v) /\ SameLoops(w, v) /\ v.agent = w.agent
<1> DEFINE a == w.driver.attempt
<1>1. CASE w.driver.on = "down"
  BY <1>1 DEF Competes, Alike, Resembles, SameAttempt, SameLoops
<1>2. CASE w.driver.on # "down"
  <2>1. PICK x : x = (a.stale \/ a.phase = "queued")
    OBVIOUS
  <2> DEFINE b == [a EXCEPT !.stale = x]
             d == [w.driver EXCEPT !.competing = TRUE, !.attempt = b]
             v == Competes(w)
  <2>2. w.driver \in Drivers /\ a \in Attempts
    BY DEF Worlds, Drivers
  <2>3. x \in BOOLEAN /\ (x => a # NoAttempt)
    <3>1. a = NoAttempt => a.stale = FALSE /\ a.phase # "queued"
      BY DEF NoAttempt
    <3>2. x \in BOOLEAN
      BY <2>1
    <3>3. a = NoAttempt => x = FALSE
      BY <2>1, <3>1
    <3> QED
      BY <3>2, <3>3
  <2>4. v = [w EXCEPT !.driver = d]
    BY <1>2, <2>1, <2>2 DEF Competes, Worlds, Drivers, Attempts
  <2>5. /\ b \in Attempts /\ b.ref = a.ref /\ b.round = a.round /\ b.id = a.id
        /\ b.phase = a.phase /\ (b = NoAttempt <=> a = NoAttempt)
    BY <2>2, <2>3, FlagsKeep
  <2> HIDE DEF b
  <2>6. d \in Drivers
    BY <2>2, <2>5, Zenon DEF Drivers
  <2>7. /\ d.attempt = b /\ d.reserved = w.driver.reserved /\ d.on = w.driver.on
        /\ d.nested = w.driver.nested /\ d.run = w.driver.run
        /\ d.needsCheckpoint = w.driver.needsCheckpoint
        /\ d.flushing = w.driver.flushing /\ d.outdated = w.driver.outdated
        /\ d.settling = w.driver.settling
    BY <2>2 DEF Drivers
  <2> HIDE DEF d, v
  <2>8. v \in Worlds
    BY <2>4, <2>6, Zenon DEF Worlds
  <2>9. v.driver = d /\ v.agent = w.agent /\ v.goal = w.goal
    BY <2>4 DEF Worlds
  <2> QED
    BY <2>5, <2>7, <2>8, <2>9 DEF Alike, Resembles, SameAttempt, SameLoops, Live, Taken, v
<1> QED
  BY <1>1, <1>2

\* A message is queued, and wakes its agent.
LEMMA SentGood ==
    ASSUME NEW w, NEW st, NEW mt, Core(w, st, mt), Loops(w), NEW target
    PROVE  Good(w, Sent(w, target), st, mt)
<1>1. w \in Worlds /\ w.agent \in Agents
  BY DEF Core, Mid, Base, Worlds
<1>2. ASSUME NEW x, Alike(w, x), SameLoops(w, x), NEW b \in BOOLEAN,
             w.agent.phase = "idle" => ~b
      PROVE  Good(w, Woken(x, b), st, mt)
  <2>1. Core(x, st, mt) /\ Loops(x) /\ x.agent.phase = w.agent.phase
        /\ x.driver.reserved = w.driver.reserved
    BY <1>2, AlikeKeeps, SameLoopsKeep DEF Alike, Resembles
  <2>2. Core(Woken(x, b), st, mt) /\ Leaves(x, Woken(x, b))
    BY <1>2, <2>1, WokenKeeps DEF Core
  <2> QED
    BY <1>1, <2>1, <2>2, SameLoopsKeep, NoPrompt DEF Leaves, Good
<1>3. PICK late : late = (w.agent.phase # "idle" /\ w.agent.aborted)
  OBVIOUS
<1>4. late \in BOOLEAN /\ (w.agent.phase = "idle" => ~late)
  BY <1>3
<1>5. CASE target = "nextTurn" \/ late
  <2> DEFINE q == Append(w.agent.nextTurn, Human)
             a == [w.agent EXCEPT !.nextTurn = q]
  <2>1. PICK y : y = [w EXCEPT !.agent.nextTurn = Append(@, Human)]
    OBVIOUS
  <2>2. Human \in Messages /\ w.agent.nextTurn \in Seq(Messages)
    BY <1>1 DEF Human, Messages, Agents
  <2>3. PICK l \in Nat : Len(w.agent.nextTurn) = l /\ DOMAIN w.agent.nextTurn = 1..l
    BY <2>2, LenProperties
  <2>4. /\ q \in Seq(Messages) /\ Len(q) = l + 1 /\ q[l + 1] = Human
        /\ \A i \in 1..l : q[i] = w.agent.nextTurn[i]
    BY <2>2, <2>3, AppendProperties
  <2>5. DOMAIN q = 1..(l + 1)
    BY <2>4, LenProperties
  <2>6. y = [w EXCEPT !.agent = a]
    BY <1>1, <2>1 DEF Worlds
  <2> HIDE DEF q
  <2>7. a \in Agents
    BY <1>1, <2>4, Zenon DEF Agents
  <2>8. /\ a.nextTurn = q /\ a.phase = w.agent.phase /\ a.pc = w.agent.pc
        /\ a.claimed = w.agent.claimed /\ a.aborted = w.agent.aborted
    BY <1>1 DEF Agents
  <2> HIDE DEF a
  <2>9. y \in Worlds
    BY <1>1, <2>6, <2>7, Zenon DEF Worlds
  <2>10. y.agent = a /\ y.driver = w.driver /\ y.goal = w.goal
    BY <1>1, <2>6 DEF Worlds
  <2>11. \A i \in DOMAIN q : q[i] = Human \/ (i \in DOMAIN w.agent.nextTurn
                                             /\ q[i] = w.agent.nextTurn[i])
    <3> SUFFICES ASSUME NEW i \in DOMAIN q
                 PROVE  q[i] = Human \/ (i \in DOMAIN w.agent.nextTurn
                                         /\ q[i] = w.agent.nextTurn[i])
      OBVIOUS
    <3>1. i \in 1..l \/ i = l + 1
      BY <2>5
    <3> QED
      BY <3>1, <2>3, <2>4
  <2>12. Alike(w, y) /\ SameLoops(w, y)
    BY <2>8, <2>9, <2>10, <2>11 DEF Alike, Resembles, SameAttempt, SameLoops, Live, Taken
  <2>13. PICK x : x = Competes(y)
    OBVIOUS
  <2>14. Alike(y, x) /\ SameLoops(y, x) /\ x.agent = y.agent
    BY <2>9, <2>10, <2>13, CompetesIs DEF Core, Mid, Base, Shape
  <2>15. Alike(w, x) /\ SameLoops(w, x)
    BY <2>12, <2>14 DEF Alike, Resembles, SameAttempt, SameLoops, Taken
  <2>16. Sent(w, target) = Woken(x, late)
    BY <1>3, <1>5, <2>1, <2>13 DEF Sent
  <2> QED
    BY <1>2, <1>4, <2>15, <2>16
<1>6. CASE ~(target = "nextTurn" \/ late)
  <2> DEFINE a == [w.agent EXCEPT !.nextStep = @ + 1]
  <2>1. PICK y : y = [w EXCEPT !.agent.nextStep = @ + 1]
    OBVIOUS
  <2>2. y = [w EXCEPT !.agent = a] /\ w.agent.nextStep + 1 \in Nat
    BY <1>1, <2>1 DEF Worlds, Agents
  <2>3. a \in Agents
    BY <1>1, <2>2, Zenon DEF Agents
  <2>4. /\ a.nextTurn = w.agent.nextTurn /\ a.phase = w.agent.phase /\ a.pc = w.agent.pc
        /\ a.claimed = w.agent.claimed /\ a.aborted = w.agent.aborted
    BY <1>1 DEF Agents
  <2> HIDE DEF a
  <2>5. y \in Worlds
    BY <1>1, <2>2, <2>3, Zenon DEF Worlds
  <2>6. y.agent = a /\ y.driver = w.driver /\ y.goal = w.goal
    BY <1>1, <2>2 DEF Worlds
  <2>7. Alike(w, y) /\ SameLoops(w, y)
    BY <2>4, <2>5, <2>6 DEF Alike, Resembles, SameAttempt, SameLoops, Live, Taken
  <2>8. Sent(w, target) = Woken(y, FALSE)
    BY <1>3, <1>6, <2>1 DEF Sent
  <2> QED
    BY <1>2, <2>7, <2>8
<1> QED
  BY <1>5, <1>6

\* A cancel clears the inbox, marks the attempt it clears, and aborts what goes on.
LEMMA CancelledIs ==
    ASSUME NEW w \in Worlds, NEW keep \in BOOLEAN,
           w.driver.attempt.phase = "none" <=> w.driver.attempt = NoAttempt
    PROVE  LET v == Cancelled(w, keep)
           IN  /\ Alike(w, v) /\ SameLoops(w, v)
               /\ w.agent.phase # "idle" => v.agent.aborted
<1> DEFINE a == w.driver.attempt
<1>1. w.driver \in Drivers /\ a \in Attempts /\ w.agent \in Agents
  BY DEF Worlds, Drivers
<1>2. PICK own : own = \E i \in DOMAIN w.agent.nextTurn : Own(w, w.agent.nextTurn[i])
  OBVIOUS
<1>3. own \in BOOLEAN /\ (own => a # NoAttempt)
  BY <1>2 DEF Own, Attempting
<1>4. PICK c : c = IF keep THEN w
                   ELSE [w EXCEPT !.agent.nextStep = 0, !.agent.nextTurn = <<>>,
                                  !.agent.wake = FALSE,
                                  !.driver.attempt.cancelled = @ \/ own]
  OBVIOUS
<1>5. Alike(w, c) /\ SameLoops(w, c)
  <2>1. CASE keep
    BY <1>4, <2>1 DEF Alike, Resembles, SameAttempt, SameLoops
  <2>2. CASE ~keep
    <3>1. PICK x : x = (a.cancelled \/ own)
      OBVIOUS
    <3> DEFINE b == [a EXCEPT !.cancelled = x]
               d == [w.driver EXCEPT !.attempt = b]
               g == [w.agent EXCEPT !.nextStep = 0, !.nextTurn = <<>>, !.wake = FALSE]
    <3>2. x \in BOOLEAN /\ (x => a # NoAttempt)
      <4>1. a = NoAttempt => a.cancelled = FALSE /\ own = FALSE
        BY <1>3 DEF NoAttempt
      <4>2. x \in BOOLEAN
        BY <3>1
      <4>3. a = NoAttempt => x = FALSE
        BY <3>1, <4>1
      <4> QED
        BY <4>2, <4>3
    <3>3. c = [w EXCEPT !.driver = d, !.agent = g]
      BY <1>1, <1>4, <2>2, <3>1 DEF Worlds, Drivers, Attempts
    <3>4. /\ b \in Attempts /\ b.ref = a.ref /\ b.round = a.round /\ b.id = a.id
          /\ b.phase = a.phase /\ (b = NoAttempt <=> a = NoAttempt)
      BY <1>1, <3>2, FlagsKeep
    <3> HIDE DEF b
    <3>5. d \in Drivers
      BY <1>1, <3>4, Zenon DEF Drivers
    <3>6. <<>> \in Seq(Messages) /\ 0 \in Nat /\ DOMAIN <<>> = {}
      BY EmptySeq
    <3>7. g \in Agents
      BY <1>1, <3>6, Zenon DEF Agents
    <3>8. /\ d.attempt = b /\ d.reserved = w.driver.reserved /\ d.on = w.driver.on
          /\ d.nested = w.driver.nested /\ d.run = w.driver.run
          /\ d.needsCheckpoint = w.driver.needsCheckpoint
          /\ d.flushing = w.driver.flushing /\ d.outdated = w.driver.outdated
          /\ d.settling = w.driver.settling
      BY <1>1 DEF Drivers
    <3>9. /\ g.nextTurn = <<>> /\ g.phase = w.agent.phase /\ g.pc = w.agent.pc
          /\ g.claimed = w.agent.claimed /\ g.aborted = w.agent.aborted
      BY <1>1 DEF Agents
    <3> HIDE DEF d, g
    <3>10. c \in Worlds
      BY <3>3, <3>5, <3>7, Zenon DEF Worlds
    <3>11. c.driver = d /\ c.agent = g /\ c.goal = w.goal
      BY <3>3 DEF Worlds
    <3>12. \A i \in DOMAIN c.agent.nextTurn : FALSE
      BY <3>6, <3>9, <3>11
    <3> QED
      BY <3>4, <3>8, <3>9, <3>10, <3>11, <3>12
         DEF Alike, Resembles, SameAttempt, SameLoops, Live, Taken
  <2> QED
    BY <2>1, <2>2
<1>6. PICK y : y = (c.agent.aborted \/ w.agent.phase # "idle")
  OBVIOUS
<1>7. PICK v : v = [c EXCEPT !.agent.aborted = y]
  OBVIOUS
<1> DEFINE e == [c.agent EXCEPT !.aborted = y]
<1>8. c \in Worlds /\ c.agent \in Agents /\ y \in BOOLEAN
  BY <1>5, <1>6 DEF Alike, Resembles, Worlds
<1>9. v = [c EXCEPT !.agent = e]
  BY <1>7, <1>8 DEF Worlds
<1>10. e \in Agents
  BY <1>8, Zenon DEF Agents
<1>11. /\ e.nextTurn = c.agent.nextTurn /\ e.phase = c.agent.phase /\ e.pc = c.agent.pc
       /\ e.claimed = c.agent.claimed /\ e.aborted = y
  BY <1>8 DEF Agents
<1> HIDE DEF e
<1>12. v \in Worlds
  BY <1>8, <1>9, <1>10, Zenon DEF Worlds
<1>13. v.agent = e /\ v.driver = c.driver /\ v.goal = c.goal
  BY <1>8, <1>9 DEF Worlds
<1>14. Alike(c, v) /\ SameLoops(c, v)
  BY <1>6, <1>11, <1>12, <1>13 DEF Alike, Resembles, SameAttempt, SameLoops, Live, Taken
<1>15. Alike(w, v) /\ SameLoops(w, v) /\ (w.agent.phase # "idle" => v.agent.aborted)
  BY <1>5, <1>6, <1>11, <1>13, <1>14 DEF Alike, Resembles, SameAttempt, SameLoops, Taken
<1>16. Cancelled(w, keep) = v
  BY <1>2, <1>4, <1>6, <1>7, <1>8 DEF Cancelled, Worlds, Agents
<1> QED
  BY <1>15, <1>16

\* A cancel stops the change it catches.
LEMMA CancelledStops ==
    ASSUME NEW w, NEW st, NEW mt, Core(w, st, mt), w.agent.phase = "running", w.agent.aborted
    PROVE  Core(w, w.goal.ref, mt)
<1>1. w.goal.ref \in Nat
  BY DEF Core, Mid, Base, Worlds, Goals
<1>2. Stops(w, w.goal.ref) /\ Gap(w, w.goal.ref)
  BY <1>1 DEF Stops, Gap
<1> QED
  BY <1>2 DEF Core, Mid, Base

-----------------------------------------------------------------------------
(* Steps                                                                    *)

\* The inductive invariant.
Inv ==
    /\ Core(World, stopped, maintained) /\ Loops(World)
    /\ maintained \in BOOLEAN /\ disturbances \in 0..MaxDisturbances

\* What a step keeps of it, beside the counts of the environment.
Kept ==
    /\ Core(World, stopped, maintained)' /\ Loops(World)'
    /\ Prompts(World, World', maintained)

\* A step becomes the world its handler returns.
LEMMA BecomeIs ==
    ASSUME NEW v \in Worlds, Become(v)
    PROVE  World' = v
BY DEF Worlds, World, Become

\* What the operators keep the step keeps.
LEMMA GoodSteps ==
    ASSUME NEW v, Become(v), Good(World, v, stopped', maintained')
    PROVE  maintained' = maintained => Kept
<1>1. World' = v
  BY BecomeIs DEF Good, Core, Mid, Base
<1> QED
  BY <1>1 DEF Good, Kept

\* A change of the goal, its limit and its count of rounds.
LEMMA GoalIs ==
    ASSUME NEW w \in Worlds, NEW n \in 0..MaxRounds, NEW k \in 1..MaxRounds
    PROVE  LET x == [w EXCEPT !.goal.rounds = n, !.goal.max = k]
           IN  /\ x \in Worlds /\ x.agent = w.agent /\ x.driver = w.driver
               /\ x.goal.ref = w.goal.ref
<1> DEFINE g == [w.goal EXCEPT !.rounds = n, !.max = k]
           x == [w EXCEPT !.goal.rounds = n, !.goal.max = k]
<1>1. x = [w EXCEPT !.goal = g] /\ w.goal \in Goals
  BY DEF Worlds, Goals
<1>2. g \in Goals
  BY <1>1, Zenon DEF Goals
<1>3. g.ref = w.goal.ref
  BY <1>1 DEF Goals
<1> HIDE DEF g, x
<1>4. x \in Worlds
  BY <1>1, <1>2, Zenon DEF Worlds
<1>5. x.agent = w.agent /\ x.driver = w.driver /\ x.goal = g
  BY <1>1 DEF Worlds
<1> QED
  BY <1>3, <1>4, <1>5 DEF x

\* The user and the goal tools change the goal only where no round stands in front
\* of its step.
LEMMA ChangeSteps ==
    ASSUME Inv, NEW n \in 0..MaxRounds, NEW k \in 1..MaxRounds, NEW p \in Phases, NEW a \in BOOLEAN,
           Change(Changed([World EXCEPT !.goal.rounds = n, !.goal.max = k], p, a))
    PROVE  Kept
<1>1. PICK x : x = [World EXCEPT !.goal.rounds = n, !.goal.max = k]
  OBVIOUS
<1>2. PICK v : v = Changed(x, p, a)
  OBVIOUS
<1>3. World \in Worlds /\ Core(World, stopped, maintained) /\ Loops(World)
  BY DEF Inv, Core, Mid, Base
<1>4. /\ Become(v) /\ stopped' = stopped /\ maintained' = maintained
      /\ World.agent.pc # "outer" \/ UpstreamHooks
  BY <1>1, <1>2 DEF Change, Undisturbed, Interruptible, World
<1>5. /\ x \in Worlds /\ x.agent = World.agent /\ x.driver = World.driver
      /\ x.goal.ref = World.goal.ref
  BY <1>1, <1>3, GoalIs
<1>6. Good(World, v, stopped, maintained)
  BY <1>2, <1>3, <1>4, <1>5, ChangedGood
<1> QED
  BY <1>4, <1>6, GoodSteps

\* Every mutation of the goal is such a change.
LEMMA MutateSteps ==
    ASSUME Inv, Mutate
    PROVE  Kept
<1>1. World \in Worlds /\ World.goal = goal /\ goal \in Goals
  BY DEF Inv, Core, Mid, Base, World, Worlds
<1>2. goal.rounds \in 0..MaxRounds /\ goal.max \in 1..MaxRounds /\ 0 \in 0..MaxRounds
      /\ goal.phase \in Phases /\ goal.armed \in BOOLEAN
  BY <1>1, GoalRoundsAssumption DEF Goals
<1>3. World = [World EXCEPT !.goal.rounds = goal.rounds, !.goal.max = goal.max]
  BY <1>1 DEF Worlds, Goals
<1>4. \A n, k : /\ [World EXCEPT !.goal.max = k]
                   = [World EXCEPT !.goal.rounds = goal.rounds, !.goal.max = k]
                /\ [World EXCEPT !.goal.rounds = n]
                   = [World EXCEPT !.goal.rounds = n, !.goal.max = goal.max]
  BY <1>1 DEF Worlds, Goals
<1>5. {"active", "paused", "blocked", "complete", "none"} \subseteq Phases
  BY DEF Phases
<1>6. ASSUME NEW max \in 1..MaxRounds, Create(max) PROVE Kept
  <2>1. Change(Changed([World EXCEPT !.goal.rounds = 0, !.goal.max = max], "active", TRUE))
    BY <1>6 DEF Create
  <2> QED
    BY <1>2, <1>5, <2>1, ChangeSteps
<1>7. ASSUME NEW max \in 1..MaxRounds, Edit(max) PROVE Kept
  <2>1. Change(Changed([World EXCEPT !.goal.rounds = goal.rounds, !.goal.max = max],
                       goal.phase, goal.armed))
    BY <1>4, <1>7 DEF Edit
  <2> QED
    BY <1>2, <2>1, ChangeSteps
<1>8. ASSUME NEW p \in Phases, NEW a \in BOOLEAN, Change(Changed(World, p, a)) PROVE Kept
  <2>1. Change(Changed([World EXCEPT !.goal.rounds = goal.rounds, !.goal.max = goal.max], p, a))
    BY <1>3, <1>8
  <2> QED
    BY <1>2, <2>1, ChangeSteps
<1>9. ASSUME Clear PROVE Kept
  <2>1. Change(Changed([World EXCEPT !.goal.rounds = 0, !.goal.max = goal.max], "none", FALSE))
    BY <1>4, <1>9 DEF Clear
  <2> QED
    BY <1>2, <1>5, <2>1, ChangeSteps
<1>10. CASE Pause
  BY <1>5, <1>8, <1>10 DEF Pause
<1>11. CASE Resume
  BY <1>5, <1>8, <1>11 DEF Resume
<1>12. CASE Complete
  BY <1>5, <1>8, <1>12 DEF Complete
<1>13. CASE Block
  BY <1>5, <1>8, <1>13 DEF Block
<1> QED
  BY <1>6, <1>7, <1>9, <1>10, <1>11, <1>12, <1>13 DEF Mutate

\* Messages only mark a reservation as stale.
LEMMA SendSteps ==
    ASSUME Inv, NEW t, Send(t)
    PROVE  Kept
BY SentGood, GoodSteps DEF Send, Disturbed, Inv

\* A cancel catches an attempt only where the turn that carries it is aborted with it.
LEMMA CancelSteps ==
    ASSUME Inv, NEW keep \in BOOLEAN, Cancel(keep)
    PROVE  Kept
<1>1. PICK v : v = Cancelled(World, keep)
  OBVIOUS
<1>2. /\ Become(v) /\ maintained' = maintained
      /\ stopped' = IF Attempting(World) /\ ~Idle(World) THEN goal.ref ELSE stopped
  BY <1>1 DEF Cancel
<1>3. /\ World \in Worlds /\ Core(World, stopped, maintained) /\ Loops(World)
      /\ (World.driver.attempt.phase = "none" <=> World.driver.attempt = NoAttempt)
      /\ World.agent.phase \in {"idle", "maintenance", "running"} /\ World.goal = goal
  BY DEF Inv, Core, Mid, Base, Shape, Worlds, Agents, World
<1>4. Alike(World, v) /\ SameLoops(World, v) /\ (World.agent.phase # "idle" => v.agent.aborted)
  BY <1>1, <1>3, CancelledIs
<1>5. Core(v, stopped, maintained) /\ Loops(v)
  BY <1>3, <1>4, AlikeKeeps, SameLoopsKeep
<1>6. Core(v, stopped', maintained)
  <2>1. CASE Attempting(World) /\ ~Idle(World)
    <3>1. v.agent.phase = "running" /\ v.agent.aborted /\ v.goal.ref = goal.ref
      BY <1>3, <1>4, <2>1 DEF Idle, Alike, Resembles
    <3> QED
      BY <1>2, <1>5, <2>1, <3>1, CancelledStops
  <2>2. CASE ~(Attempting(World) /\ ~Idle(World))
    BY <1>2, <1>5, <2>2
  <2> QED
    BY <2>1, <2>2
<1>7. Prompts(World, v, maintained)
  BY <1>3, <1>4, NoPrompt DEF Alike, Resembles
<1> QED
  BY <1>2, <1>5, <1>6, <1>7, GoodSteps DEF Good

\* Maintenance holds an idle agent; behind it the agent may be woken.
LEMMA MaintenanceSteps ==
    ASSUME Inv, MaintenanceStarts \/ MaintenanceEnds
    PROVE  Kept
<1>1. World \in Worlds /\ Core(World, stopped, maintained) /\ Loops(World)
      /\ World.agent = agent /\ World.driver = driver /\ World.goal = goal /\ agent \in Agents
  BY DEF Inv, Core, Mid, Base, World, Worlds
<1> DEFINE H(q) == [World EXCEPT !.agent = [agent EXCEPT !.phase = q, !.aborted = FALSE,
                                                         !.wake = FALSE]]
<1>2. ASSUME NEW q \in {"idle", "maintenance"}, agent.phase \in {"idle", "maintenance"}
      PROVE  Core(H(q), stopped, TRUE) /\ SameLoops(World, H(q)) /\ H(q).driver = driver
  <2> DEFINE v == H(q)
  <2> DEFINE a == [agent EXCEPT !.phase = q, !.aborted = FALSE, !.wake = FALSE]
  <2>1. a \in Agents
    BY <1>1, Zenon DEF Agents
  <2>2. /\ a.phase = q /\ a.pc = agent.pc /\ a.nextTurn = agent.nextTurn
        /\ a.claimed = agent.claimed
    BY <1>1 DEF Agents
  <2> HIDE DEF a
  <2>3. v = [World EXCEPT !.agent = a]
    BY DEF a
  <2> HIDE DEF v
  <2>4. v \in Worlds
    BY <1>1, <2>1, <2>3, Zenon DEF Worlds
  <2>5. v.agent = a /\ v.goal = goal /\ v.driver = driver
    BY <1>1, <2>3 DEF Worlds
  <2>6. Shape(v) /\ Attempt(v)
    BY <1>1, <2>2, <2>5 DEF Core, Mid, Base, Shape, Known, Attempt, Attempting
  <2>7. Stops(v, stopped)
    BY <1>1, <1>2, <2>5 DEF Core, Mid, Base, Stops, Wanted, Armed
  <2>8. a.pc = "none"
    BY <1>1, <1>2, <2>2 DEF Core, Looping
  <2>9. Looping(v) /\ Entering(v) /\ Gap(v, stopped)
    BY <2>2, <2>5, <2>8 DEF Looping, Entering, Gap
  <2> QED
    BY <1>1, <2>4, <2>5, <2>6, <2>7, <2>9 DEF Core, Mid, Base, SameLoops, Live, v
<1>3. CASE MaintenanceStarts
  <2>1. PICK v : v = H("maintenance")
    OBVIOUS
  <2>2. v = World' /\ maintained' = TRUE /\ stopped' = stopped
    BY <1>3, <2>1 DEF MaintenanceStarts, World
  <2>3. Core(v, stopped, TRUE) /\ SameLoops(World, v) /\ v.driver = driver
    <3>1. agent.phase \in {"idle", "maintenance"}
      BY <1>3 DEF MaintenanceStarts
    <3>2. /\ Core(H("maintenance"), stopped, TRUE) /\ SameLoops(World, H("maintenance"))
          /\ H("maintenance").driver = driver
      BY <1>2, <3>1
    <3> QED
      BY <2>1, <3>2
  <2>4. Loops(v) /\ Prompts(World, v, maintained)
    BY <1>1, <2>3, SameLoopsKeep, NoPrompt
  <2> QED
    BY <2>2, <2>3, <2>4 DEF Kept
<1>4. CASE MaintenanceEnds
  <2>1. PICK w : w = [World EXCEPT !.agent.phase = "idle", !.agent.aborted = FALSE,
                                   !.agent.wake = FALSE]
    OBVIOUS
  <2>2. w = H("idle")
    BY <1>1, <2>1 DEF Worlds
  <2>3. Core(w, stopped, TRUE) /\ SameLoops(World, w) /\ w.driver = driver
    <3>1. agent.phase \in {"idle", "maintenance"}
      BY <1>4 DEF MaintenanceEnds
    <3>2. Core(H("idle"), stopped, TRUE) /\ SameLoops(World, H("idle")) /\ H("idle").driver = driver
      BY <1>2, <3>1
    <3> QED
      BY <2>2, <3>2
  <2>4. maintained = TRUE /\ maintained' = maintained /\ stopped' = stopped
    BY <1>1, <1>4 DEF Inv, Core, MaintenanceEnds, Undisturbed
  <2>5. Core(Woken(w, FALSE), stopped, TRUE) /\ Leaves(w, Woken(w, FALSE))
    BY <2>3, WokenKeeps DEF Core
  <2>6. PICK v \in {w, Woken(w, FALSE)} : Become(v)
    BY <1>4, <2>1 DEF MaintenanceEnds
  <2>7. Core(v, stopped', maintained') /\ SameLoops(World, v)
        /\ v.driver.reserved = World.driver.reserved
    BY <1>1, <2>3, <2>4, <2>5, <2>6 DEF Leaves, SameLoops
  <2>8. Good(World, v, stopped', maintained')
    BY <1>1, <2>7, SameLoopsKeep, NoPrompt DEF Good
  <2> QED
    BY <2>4, <2>6, <2>8, GoodSteps
<1> QED
  BY <1>3, <1>4

\* One pass of kind c less, and what it stored.
Less(w, c, b) == [w EXCEPT !.driver[c] = @ - 1, !.goal.durable = b]

\* One pass less is live, and the driver's part of the world is otherwise as before.
LEMMA LessIs ==
    ASSUME NEW w \in Worlds, NEW c \in {"flushing", "outdated", "settling"}, w.driver[c] > 0,
           NEW b \in BOOLEAN
    PROVE  LET v == Less(w, c, b) IN
           /\ v \in Worlds /\ v.agent = w.agent /\ SameDriver(w, v) /\ Live(v) = Live(w) - 1
           /\ v.driver.run = w.driver.run /\ v.driver.needsCheckpoint = w.driver.needsCheckpoint
           /\ v.driver.flushing = IF c = "flushing" THEN w.driver.flushing - 1 ELSE w.driver.flushing
           /\ v.driver.outdated = IF c = "outdated" THEN w.driver.outdated - 1 ELSE w.driver.outdated
           /\ v.goal.phase = w.goal.phase /\ v.goal.ref = w.goal.ref /\ v.goal.armed = w.goal.armed
           /\ v.goal.rounds = w.goal.rounds /\ v.goal.max = w.goal.max /\ v.goal.durable = b
<1> DEFINE v == Less(w, c, b)
           g == [w.goal EXCEPT !.durable = b]
           d == [w.driver EXCEPT ![c] = @ - 1]
<1>1. /\ w.goal \in Goals /\ w.driver \in Drivers
      /\ w.driver.flushing \in Nat /\ w.driver.outdated \in Nat /\ w.driver.settling \in Nat
  BY DEF Worlds, Drivers
<1>2. v = [w EXCEPT !.goal = g, !.driver = d]
  BY DEF Worlds, Less
<1> HIDE DEF v
<1>3. w.driver[c] \in Nat /\ w.driver[c] - 1 \in Nat
  BY <1>1
<1>4. d = CASE c = "flushing" -> [w.driver EXCEPT !.flushing = w.driver[c] - 1]
            [] c = "outdated" -> [w.driver EXCEPT !.outdated = w.driver[c] - 1]
            [] c = "settling" -> [w.driver EXCEPT !.settling = w.driver[c] - 1]
  OBVIOUS
<1>5. d \in Drivers
  <2>1. /\ [w.driver EXCEPT !.flushing = w.driver[c] - 1] \in Drivers
        /\ [w.driver EXCEPT !.outdated = w.driver[c] - 1] \in Drivers
        /\ [w.driver EXCEPT !.settling = w.driver[c] - 1] \in Drivers
    BY <1>1, <1>3, Zenon DEF Drivers
  <2> QED
    BY <1>4, <2>1
<1>6. g \in Goals
  BY <1>1, Zenon DEF Goals
<1>7. /\ g.phase = w.goal.phase /\ g.ref = w.goal.ref /\ g.armed = w.goal.armed
      /\ g.rounds = w.goal.rounds /\ g.max = w.goal.max /\ g.durable = b
  BY <1>1 DEF Goals
<1>8. /\ d.attempt = w.driver.attempt /\ d.reserved = w.driver.reserved /\ d.on = w.driver.on
      /\ d.nested = w.driver.nested /\ d.run = w.driver.run
      /\ d.needsCheckpoint = w.driver.needsCheckpoint
      /\ d.flushing = IF c = "flushing" THEN w.driver.flushing - 1 ELSE w.driver.flushing
      /\ d.outdated = IF c = "outdated" THEN w.driver.outdated - 1 ELSE w.driver.outdated
      /\ d.settling = IF c = "settling" THEN w.driver.settling - 1 ELSE w.driver.settling
  BY <1>1, <1>4 DEF Drivers
<1> HIDE DEF g, d
<1>9. v \in Worlds
  BY <1>2, <1>5, <1>6, Zenon DEF Worlds
<1>10. v.goal = g /\ v.driver = d /\ v.agent = w.agent
  BY <1>2 DEF Worlds
<1>11. Live(v) = Live(w) - 1
  <2>1. /\ v.driver.flushing = d.flushing /\ v.driver.outdated = d.outdated
        /\ v.driver.settling = d.settling
    BY <1>10
  <2>2. CASE c = "flushing"
    BY <1>1, <1>8, <2>1, <2>2 DEF Live
  <2>3. CASE c = "outdated"
    BY <1>1, <1>8, <2>1, <2>3 DEF Live
  <2>4. CASE c = "settling"
    BY <1>1, <1>8, <2>1, <2>4 DEF Live
  <2> QED
    BY <2>2, <2>3, <2>4
<1> QED
  BY <1>7, <1>8, <1>9, <1>10, <1>11 DEF SameDriver, v

\* The loop that goes on behind a pass takes its place.
LEMMA AdvancesGood ==
    ASSUME NEW w, NEW x, NEW v, NEW st, NEW mt, w \in Worlds, x \in Worlds, Loops(w), Core(v, st, mt),
           Live(w) > 0, Live(x) = Live(w) - 1, x.driver.run = w.driver.run,
           x.driver.nested = w.driver.nested, x.driver.reserved = w.driver.reserved,
           Advances(x, v, mt)
    PROVE  Good(w, v, st, mt)
<1>1. Live(w) \in Nat /\ v \in Worlds
  BY LiveIsNat DEF Core, Mid, Base
<1>2. Loops(v)
  BY <1>1 DEF Advances, Loops
<1>3. Prompts(w, v, mt)
  BY DEF Advances, Prompts
<1> QED
  BY <1>2, <1>3 DEF Good

\* A place is free behind a pass.
LEMMA SlotBehind ==
    ASSUME NEW w \in Worlds, Loops(w), Live(w) > 0, NEW x, Live(x) = Live(w) - 1,
           x.driver.nested = w.driver.nested
    PROVE  Slot(x)
BY LiveIsNat DEF Slot, Loops

\* A checkpoint that ends lets its loop go on; one that fails disarms the goal. No round
\* stands in front of its step then: its reservation asked for the checkpoint before.
LEMMA FlushSteps ==
    ASSUME Inv, NEW ok \in BOOLEAN, FlushEnds(ok)
    PROVE  Kept
<1>1. /\ World \in Worlds /\ Core(World, stopped, maintained) /\ Loops(World)
      /\ World.driver = driver /\ World.goal = goal
      /\ driver.flushing \in Nat /\ driver.outdated \in Nat /\ driver.settling \in Nat
      /\ goal.durable \in BOOLEAN
  BY DEF Inv, Core, Mid, Base, World, Worlds, Drivers, Goals
<1>2. PICK c \in {"flushing", "outdated"} :
          /\ driver[c] > 0
          /\ LET w == [World EXCEPT !.driver[c] = @ - 1,
                                    !.goal.durable = @ \/ (ok /\ c = "flushing")]
             IN  Become(Settling(IF ~ok THEN Disarmed(w)
                                 ELSE IF Ready(w) /\ ~w.driver.needsCheckpoint
                                 THEN DroveOn(w) ELSE w))
  BY DEF FlushEnds
<1>3. maintained' = maintained /\ stopped' = stopped
  BY DEF FlushEnds, Undisturbed, Disturbed
<1>4. PICK b : b = (goal.durable \/ (ok /\ c = "flushing"))
  OBVIOUS
<1>5. b \in BOOLEAN
  BY <1>4
<1>6. PICK w : w = Less(World, c, b)
  OBVIOUS
<1>7. PICK x : x = IF ~ok THEN Disarmed(w)
                   ELSE IF Ready(w) /\ ~w.driver.needsCheckpoint THEN DroveOn(w) ELSE w
  OBVIOUS
<1>8. Become(Settling(x))
  <2>1. w = [World EXCEPT !.driver[c] = @ - 1, !.goal.durable = @ \/ (ok /\ c = "flushing")]
    BY <1>1, <1>4, <1>6 DEF Worlds, Less
  <2> QED
    BY <1>2, <1>7, <2>1
<1>9. World.driver[c] > 0
  BY <1>1, <1>2
<1>10. /\ w \in Worlds /\ w.agent = World.agent /\ SameDriver(World, w) /\ Live(w) = Live(World) - 1
       /\ w.driver.run = World.driver.run
       /\ w.driver.needsCheckpoint = World.driver.needsCheckpoint
       /\ w.driver.flushing = IF c = "flushing" THEN driver.flushing - 1 ELSE driver.flushing
       /\ w.driver.outdated = IF c = "outdated" THEN driver.outdated - 1 ELSE driver.outdated
       /\ w.goal.phase = goal.phase /\ w.goal.ref = goal.ref /\ w.goal.armed = goal.armed
       /\ w.goal.rounds = goal.rounds /\ w.goal.max = goal.max /\ w.goal.durable = b
  <2>1. c \in {"flushing", "outdated", "settling"}
    OBVIOUS
  <2> QED
    BY <1>1, <1>5, <1>6, <1>9, <2>1, LessIs
<1>11. Live(World) > 0
  BY <1>1, <1>9 DEF Live
<1>12. Slot(w)
  BY <1>1, <1>10, <1>11, SlotBehind DEF SameDriver
<1>13. Wanted(w) = Wanted(World) /\ Attempting(w) = Attempting(World)
  BY <1>1, <1>10 DEF Wanted, Armed, Attempting, SameDriver
<1>14. Base(w, stopped) /\ Looping(w) /\ Entering(w) /\ Gap(w, stopped)
  <2>1. Shape(w)
    BY <1>1, <1>10 DEF Core, Mid, Base, Shape, Known, SameDriver
  <2>2. Attempt(w)
    <3>1. driver.flushing + driver.outdated # 0
      BY <1>1, <1>2
    <3> QED
      BY <1>1, <1>10, <1>13, <3>1 DEF Core, Mid, Base, Attempt, SameDriver
  <2>3. Stops(w, stopped)
    BY <1>1, <1>10, <1>13 DEF Core, Mid, Base, Stops
  <2>4. Looping(w) /\ Entering(w) /\ Gap(w, stopped)
    BY <1>1, <1>10, <1>13 DEF Core, Looping, Entering, Gap, Own, Taken, SameDriver
  <2> QED
    BY <1>10, <2>1, <2>2, <2>3, <2>4 DEF Base
<1>15. CASE ~ok
  <2>1. x = Disarmed(w)
    BY <1>7, <1>15
  <2>2. /\ x \in Worlds /\ x.agent = w.agent /\ x.driver = w.driver
        /\ x.goal.ref = w.goal.ref /\ x.goal.max = w.goal.max /\ ~x.goal.armed
        /\ x.goal.phase = w.goal.phase /\ x.goal.rounds = w.goal.rounds
    BY <1>10, <2>1, DisarmedIs
  <2>3. Resembles(w, x)
    BY <2>2 DEF Resembles, SameAttempt, Taken
  <2>4. Gap(x, stopped)
    <3>1. CASE w.agent.pc # "outer" \/ UpstreamHooks \/ w.driver.nested
      BY <1>14, <2>2, <3>1 DEF Gap, Taken
    <3>2. CASE w.agent.pc = "outer" /\ ~UpstreamHooks /\ ~w.driver.nested
      <4>1. /\ driver.flushing + driver.outdated # 0 /\ ~World.driver.nested
            /\ World.agent.pc = "outer"
        BY <1>1, <1>2, <1>10, <3>2 DEF SameDriver
      <4>2. ~(Attempting(World) /\ World.driver.attempt.ref = World.goal.ref)
        BY <1>1, <4>1 DEF Core, Mid, Base, Attempt
      <4>3. World.driver.on = "down" \/ Taken(World) = Human \/ World.agent.aborted
        BY <1>1, <3>2, <4>1, <4>2 DEF Core, Gap, Entering, Own, SameRound
      <4> QED
        BY <1>10, <2>2, <4>3 DEF Gap, Taken, SameDriver
    <3> QED
      BY <3>1, <3>2
  <2>5. w.agent.phase = "maintenance" => maintained
    BY <1>1, <1>10 DEF Core
  <2>6. Core(x, stopped, maintained)
    BY <1>14, <2>2, <2>3, <2>4, <2>5, UnwantedKeeps
  <2>7. Passes(w, x, maintained) /\ (~Idle(w) => x.agent = w.agent)
    BY <1>10, <2>2, LiveIsNat DEF Passes, Starts, Prompts, Live, AtPoint
  <2>8. Core(Settling(x), stopped, maintained) /\ Advances(w, Settling(x), maintained)
    BY <1>10, <2>6, <2>7, SettledPass
  <2> QED
    BY <1>1, <1>3, <1>8, <1>10, <1>11, <2>8, AdvancesGood, GoodSteps DEF SameDriver
<1>16. CASE ok
  <2>1. Core(w, stopped, maintained)
    <3>1. ASSUME ~maintained
          PROVE  Queued(w) /\ InHand(w) /\ Rested(w) /\ w.agent.phase # "maintenance"
      BY <1>1, <1>10, <1>13, <3>1 DEF Core, Mid, Queued, InHand, Rested, Taken, SameDriver
    <3>2. ASSUME ~maintained PROVE Owed(w)
      <4>1. ~w.goal.durable => ~goal.durable /\ c = "outdated"
        BY <1>4, <1>10, <1>16
      <4> QED
        BY <1>1, <1>10, <1>13, <3>2, <4>1 DEF Core, Mid, Owed, SameDriver
    <3> QED
      BY <1>14, <3>1, <3>2 DEF Core, Mid
  <2>2. x = IF Ready(w) /\ ~w.driver.needsCheckpoint THEN DroveOn(w) ELSE w
    BY <1>7, <1>16
  <2>3. Core(x, stopped, maintained) /\ Passes(w, x, maintained) /\ (~Idle(w) => x.agent = w.agent)
    <3>1. CASE Ready(w) /\ ~w.driver.needsCheckpoint
      <4>1. Core(DroveOn(w), stopped, maintained) /\ Passes(w, DroveOn(w), maintained)
        BY <1>12, <2>1, <3>1, DroveOnKeeps
      <4> QED
        BY <2>2, <3>1, <4>1 DEF Ready
    <3>2. CASE ~(Ready(w) /\ ~w.driver.needsCheckpoint)
      BY <1>10, <2>1, <2>2, <3>2, LiveIsNat DEF Passes, Starts, Prompts, AtPoint
    <3> QED
      BY <3>1, <3>2
  <2>4. Core(Settling(x), stopped, maintained) /\ Advances(w, Settling(x), maintained)
    BY <1>10, <2>3, SettledPass
  <2> QED
    BY <1>1, <1>3, <1>8, <1>10, <1>11, <2>4, AdvancesGood, GoodSteps DEF SameDriver
<1> QED
  BY <1>15, <1>16

\* A loop goes on with what was requested meanwhile, or retires.
LEMMA LoopSteps ==
    ASSUME Inv, LoopSettles
    PROVE  Kept
<1>1. /\ World \in Worlds /\ Core(World, stopped, maintained) /\ Loops(World)
      /\ World.driver = driver /\ World.goal = goal /\ goal \in Goals /\ driver \in Drivers
      /\ driver.flushing \in Nat /\ driver.outdated \in Nat /\ driver.settling \in Nat
      /\ goal.durable \in BOOLEAN
  BY DEF Inv, Core, Mid, Base, World, Worlds, Drivers, Goals
<1>2. PICK w : w = Less(World, "settling", goal.durable)
  OBVIOUS
<1>3. /\ World.driver["settling"] > 0 /\ maintained' = maintained /\ stopped' = stopped
      /\ Live(World) > 0
  BY <1>1 DEF LoopSettles, Undisturbed, Live
<1>4. /\ w \in Worlds /\ w.agent = World.agent /\ SameDriver(World, w) /\ Live(w) = Live(World) - 1
      /\ w.driver.run = World.driver.run
      /\ w.driver.needsCheckpoint = World.driver.needsCheckpoint
      /\ w.driver.flushing = World.driver.flushing /\ w.driver.outdated = World.driver.outdated
      /\ w.goal.phase = goal.phase /\ w.goal.ref = goal.ref /\ w.goal.armed = goal.armed
      /\ w.goal.rounds = goal.rounds /\ w.goal.max = goal.max /\ w.goal.durable = goal.durable
  <2>1. "settling" \in {"flushing", "outdated", "settling"}
    OBVIOUS
  <2> QED
    BY <1>1, <1>2, <1>3, <2>1, LessIs
<1>5. w.goal = World.goal /\ w = [World EXCEPT !.driver.settling = @ - 1]
  BY <1>1, <1>2 DEF Less, Worlds, Goals
<1>6. Alike(World, w)
  BY <1>4, <1>5 DEF Alike, Resembles, SameAttempt, SameDriver, Taken
<1>7. Core(w, stopped, maintained)
  BY <1>1, <1>6, AlikeKeeps
<1>8. CASE driver.requested /\ driver.on = "up"
  <2>1. PICK y : y = [w EXCEPT !.driver.requested = FALSE]
    OBVIOUS
  <2>2. Become(Pass(y))
    BY <1>5, <1>8, <2>1 DEF LoopSettles
  <2>3. Alike(w, y) /\ SameLoops(w, y) /\ y \in Worlds
    BY <1>4, <2>1, NotedIs DEF Alike, Resembles
  <2>4. Core(y, stopped, maintained) /\ Live(y) = Live(World) - 1
        /\ y.driver.nested = World.driver.nested /\ y.driver.run = World.driver.run
        /\ y.driver.reserved = World.driver.reserved
    BY <1>4, <1>7, <2>3, AlikeKeeps DEF SameLoops, SameDriver, Alike, Resembles
  <2>5. Slot(y)
    BY <1>1, <1>3, <2>4, SlotBehind
  <2>6. Core(Pass(y), stopped, maintained) /\ Advances(y, Pass(y), maintained)
    BY <2>4, <2>5, PassKeeps
  <2> QED
    BY <1>1, <1>3, <2>2, <2>3, <2>4, <2>6, AdvancesGood, GoodSteps
<1>9. CASE ~(driver.requested /\ driver.on = "up")
  <2> DEFINE v == [w EXCEPT !.driver.run = FALSE]
  <2>1. Become(v)
    BY <1>5, <1>9 DEF LoopSettles
  <2>2. v \in Worlds /\ w.driver \in Drivers
    BY <1>4, Zenon DEF Worlds, Drivers
  <2>3. v.agent = w.agent /\ v.goal = w.goal /\ v.driver = [w.driver EXCEPT !.run = FALSE]
    BY <1>4 DEF Worlds
  <2> HIDE DEF v
  <2>4. /\ v.driver.on = w.driver.on /\ v.driver.attempt = w.driver.attempt
        /\ v.driver.reserved = w.driver.reserved /\ v.driver.nested = w.driver.nested
        /\ v.driver.run = FALSE /\ v.driver.needsCheckpoint = w.driver.needsCheckpoint
        /\ v.driver.flushing = w.driver.flushing /\ v.driver.outdated = w.driver.outdated
        /\ v.driver.settling = w.driver.settling
    BY <2>2, <2>3 DEF Drivers
  <2>5. Alike(w, v) /\ Live(v) = Live(w)
    BY <2>2, <2>3, <2>4 DEF Alike, Resembles, SameAttempt, Live, Taken
  <2>6. Core(v, stopped, maintained)
    BY <1>7, <2>5, AlikeKeeps
  <2>7. Loops(v)
    <3>1. Live(World) \in Nat /\ v.driver.nested = World.driver.nested
      BY <1>1, <1>4, <2>4, LiveIsNat DEF SameDriver
    <3> QED
      BY <1>1, <1>3, <1>4, <2>4, <2>5, <3>1 DEF Loops
  <2>8. Prompts(World, v, maintained)
    BY <1>1, <1>4, <2>4, NoPrompt DEF SameDriver
  <2> QED
    BY <1>3, <2>1, <2>6, <2>7, <2>8, GoodSteps DEF Good
<1> QED
  BY <1>8, <1>9

\* The driver's first check lets its own reservation pass, and refuses the others.
LEMMA CheckSteps ==
    ASSUME Inv, DriverChecks
    PROVE  Kept
<1>1. /\ World \in Worlds /\ Core(World, stopped, maintained) /\ Loops(World)
      /\ World.agent = agent /\ World.driver = driver /\ Round = Taken(World)
      /\ agent.pc = "assembling" /\ World.agent.phase = "running"
      /\ maintained' = maintained /\ stopped' = stopped
  BY DEF Inv, Core, Mid, Base, Looping, World, Round, Taken, DriverChecks, Undisturbed
<1>2. CASE Round = Human \/ driver.on = "down" \/ ValidReservation(World)
  <2>1. PICK v : v = Moved(World, "inner")
    OBVIOUS
  <2>2. Become(v)
    BY <1>2, <2>1 DEF DriverChecks, Moved
  <2>3. /\ v.agent.pc = "inner" /\ v.driver = World.driver /\ v.goal = World.goal
        /\ v.agent.claimed = World.agent.claimed
    BY <1>1, <2>1, MovedIs DEF Points
  <2>4. Entering(v)
    BY <1>1, <1>2, <2>3 DEF Entering, ValidReservation, Own, Attempting, Taken
  <2>5. Gap(v, stopped) /\ (~maintained => InHand(v))
    BY <1>1, <2>3 DEF Gap, Core, InHand, Wanted, Armed, Taken
  <2>6. Core(v, stopped, maintained) /\ SameLoops(World, v)
    BY <1>1, <2>1, <2>4, <2>5, MovedKeeps DEF Core, Points
  <2> QED
    BY <1>1, <2>2, <2>3, <2>6, SameLoopsKeep, NoPrompt, GoodSteps DEF Good
<1>3. CASE ~(Round = Human \/ driver.on = "down" \/ ValidReservation(World))
  <2>1. PICK r : r = IF Own(World, Round) THEN Released(World) ELSE World
    OBVIOUS
  <2>2. Become(Refused(RequestDrive(Restored(r))))
    BY <1>3, <2>1 DEF DriverChecks, Moved
  <2>3. /\ Mid(r, stopped, maintained) /\ r.agent = World.agent /\ Loops(r)
        /\ r.driver.reserved = World.driver.reserved
    <3>1. CASE Own(World, Round)
      BY <1>1, <2>1, <3>1, ReleasedKeeps, SameLoopsKeep
    <3>2. CASE ~Own(World, Round)
      BY <1>1, <2>1, <3>2 DEF Core
    <3> QED
      BY <3>1, <3>2
  <2> QED
    BY <1>1, <2>2, <2>3, RefusedGood, NoPrompt, GoodSteps DEF Good
<1> QED
  BY <1>2, <1>3

\* Behind the hooks the reservation must hold as it held before: nothing that
\* happened meanwhile lets another round through.
LEMMA EnterSteps ==
    ASSUME Inv, HooksEnter
    PROVE  Kept
<1>1. /\ World \in Worlds /\ Core(World, stopped, maintained) /\ Loops(World)
      /\ World.agent = agent /\ World.driver = driver /\ World.goal = goal
      /\ Round = Taken(World)
      /\ agent.pc = "inner" /\ World.agent.phase = "running"
      /\ maintained' = maintained /\ stopped' = stopped
  BY DEF Inv, Core, Mid, Base, Looping, World, Round, Taken, HooksEnter, Undisturbed
<1>2. ASSUME NEW w, Core(w, stopped, maintained), Loops(w), w.agent.pc = "inner",
             w.driver = driver, w.goal = goal, Taken(w) = Round, w.agent.aborted = agent.aborted,
             \/ Round = Human \/ driver.on = "down" \/ agent.aborted
             \/ ValidReservation(World),
             Become(Moved(w, "outer"))
      PROVE  Kept
  <2>1. PICK v : v = Moved(w, "outer")
    OBVIOUS
  <2>2. w \in Worlds /\ w.agent.phase = "running"
    BY <1>2 DEF Core, Mid, Base, Looping
  <2>3. /\ v.agent.pc = "outer" /\ v.driver = w.driver /\ v.goal = w.goal
        /\ v.agent.claimed = w.agent.claimed /\ v.agent.aborted = w.agent.aborted
    BY <2>1, <2>2, MovedIs DEF Points
  <2>4. Entering(v)
    BY <1>2, <2>3 DEF Core, Entering, Own, Attempting, Taken
  <2>5. Gap(v, stopped)
    <3>1. ASSUME Taken(v) # Human, v.driver.on # "down", ~v.agent.aborted
          PROVE  /\ v.driver.on = "up" /\ v.goal.phase = "active" /\ stopped # v.goal.ref
                 /\ Taken(v).ref = v.goal.ref /\ Taken(v).round = v.goal.rounds + 1
                 /\ v.goal.armed
      <4>1. ValidReservation(World)
        BY <1>2, <2>3, <3>1 DEF Taken
      <4>2. /\ driver.on = "up" /\ Armed(World) /\ goal.ref = Round.ref
            /\ Round.round = goal.rounds + 1
        BY <1>1, <4>1 DEF ValidReservation, Taken
      <4>3. stopped # goal.ref
        BY <1>1, <1>2, <2>3, <3>1, <4>2 DEF Core, Mid, Base, Stops, Wanted
      <4> QED
        BY <1>1, <1>2, <2>3, <4>2, <4>3 DEF Armed, Taken
    <3> QED
      BY <3>1 DEF Gap
  <2>6. ~maintained => InHand(v)
    BY <1>2, <2>3 DEF Core, InHand, Wanted, Armed, Taken
  <2>7. Core(v, stopped, maintained) /\ SameLoops(w, v)
    BY <1>2, <2>1, <2>2, <2>4, <2>5, <2>6, MovedKeeps DEF Core, Points
  <2>8. Loops(v) /\ Prompts(World, v, maintained)
    BY <1>1, <1>2, <2>3, <2>7, SameLoopsKeep, NoPrompt
  <2> QED
    BY <1>1, <1>2, <2>1, <2>7, <2>8, GoodSteps DEF Good
<1>3. CASE Round = Human \/ driver.on = "down"
  <2>1. Become(Moved(World, "outer"))
    BY <1>3 DEF HooksEnter, Moved
  <2> QED
    BY <1>1, <1>2, <1>3, <2>1
<1>4. CASE ~(Round = Human \/ driver.on = "down") /\ agent.aborted
  <2>1. PICK w : w = Restored(World)
    OBVIOUS
  <2>2. Become(Moved(w, "outer"))
    BY <1>4, <2>1 DEF HooksEnter, Moved
  <2>3. Alike(World, w) /\ SameLoops(World, w) /\ w.driver = World.driver
    BY <1>1, <2>1, RestoredIs
  <2>4. w.agent.aborted = agent.aborted
    BY <1>1, <2>1 DEF Restored, Worlds, Agents
  <2>5. Core(w, stopped, maintained) /\ Loops(w)
    BY <1>1, <2>3, AlikeKeeps, SameLoopsKeep
  <2>6. w.agent.pc = "inner" /\ w.driver = driver /\ w.goal = goal /\ Taken(w) = Round
    BY <1>1, <2>3 DEF Alike, Resembles
  <2> QED
    BY <1>2, <1>4, <2>2, <2>4, <2>5, <2>6
<1>5. CASE ~(Round = Human \/ driver.on = "down") /\ ~agent.aborted /\ ValidReservation(World)
  <2>1. Become(Moved(World, "outer"))
    BY <1>5 DEF HooksEnter, Moved
  <2> QED
    BY <1>1, <1>2, <1>5, <2>1
<1>6. CASE ~(Round = Human \/ driver.on = "down") /\ ~agent.aborted /\ ~ValidReservation(World)
  <2>1. PICK r : r = Released(World)
    OBVIOUS
  <2>2. Become(Refused(RequestDrive(Restored(r))))
    BY <1>6, <2>1 DEF HooksEnter, Moved
  <2>3. Own(World, Taken(World))
    BY <1>1, <1>6 DEF Core, Entering
  <2>4. /\ Mid(r, stopped, maintained) /\ r.agent = World.agent /\ Loops(r)
        /\ r.driver.reserved = World.driver.reserved
    BY <1>1, <2>1, <2>3, ReleasedKeeps, SameLoopsKeep
  <2> QED
    BY <1>1, <2>2, <2>4, RefusedGood, NoPrompt, GoodSteps DEF Good
<1> QED
  BY <1>3, <1>4, <1>5, <1>6

\* A turn that fails ends as aborted or as an error.
LEMMA FailedGood ==
    ASSUME NEW w, NEW st, NEW mt, Mid(w, st, mt), Loops(w), w.agent.phase = "running"
    PROVE  Good(w, Failed(w), st, mt) /\ Failed(w).agent.pc \in {"none", "assembling"}
BY TurnEndedGood DEF Failed

\* A rejection behind the driver blocks the goal of the round it rejects.
LEMMA RejectSteps ==
    ASSUME Inv, HooksReject
    PROVE  Kept
<1>1. /\ World \in Worlds /\ Core(World, stopped, maintained) /\ Loops(World)
      /\ World.agent = agent /\ World.driver = driver /\ Round = Taken(World)
      /\ agent.pc = "inner" /\ World.agent.phase = "running"
      /\ maintained' = maintained /\ stopped' = stopped
  BY DEF Inv, Core, Mid, Base, Looping, World, Round, Taken, HooksReject, Disturbed
<1>2. PICK r : r = Released(World)
  OBVIOUS
<1>3. PICK x : x = Changed(r, "blocked", FALSE)
  OBVIOUS
<1>4. Become(Refused(World)) \/ Become(Refused(r)) \/ Become(Refused(x))
  BY <1>2, <1>3 DEF HooksReject
<1>5. CASE Round = Human \/ driver.on = "down" \/ agent.aborted
  <2>1. Become(Refused(World))
    BY <1>5 DEF HooksReject
  <2>2. Core(Refused(World), stopped, maintained) /\ SameLoops(World, Refused(World))
        /\ Refused(World).driver = World.driver
    BY <1>1, RefusedKeeps DEF Core
  <2> QED
    BY <1>1, <2>1, <2>2, SameLoopsKeep, NoPrompt, GoodSteps DEF Good
<1>6. CASE ~(Round = Human \/ driver.on = "down" \/ agent.aborted)
  <2>1. Become(Refused(r)) \/ Become(Refused(x))
    BY <1>2, <1>3, <1>6 DEF HooksReject
  <2>2. Own(World, Taken(World))
    BY <1>1, <1>6 DEF Core, Entering
  <2>3. /\ Mid(r, stopped, maintained) /\ r.agent = World.agent /\ SameLoops(World, r)
        /\ r.driver.reserved = World.driver.reserved
    BY <1>1, <1>2, <2>2, ReleasedKeeps
  <2>4. r \in Worlds /\ Loops(r) /\ r.agent.phase = "running"
    BY <1>1, <2>3, SameLoopsKeep DEF Mid, Base
  <2>5. PICK f : f = Refused(r)
    OBVIOUS
  <2>6. Core(f, stopped, maintained) /\ SameLoops(r, f) /\ f.driver = r.driver
    BY <2>3, <2>4, <2>5, RefusedKeeps
  <2>7. Loops(f) /\ f.driver.reserved = World.driver.reserved
    BY <2>3, <2>4, <2>6, SameLoopsKeep
  <2>8. CASE Become(Refused(r))
    BY <1>1, <2>5, <2>6, <2>7, <2>8, NoPrompt, GoodSteps DEF Good
  <2>9. CASE Become(Refused(x))
    <3>1. PICK y : y = Refused(x)
      OBVIOUS
    <3>2. ChangesTo(r, x)
      BY <1>3, <2>4, ChangedIs DEF Phases
    <3>3. x \in Worlds /\ x.agent = r.agent
      BY <3>2 DEF ChangesTo
    <3>4. y = Moved(x, "refused") /\ "refused" \in Points /\ f = Moved(r, "refused")
      BY <2>5, <3>1 DEF Moved, Refused, Points
    <3>5. y \in Worlds /\ y.goal = x.goal /\ y.driver = x.driver
      BY <3>3, <3>4, MovedIs
    <3>6. f \in Worlds /\ f.goal = r.goal /\ f.agent.pc = "refused"
      BY <2>4, <3>4, MovedIs
    <3>7. y.agent = f.agent
      BY <2>4, <3>3, <3>4 DEF Moved, Worlds
    <3>8. ChangesTo(f, y)
      BY <2>6, <3>2, <3>5, <3>6, <3>7 DEF ChangesTo, SameDriver, Starts, Live
    <3>9. /\ Past(f, stopped) /\ Entering(f) /\ Looping(f)
          /\ f.agent.phase = "maintenance" => maintained
      BY <2>6 DEF Core, Mid, Base, Attempt, Stops, Past
    <3>10. Core(y, stopped, maintained)
      BY <3>6, <3>8, <3>9, ChangeKeeps
    <3>11. Loops(y)
      BY <2>7, <3>6, <3>8, StartsLoops DEF ChangesTo, SameDriver
    <3>12. Prompts(World, y, maintained)
      BY <1>1, <2>7, <3>8, NoPrompt DEF ChangesTo, SameDriver
    <3> QED
      BY <1>1, <2>9, <3>1, <3>10, <3>11, <3>12, GoodSteps DEF Good
  <2> QED
    BY <2>1, <2>8, <2>9
<1> QED
  BY <1>5, <1>6

\* A hook that throws behind the driver ends the turn, and its round is released.
LEMMA ThrowSteps ==
    ASSUME Inv, HooksThrow
    PROVE  Kept
<1>1. /\ World \in Worlds /\ Core(World, stopped, maintained) /\ Loops(World)
      /\ World.agent = agent /\ World.driver = driver /\ Round = Taken(World)
      /\ agent.pc = "inner" /\ World.agent.phase = "running"
      /\ maintained' = maintained /\ stopped' = stopped
  BY DEF Inv, Core, Mid, Base, Looping, World, Round, Taken, HooksThrow, Disturbed, Undisturbed
<1>2. CASE Round = Human \/ driver.on = "down" \/ agent.aborted
  <2>1. Become(Failed(World))
    BY <1>2 DEF HooksThrow
  <2>2. Good(World, Failed(World), stopped, maintained)
    BY <1>1, FailedGood DEF Core
  <2> QED
    BY <1>1, <2>1, <2>2, GoodSteps
<1>3. CASE ~(Round = Human \/ driver.on = "down" \/ agent.aborted)
  <2>1. PICK r : r = Released(World)
    OBVIOUS
  <2>2. PICK y : y = RequestDrive(r)
    OBVIOUS
  <2>3. Become(Failed(y))
    BY <1>3, <2>1, <2>2 DEF HooksThrow
  <2>4. Own(World, Taken(World))
    BY <1>1, <1>3 DEF Core, Entering
  <2>5. /\ Mid(r, stopped, maintained) /\ r.agent = World.agent /\ SameLoops(World, r)
        /\ r.driver.reserved = World.driver.reserved
    BY <1>1, <2>1, <2>4, ReleasedKeeps
  <2>6. r \in Worlds /\ ~Idle(r) /\ Loops(r)
    BY <1>1, <2>5, SameLoopsKeep DEF Mid, Base, Idle
  <2>7. /\ Alike(r, y) /\ Loops(y) /\ y.agent = r.agent
        /\ y.driver.nested = r.driver.nested
    BY <2>2, <2>6, BusyDrive
  <2>8. Mid(y, stopped, maintained) /\ y.agent.phase = "running"
    BY <1>1, <2>5, <2>7, AlikeMid
  <2>9. Good(y, Failed(y), stopped, maintained)
    BY <2>7, <2>8, FailedGood
  <2>10. Good(World, Failed(y), stopped, maintained)
    BY <2>5, <2>7, <2>9 DEF Good, Prompts, Alike, Resembles, SameLoops
  <2> QED
    BY <1>1, <2>3, <2>10, GoodSteps
<1> QED
  BY <1>2, <1>3

\* Steps in front of the driver's check, and refused ones, end without a fence.
LEMMA DropSteps ==
    ASSUME Inv, ClaimDropped \/ StepRefused
    PROVE  Kept
<1>1. /\ World \in Worlds /\ Core(World, stopped, maintained) /\ Loops(World)
      /\ World.agent = agent
      /\ World.agent.phase = "running" /\ maintained' = maintained /\ stopped' = stopped
  BY DEF Inv, Core, Mid, Base, Looping, World, ClaimDropped, StepRefused, Disturbed, Undisturbed
<1>2. CASE ClaimDropped
  <2>1. Become(Failed(World)) \/ Become(Refused(World))
    BY <1>2 DEF ClaimDropped
  <2>2. Good(World, Failed(World), stopped, maintained)
    BY <1>1, FailedGood DEF Core
  <2>3. Core(Refused(World), stopped, maintained) /\ SameLoops(World, Refused(World))
        /\ Refused(World).driver = World.driver
    BY <1>1, RefusedKeeps DEF Core
  <2>4. Good(World, Refused(World), stopped, maintained)
    BY <1>1, <2>3, SameLoopsKeep, NoPrompt DEF Good
  <2> QED
    BY <1>1, <2>1, <2>2, <2>4, GoodSteps
<1>3. CASE StepRefused
  <2>1. PICK reason : reason = IF agent.aborted THEN "aborted" ELSE "blocked"
    OBVIOUS
  <2>2. Become(TurnEnded(World, reason))
    BY <1>3, <2>1 DEF StepRefused
  <2>3. Good(World, TurnEnded(World, reason), stopped, maintained)
    BY <1>1, <2>1, TurnEndedGood DEF Core
  <2> QED
    BY <1>1, <2>2, <2>3, GoodSteps
<1> QED
  BY <1>2, <1>3

\* A step that opens, and one that is over.
LEMMA StepSteps ==
    ASSUME Inv, StepEnters \/ StepEnds
    PROVE  Kept
<1>1. /\ World \in Worlds /\ Core(World, stopped, maintained) /\ Loops(World)
      /\ World.agent = agent /\ World.goal = goal /\ Round = Taken(World)
      /\ World.agent.phase = "running" /\ maintained' = maintained /\ stopped' = stopped
      /\ goal.ref \in Nat /\ stopped \in Nat
  BY DEF Inv, Core, Mid, Base, Stops, Looping, World, Round, Taken, StepEnters, StepEnds,
         Disturbed, Undisturbed, Worlds, Goals
<1>2. CASE Become(Failed(World))
  <2>1. Good(World, Failed(World), stopped, maintained)
    BY <1>1, FailedGood DEF Core
  <2> QED
    BY <1>1, <1>2, <2>1, GoodSteps
<1>3. CASE StepEnters /\ ~agent.aborted
  <2>1. CASE Round # Human
    <3>1. Become(Admitted(Moved(World, "step"))) /\ World.agent.pc = "outer"
      BY <1>1, <1>3, <2>1 DEF StepEnters, Moved
    <3>2. Good(World, Admitted(Moved(World, "step")), stopped, maintained)
      BY <1>1, <2>1, <3>1, AdmittedGood
    <3> QED
      BY <1>1, <3>1, <3>2, GoodSteps
  <2>2. CASE Round = Human /\ agent.claimed.steers + agent.claimed.prompts > 0
    <3>1. PICK v : v = Moved(World, "step")
      OBVIOUS
    <3>2. Become(v)
      BY <1>3, <2>2, <3>1 DEF StepEnters, Moved
    <3>3. v.agent.pc = "step" /\ v.driver = World.driver /\ "step" \in Points
      BY <1>1, <3>1, MovedIs DEF Points
    <3>4. Entering(v) /\ Gap(v, stopped) /\ InHand(v)
      BY <3>3 DEF Entering, Gap, InHand
    <3>5. Core(v, stopped, maintained) /\ SameLoops(World, v)
      BY <1>1, <3>1, <3>3, <3>4, MovedKeeps DEF Core
    <3> QED
      BY <1>1, <3>2, <3>3, <3>5, SameLoopsKeep, NoPrompt, GoodSteps DEF Good
  <2>3. CASE Round = Human /\ ~(agent.claimed.steers + agent.claimed.prompts > 0)
    <3>1. Become(WentIdle(World))
      BY <1>3, <2>3 DEF StepEnters
    <3>2. Ending(World, stopped, maintained)
      BY <1>1, <1>3 DEF Core, Mid, Base, Stops, Ending
    <3>3. Good(World, WentIdle(World), stopped, maintained)
      BY <1>1, <3>2, WentIdleGood
    <3> QED
      BY <1>1, <3>1, <3>3, GoodSteps
  <2> QED
    BY <2>1, <2>2, <2>3
<1>4. ASSUME NEW reason, ~agent.aborted, Become(TurnEnded(World, reason)) PROVE Kept
  <2>1. Good(World, TurnEnded(World, reason), stopped, maintained)
    BY <1>1, <1>4, TurnEndedGood DEF Core
  <2> QED
    BY <1>1, <1>4, <2>1, GoodSteps
<1>5. CASE Become(Claimed(World, "nextStep"))
  <2>1. PICK v : v = Claimed(World, "nextStep")
    OBVIOUS
  <2>2. PICK m \in Messages, n \in {0, 1} :
            /\ Takes(World, v, m, n)
            /\ m # Human => n = 1
            /\ n = 1 => World.agent.nextTurn # <<>> /\ m = World.agent.nextTurn[1]
    BY <1>1, <2>1, ClaimedIs
  <2>3. Core(v, stopped, maintained) /\ SameLoops(World, v)
    BY <1>1, <2>2, ClaimKeeps DEF Core
  <2>4. v.driver.reserved = World.driver.reserved
    BY <2>2 DEF Takes, Marked
  <2> QED
    BY <1>1, <1>5, <2>1, <2>3, <2>4, SameLoopsKeep, NoPrompt, GoodSteps DEF Good
<1>6. CASE StepEnters /\ agent.aborted
  BY <1>2, <1>6 DEF StepEnters
<1>7. CASE StepEnds /\ agent.aborted
  BY <1>2, <1>7 DEF StepEnds
<1>8. CASE StepEnds /\ ~agent.aborted
  BY <1>2, <1>4, <1>5, <1>8 DEF StepEnds
<1> QED
  BY <1>3, <1>6, <1>7, <1>8
\* An unloading driver disarms its goal and takes its reserved round with it.
LEMMA TeardownSteps ==
    ASSUME Inv, TeardownStarts
    PROVE  Kept
<1>1. /\ World \in Worlds /\ Core(World, stopped, maintained) /\ Loops(World) /\ Shape(World)
      /\ World.goal = goal /\ World.agent = agent /\ World.driver = driver
      /\ driver \in Drivers /\ driver.attempt \in Attempts
  BY DEF Inv, Core, Mid, Base, World, Worlds, Drivers
<1>2. PICK x : x = Attempting(World)
  OBVIOUS
<1>3. PICK y : y = (Attempting(World) /\ ~Idle(World))
  OBVIOUS
<1> DEFINE a == driver.attempt
           b == [a EXCEPT !.stale = x]
           d == [driver EXCEPT !.on = "stopping", !.attempt = b, !.awaitsIdle = y]
           t == [World EXCEPT !.driver = d]
<1>4. x \in BOOLEAN /\ (x => a # NoAttempt) /\ y \in BOOLEAN
  <2>1. x \in BOOLEAN /\ y \in BOOLEAN
    BY <1>2, <1>3 DEF Attempting
  <2>2. a = NoAttempt => x = FALSE
    BY <1>1, <1>2 DEF Attempting
  <2> QED
    BY <2>1, <2>2
<1>5. /\ b \in Attempts /\ b.ref = a.ref /\ b.round = a.round /\ b.id = a.id
       /\ b.phase = a.phase /\ (b = NoAttempt <=> a = NoAttempt)
  <2>1. a \in Attempts /\ (a.phase = "none" <=> a = NoAttempt)
    BY <1>1 DEF Shape
  <2> QED
    BY <2>1, <1>4, FlagsKeep
<1>6. t = [World EXCEPT !.driver.on = "stopping", !.driver.attempt.stale = Attempting(World),
                        !.driver.awaitsIdle = Attempting(World) /\ ~Idle(World)]
  BY <1>1, <1>2, <1>3 DEF Worlds, Drivers, Attempts
<1> HIDE DEF b
<1>7. d \in Drivers
  BY <1>1, <1>4, <1>5, Zenon DEF Drivers
<1>8. /\ d.on = "stopping" /\ d.attempt = b /\ d.reserved = driver.reserved
      /\ d.nested = driver.nested /\ d.needsCheckpoint = driver.needsCheckpoint
      /\ d.flushing = driver.flushing /\ d.outdated = driver.outdated
      /\ d.settling = driver.settling /\ d.run = driver.run
  BY <1>1 DEF Drivers
<1> HIDE DEF d
<1>9. t \in Worlds
  BY <1>1, <1>7, Zenon DEF Worlds
<1>10. t.driver = d /\ t.agent = agent /\ t.goal = goal
  BY <1>1 DEF Worlds
<1>11. PICK w : w = Disarmed(t)
  OBVIOUS
<1>12. /\ w \in Worlds /\ w.agent = agent /\ w.driver = d /\ w.goal.ref = goal.ref
       /\ w.goal.max = goal.max /\ ~w.goal.armed
  BY <1>9, <1>10, <1>11, DisarmedIs
<1>13. /\ World.agent.pc # "outer" \/ UpstreamHooks
       /\ driver.on = "up" /\ maintained' = maintained /\ stopped' = stopped
  BY <1>1 DEF TeardownStarts, Disturbed, Interruptible
<1>14. Resembles(World, w)
  BY <1>1, <1>5, <1>8, <1>12 DEF Resembles, SameAttempt, Taken
<1>15. Core(w, stopped, maintained) /\ SameLoops(World, w)
       /\ w.driver.reserved = World.driver.reserved
  <2>1. Gap(w, stopped)
    BY <1>1, <1>12, <1>13 DEF Gap
  <2>2. /\ Base(World, stopped) /\ Looping(World) /\ Entering(World)
        /\ World.agent.phase = "maintenance" => maintained
    BY <1>1 DEF Core, Mid
  <2>3. Core(w, stopped, maintained)
    BY <1>1, <1>8, <1>12, <1>13, <1>14, <2>1, <2>2, UnwantedKeeps
  <2> QED
    BY <1>1, <1>8, <1>12, <2>3 DEF SameLoops, Live
<1>16. PICK v \in {w, Cancelled(w, FALSE)} : Become(v)
  <2>1. w = Disarmed([World EXCEPT !.driver.on = "stopping",
                                   !.driver.attempt.stale = Attempting(World),
                                   !.driver.awaitsIdle = Attempting(World) /\ ~Idle(World)])
    BY <1>6, <1>11
  <2> HIDE DEF t
  <2> QED
    BY <2>1 DEF TeardownStarts
<1>17. Alike(w, Cancelled(w, FALSE)) /\ SameLoops(w, Cancelled(w, FALSE))
  <2>1. w.driver.attempt.phase = "none" <=> w.driver.attempt = NoAttempt
    BY <1>15 DEF Core, Mid, Base, Shape
  <2> QED
    BY <1>12, <2>1, CancelledIs
<1>18. Core(v, stopped, maintained) /\ SameLoops(World, v)
       /\ v.driver.reserved = World.driver.reserved
  <2>1. CASE v = w
    BY <1>15, <2>1
  <2>2. CASE v = Cancelled(w, FALSE)
    BY <1>15, <1>17, <2>2, AlikeKeeps DEF SameLoops, Alike, Resembles
  <2> QED
    BY <1>16, <2>1, <2>2
<1>19. Good(World, v, stopped', maintained')
  BY <1>1, <1>13, <1>18, SameLoopsKeep, NoPrompt DEF Good
<1> QED
  BY <1>13, <1>16, <1>19, GoodSteps

\* A driver that is down has neither attempt nor loop, and what it left behind is not
\* wanted until somebody changes the goal.
LEMMA LoadSteps ==
    ASSUME Inv, TeardownEnds \/ Loads
    PROVE  Kept
<1>1. /\ World \in Worlds /\ Core(World, stopped, maintained) /\ Loops(World) /\ Shape(World)
      /\ World.goal = goal /\ World.agent = agent /\ World.driver = driver
      /\ driver \in Drivers /\ goal.ref \in Nat
  BY DEF Inv, Core, Mid, Base, World, Worlds, Drivers, Goals
<1>2. CASE TeardownEnds
  <2> DEFINE d == [driver EXCEPT !.on = "down", !.attempt = NoAttempt, !.competing = FALSE,
                                 !.needsCheckpoint = FALSE, !.requested = FALSE,
                                 !.awaitsIdle = FALSE]
  <2>1. NoAttempt \in Attempts
    BY DEF NoAttempt, Attempts
  <2>2. d \in Drivers
    <3> HIDE DEF NoAttempt
    <3> QED
      BY <1>1, <2>1, Zenon DEF Drivers
  <2>3. /\ d.on = "down" /\ d.attempt = NoAttempt /\ d.reserved = driver.reserved
        /\ d.nested = driver.nested /\ d.flushing = driver.flushing
        /\ d.outdated = driver.outdated /\ d.settling = driver.settling /\ d.run = driver.run
    BY <1>1 DEF Drivers
  <2>4. driver' = d /\ goal' = goal /\ agent' = agent /\ stopped' = stopped
        /\ maintained' = maintained
    BY <1>2 DEF TeardownEnds, Undisturbed
  <2> HIDE DEF d
  <2>5. PICK v : v = [World EXCEPT !.driver = d]
    OBVIOUS
  <2>6. v \in Worlds
    BY <1>1, <2>2, <2>5, Zenon DEF Worlds
  <2>7. v.driver = d /\ v.agent = agent /\ v.goal = goal
    BY <1>1, <2>5 DEF Worlds
  <2>8. Base(v, stopped)
    <3>1. Shape(v)
      BY <1>1, <2>3, <2>7 DEF Shape, Known, NoAttempt
    <3>2. Attempt(v) /\ Stops(v, stopped)
      BY <1>1, <2>3, <2>7 DEF Attempt, Attempting, NoAttempt, Core, Mid, Base, Stops, Wanted
    <3> QED
      BY <2>6, <3>1, <3>2 DEF Base
  <2>9. Core(v, stopped, maintained)
    <3>1. ~Wanted(v) /\ v.driver.on = "down" /\ v.agent = World.agent
      BY <1>1, <2>3, <2>7 DEF Wanted
    <3>2. Queued(v) /\ Owed(v) /\ InHand(v) /\ Rested(v) /\ Entering(v) /\ Gap(v, stopped)
      BY <3>1 DEF Queued, Owed, InHand, Rested, Entering, Gap
    <3> QED
      BY <1>1, <2>8, <3>1, <3>2 DEF Core, Mid, Looping
  <2>10. Loops(v) /\ Prompts(World, v, maintained)
    <3>1. SameLoops(World, v) /\ v.driver.reserved = World.driver.reserved
      BY <1>1, <2>3, <2>7 DEF SameLoops, Live
    <3> QED
      BY <1>1, <3>1, SameLoopsKeep, NoPrompt
  <2>11. Become(v)
    BY <2>4, <2>7 DEF Become
  <2> QED
    BY <2>4, <2>9, <2>10, <2>11, GoodSteps DEF Good
<1>3. CASE Loads
  <2> DEFINE d == [driver EXCEPT !.on = "up", !.nested = FALSE]
             t == [World EXCEPT !.driver = d]
  <2>1. t = [World EXCEPT !.driver.on = "up", !.driver.nested = FALSE]
    BY <1>1 DEF Worlds, Drivers
  <2>2. d \in Drivers
    BY <1>1, Zenon DEF Drivers
  <2>3. /\ d.on = "up" /\ d.attempt = driver.attempt /\ d.reserved = driver.reserved
        /\ d.nested = FALSE /\ d.flushing = driver.flushing
        /\ d.outdated = driver.outdated /\ d.settling = driver.settling /\ d.run = driver.run
    BY <1>1 DEF Drivers
  <2>4. /\ driver.on = "down" /\ agent.pc = "none" /\ stopped' = stopped
        /\ maintained' = maintained /\ driver.flushing + driver.outdated + driver.settling = 0
        /\ Become(Disarmed(t))
    BY <1>3, <2>1 DEF Loads, Undisturbed
  <2> HIDE DEF d
  <2>5. t \in Worlds
    BY <1>1, <2>2, Zenon DEF Worlds
  <2>6. t.driver = d /\ t.agent = agent /\ t.goal = goal
    BY <1>1 DEF Worlds
  <2>7. PICK v : v = Disarmed(t)
    OBVIOUS
  <2> HIDE DEF t
  <2>8. /\ v \in Worlds /\ v.driver = d /\ v.agent = agent /\ v.goal.ref = goal.ref
        /\ ~v.goal.armed
    BY <2>5, <2>6, <2>7, DisarmedIs
  <2>9. ~Attempting(World) /\ ~Attempting(v) /\ ~Wanted(v)
    BY <1>1, <2>3, <2>4, <2>8 DEF Core, Mid, Base, Attempt, Attempting, Wanted, Armed
  <2>10. Base(v, stopped)
    <3>1. Shape(v)
      BY <1>1, <2>3, <2>8 DEF Shape, Known
    <3>2. Attempt(v) /\ Stops(v, stopped)
      BY <1>1, <2>3, <2>8, <2>9 DEF Attempt, Core, Mid, Base, Stops
    <3> QED
      BY <2>8, <3>1, <3>2 DEF Base
  <2>11. Core(v, stopped, maintained)
    <3>1. Queued(v) /\ Owed(v) /\ InHand(v) /\ Rested(v) /\ Entering(v) /\ Gap(v, stopped)
      BY <2>4, <2>8, <2>9 DEF Queued, Owed, InHand, Rested, Entering, Gap
    <3> QED
      BY <1>1, <2>8, <2>10, <3>1 DEF Core, Mid, Looping
  <2>12. Loops(v) /\ Prompts(World, v, maintained)
    <3>1. Live(World) = 0 /\ Live(v) = 0
      BY <1>1, <2>3, <2>4, <2>8 DEF Live
    <3>2. ~World.driver.run
      BY <1>1, <3>1 DEF Loops
    <3>3. Loops(v)
      BY <1>1, <2>3, <2>8, <3>1, <3>2 DEF Loops
    <3> QED
      BY <1>1, <2>3, <2>8, <3>3, NoPrompt
  <2> QED
    BY <2>4, <2>7, <2>11, <2>12, GoodSteps DEF Good
<1> QED
  BY <1>2, <1>3

\* The invariant holds at first.
LEMMA InitHolds == Init => Inv
<1> SUFFICES ASSUME Init PROVE Inv
  OBVIOUS
<1>1. goal \in Goals /\ goal.ref = 0 /\ ~goal.armed /\ goal.phase = "none" /\ goal.durable
  BY GoalRoundsAssumption DEF Init, Goals, Phases
<1>2. /\ Human \in Messages /\ NoAttempt \in Attempts /\ NoClaim \in Claims
      /\ NoClaim.round = Human /\ Human.ref = 0 /\ Human.id = 0 /\ NoAttempt.ref = 0
      /\ NoAttempt.phase = "none"
  BY DEF Human, NoAttempt, NoClaim, Messages, Attempts, Claims
<1>3. agent \in Agents /\ agent.phase = "idle" /\ agent.pc = "none" /\ agent.nextTurn = <<>>
      /\ agent.claimed = NoClaim
  <2>1. <<>> \in Seq(Messages)
    OBVIOUS
  <2> HIDE DEF NoClaim, Claims, Messages
  <2> QED
    BY <1>2, <2>1 DEF Init, Agents
<1>4. driver \in Drivers /\ driver.attempt = NoAttempt /\ ~driver.run /\ ~driver.nested
      /\ driver.flushing = 0 /\ driver.outdated = 0 /\ driver.settling = 0
      /\ driver.reserved = 0 /\ driver.on = "up"
  <2> HIDE DEF NoAttempt, Attempts
  <2> QED
    BY <1>2 DEF Init, Drivers
<1>5. World \in Worlds /\ World.goal = goal /\ World.agent = agent /\ World.driver = driver
  BY <1>1, <1>3, <1>4 DEF World, Worlds
<1>6. Shape(World) /\ Attempt(World)
  BY <1>1, <1>2, <1>3, <1>4, <1>5 DEF Shape, Known, Attempt, Attempting
<1>7. ~Wanted(World) /\ stopped = 0 /\ maintained = FALSE /\ disturbances = 0
  BY <1>1, <1>5 DEF Wanted, Armed, Init
<1>8. Base(World, stopped)
  BY <1>1, <1>5, <1>6, <1>7 DEF Base, Stops
<1>9. Core(World, stopped, maintained)
  BY <1>3, <1>5, <1>7, <1>8 DEF Core, Mid, Queued, Owed, Looping, Entering, Gap, InHand, Rested
<1>10. Loops(World)
  BY <1>4, <1>5 DEF Loops, Live
<1>11. maintained \in BOOLEAN
  BY <1>7
<1>12. disturbances \in 0..MaxDisturbances
  BY <1>7, GoalRoundsAssumption
<1> QED
  BY <1>9, <1>10, <1>11, <1>12 DEF Inv

\* Every step keeps the loops' part and the goal's, and reserves behind what is durable.
LEMMA NextSteps ==
    ASSUME Inv, Next
    PROVE  Kept
<1>1. CASE Mutate
  BY <1>1, MutateSteps
<1>2. CASE User
  BY <1>2, SendSteps, CancelSteps, MaintenanceSteps, TeardownSteps DEF User
<1>3. CASE Loop
  BY <1>3, CheckSteps, EnterSteps, RejectSteps, ThrowSteps, DropSteps, StepSteps, MaintenanceSteps
  DEF Loop
<1>4. CASE Drive
  BY <1>4, FlushSteps, LoopSteps DEF Drive
<1>5. CASE TeardownEnds \/ Loads
  BY <1>5, LoadSteps
<1> QED
  BY <1>1, <1>2, <1>3, <1>4, <1>5 DEF Next

\* The counts of the environment are what its actions make them.
LEMMA CountSteps ==
    ASSUME Inv, Next
    PROVE  maintained' \in BOOLEAN /\ disturbances' \in 0..MaxDisturbances
<1>1. /\ maintained \in BOOLEAN /\ disturbances \in 0..MaxDisturbances /\ MaxDisturbances \in Nat
  BY GoalRoundsAssumption DEF Inv
<1>2. CASE Undisturbed
  BY <1>1, <1>2 DEF Undisturbed
<1>3. CASE Counted /\ maintained' \in {maintained, TRUE}
  <2>1. maintained' \in BOOLEAN
    BY <1>1, <1>3, Zenon
  <2>2. disturbances' \in 0..MaxDisturbances
    BY <1>1, <1>3 DEF Counted
  <2> QED
    BY <2>1, <2>2
<1>4. CASE Disturbed
  BY <1>3, <1>4 DEF Disturbed
<1>5. CASE Mutate
  BY <1>2, <1>5 DEF Mutate, Create, Edit, Pause, Resume, Complete, Block, Clear, Change
<1>6. CASE User
  BY <1>3, <1>4, <1>6 DEF User, Send, Cancel, MaintenanceStarts, TeardownStarts
<1>7. CASE Loop
  BY <1>2, <1>4, <1>7 DEF Loop, DriverChecks, HooksEnter, HooksReject, HooksThrow, ClaimDropped,
     StepRefused, StepEnters, StepEnds, MaintenanceEnds
<1>8. CASE Drive
  BY <1>2, <1>4, <1>8 DEF Drive, FlushEnds, LoopSettles
<1>9. CASE TeardownEnds \/ Loads
  BY <1>2, <1>9 DEF TeardownEnds, Loads
<1> QED
  BY <1>5, <1>6, <1>7, <1>8, <1>9 DEF Next

\* The invariant is inductive.
LEMMA Invariance == Spec => []Inv
<1>1. ASSUME Inv, Next PROVE Inv'
  BY <1>1, NextSteps, CountSteps DEF Inv, Kept
<1>2. ASSUME Inv, UNCHANGED vars PROVE Inv'
  <2>1. World' = World /\ stopped' = stopped /\ maintained' = maintained
        /\ disturbances' = disturbances
    BY <1>2 DEF vars, World
  <2> QED
    BY <1>2, <2>1 DEF Inv
<1> QED
  BY InitHolds, <1>1, <1>2, PTL DEF Spec

-----------------------------------------------------------------------------
(* Theorems                                                                 *)

\* The goal, the agent and the driver are of their kinds in every reachable state, and
\* an attempt without a phase is none (the state of goal-round-driver and of the loop).
THEOREM TypesHold == Spec => []TypeOK
<1>1. Inv => TypeOK
  <2> SUFFICES ASSUME Inv PROVE TypeOK
    OBVIOUS
  <2>1. /\ World \in Worlds /\ Shape(World) /\ Looping(World)
        /\ World.goal = goal /\ World.agent = agent /\ World.driver = driver
        /\ goal \in Goals /\ agent \in Agents /\ driver \in Drivers
    BY DEF Inv, Core, Mid, Base, World, Worlds
  <2>2. goal \in [phase : {"none", "active", "paused", "blocked", "complete", "corrupt"},
                  ref : Nat, armed : BOOLEAN, rounds : 0..MaxRounds, max : 1..MaxRounds,
                  durable : BOOLEAN]
    BY <2>1 DEF Goals, Phases
  <2>3. /\ agent.phase \in {"idle", "maintenance", "running"}
        /\ agent.pc \in {"assembling", "inner", "outer", "refused", "step", "none"}
        /\ (agent.phase = "running") = (agent.pc # "none")
    BY <2>1 DEF Agents, Looping
  <2>4. /\ driver.on \in {"up", "stopping", "down"}
        /\ driver.attempt.phase \in {"none", "queued", "claimed", "admitted"}
        /\ driver.attempt.phase = "none" => driver.attempt = NoAttempt
    BY <2>1 DEF Drivers, Attempts, Shape
  <2> QED
    BY <2>2, <2>3, <2>4 DEF TypeOK, Inv
<1> QED
  BY <1>1, Invariance, PTL

\* Only the step itself takes a round from behind the hooks into its step: nothing of
\* the user's falls into that gap, and no pass of the driver moves a loop at work.
LEMMA OnlyStepEnters ==
    ASSUME Inv, Next, Enters, ~UpstreamHooks
    PROVE  ~agent.aborted /\ Become(Admitted(Moved(World, "step")))
<1>1. /\ World \in Worlds /\ Core(World, stopped, maintained) /\ Loops(World)
      /\ World.goal = goal /\ World.agent = agent /\ World.driver = driver /\ Looping(World)
  BY DEF Inv, Core, Mid, Base, World, Worlds
<1>2. agent.pc = "outer" /\ agent.phase = "running" /\ Round # Human /\ agent'.pc = "step"
  BY <1>1 DEF Enters, Looping
<1>3. ~Interruptible
  BY <1>2 DEF Interruptible
<1>4. ASSUME NEW v, Become(v), v.agent.pc # "step" PROVE FALSE
  BY <1>2, <1>4 DEF Become
<1>5. ~Mutate
  BY <1>3 DEF Mutate, Create, Edit, Pause, Resume, Complete, Block, Clear, Change
<1>6. ~User
  BY <1>2, <1>3 DEF User, Send, Cancel, MaintenanceStarts, TeardownStarts
<1>7. ~(TeardownEnds \/ Loads)
  BY <1>2 DEF TeardownEnds, Loads
<1>8. ~FlushEnds(TRUE) /\ ~FlushEnds(FALSE)
  <2> SUFFICES ASSUME NEW ok \in BOOLEAN, FlushEnds(ok) PROVE FALSE
    OBVIOUS
  <2> DEFINE W(c) == [World EXCEPT !.driver[c] = @ - 1,
                                   !.goal.durable = @ \/ (ok /\ c = "flushing")]
  <2>1. PICK w \in {W("flushing"), W("outdated")} :
            Become(Settling(IF ~ok THEN Disarmed(w)
                            ELSE IF Ready(w) /\ ~w.driver.needsCheckpoint
                                 THEN DroveOn(w) ELSE w))
    BY DEF FlushEnds
  <2>2. w.agent = agent
    BY <1>1, <2>1 DEF Worlds
  <2>3. ~Ready(w)
    BY <1>2, <2>2 DEF Ready, Idle
  <2>4. PICK x \in {Disarmed(w), w} : Become(Settling(x))
    BY <2>1, <2>3
  <2>5. DOMAIN w = {"goal", "agent", "driver"}
    BY <1>1, <2>1 DEF Worlds
  <2>6. Settling(x).agent = agent
    BY <2>2, <2>4, <2>5 DEF Settling, Disarmed
  <2> QED
    BY <1>2, <1>4, <2>4, <2>6
<1>9. ~LoopSettles
  <2> SUFFICES ASSUME LoopSettles PROVE FALSE
    OBVIOUS
  <2>1. PICK w : /\ w = [World EXCEPT !.driver.settling = @ - 1]
                 /\ \/ Become(Pass([w EXCEPT !.driver.requested = FALSE]))
                    \/ Become([w EXCEPT !.driver.run = FALSE])
    BY DEF LoopSettles
  <2>2. w.agent = agent /\ DOMAIN w = {"goal", "agent", "driver"}
    BY <1>1, <2>1 DEF Worlds
  <2>3. [w EXCEPT !.driver.run = FALSE].agent = agent
    BY <2>2
  <2>4. PICK y : y = [w EXCEPT !.driver.requested = FALSE]
    OBVIOUS
  <2>5. y.agent = agent /\ DOMAIN y = {"goal", "agent", "driver"}
    BY <2>2, <2>4
  <2>6. Pass(y) = Settling(y)
    BY <1>2, <2>5 DEF Pass, Ready, Idle
  <2>7. Settling(y).agent = agent
    BY <2>5 DEF Settling
  <2> QED
    BY <1>2, <1>4, <2>1, <2>3, <2>4, <2>6, <2>7
<1>10. StepEnters
  <2>1. Loop
    BY <1>5, <1>6, <1>7, <1>8, <1>9 DEF Next, Drive
  <2> QED
    BY <1>2, <2>1 DEF Loop, DriverChecks, HooksEnter, HooksReject, HooksThrow, ClaimDropped,
       StepRefused, StepEnds, MaintenanceEnds
<1>11. ~agent.aborted
  <2> SUFFICES ASSUME agent.aborted PROVE FALSE
    OBVIOUS
  <2>1. Become(Failed(World))
    BY <1>10 DEF StepEnters
  <2>2. Failed(World).agent.pc \in {"none", "assembling"}
    BY <1>1, <1>2, FailedGood DEF Core
  <2> QED
    BY <1>4, <2>1, <2>2
<1> QED
  BY <1>2, <1>10, <1>11 DEF StepEnters, Moved

\* The step that opens finds the round it carries to be the next one.
LEMMA EnteringNext ==
    ASSUME Inv, Next, Enters, ~UpstreamHooks, driver.on # "down"
    PROVE  /\ Armed(World) \/ driver.nested
           /\ goal'.phase = "active" /\ Round.ref # stopped
<1>1. /\ World \in Worlds /\ Core(World, stopped, maintained)
      /\ World.goal = goal /\ World.agent = agent /\ World.driver = driver
  BY DEF Inv, Core, Mid, Base, World, Worlds
<1>2. ~agent.aborted /\ Become(Admitted(Moved(World, "step")))
  BY OnlyStepEnters
<1>3. agent.pc = "outer" /\ Taken(World) = Round /\ Round # Human
  BY <1>1 DEF Enters, Taken, Round
<1>4. /\ goal.phase = "active" /\ stopped # goal.ref /\ Round.ref = goal.ref
      /\ Round.round = goal.rounds + 1 /\ (goal.armed \/ driver.nested)
  BY <1>1, <1>2, <1>3 DEF Core, Gap
<1>5. Round.round <= goal.max
  <2>1. Attempting(World) /\ SameRound(Round, driver.attempt)
    BY <1>1, <1>3 DEF Core, Entering, Own
  <2> QED
    BY <1>1, <1>4, <2>1 DEF SameRound, Core, Mid, Base, Attempt
<1>6. PICK w : w = Moved(World, "step")
  OBVIOUS
<1>7. w.goal = goal /\ w.agent.claimed = agent.claimed /\ w.driver = driver /\ w \in Worlds
  BY <1>1, <1>6, MovedIs DEF Points
<1>8. Admitted(w).goal = [goal EXCEPT !.rounds = Round.round, !.durable = FALSE]
  BY <1>4, <1>5, <1>7 DEF Admitted, Round, Worlds
<1>9. goal'.phase = "active"
  <2>1. goal' = [goal EXCEPT !.rounds = Round.round, !.durable = FALSE]
    BY <1>2, <1>6, <1>8 DEF Become
  <2>2. goal \in Goals
    BY <1>1 DEF Worlds
  <2> QED
    BY <1>4, <2>1, <2>2 DEF Goals
<1> QED
  BY <1>1, <1>4, <1>9 DEF Armed

\* A round that enters is one somebody still wants, and was reserved behind all that came
\* before it, whatever the user, the tools, cancels, faults and unloads did meanwhile, as
\* long as no hook in front of the driver awaits behind its decision (the reservation,
\* the checkpoint and the fence of goal-round-driver).
THEOREM RoundsCurrent ==
    ASSUME ~UpstreamHooks
    PROVE  Spec => RoundsAreCurrent
<1>1. ASSUME Inv, Next, Enters /\ driver.on # "down"
      PROVE  (Armed(World) \/ driver.nested) /\ goal'.phase = "active"
  BY <1>1, EnteringNext
<1>2. ASSUME Inv, Next, Enters /\ driver.on # "down"
      PROVE  Round.ref # stopped
  BY <1>2, EnteringNext
<1>3. ASSUME Inv, Next, Reserves /\ ~driver.nested /\ ~maintained
      PROVE  goal'.durable
  <2>1. Prompts(World, World', maintained)
    BY <1>3, NextSteps DEF Kept
  <2> QED
    BY <1>3, <2>1 DEF Prompts, Reserves, World
<1>4. Spec => FencedRounds
  BY <1>1, Invariance, PTL DEF Spec, FencedRounds
<1>5. Spec => CancelStops
  BY <1>2, Invariance, PTL DEF Spec, CancelStops
<1>6. Spec => CheckpointedFirst
  BY <1>3, Invariance, PTL DEF Spec, CheckpointedFirst
<1> QED
  BY <1>4, <1>5, <1>6 DEF RoundsAreCurrent
=============================================================================
