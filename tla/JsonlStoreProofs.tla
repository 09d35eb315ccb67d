-------------------------- MODULE JsonlStoreProofs --------------------------
(***************************************************************************)
(* Proofs about the JSONL backend, whichever calls fail and whoever stops.   *)
(* First that a session's log belongs to one process at a time: it is never  *)
(* replaced under the process that published or loaded it, and nobody else  *)
(* is told of events stored.  Then that a log survives: the records that     *)
(* were reported stored are anchored on the disk in front of every cut, and  *)
(* what follows the records is one torn tail at most.                       *)
(***************************************************************************)
EXTENDS JsonlStore, SequenceTheorems, WellFoundedInduction, TLAPS

\* What the argument needs to know of the ranges of the variables.
Shape ==
    /\ made \in 0..Log /\ owner \in Processes \cup {NoProcess}
    /\ stage \in [Processes -> Stages] /\ level \in [Processes -> 0..Log]
    /\ materialized \in [Processes -> BOOLEAN]

\* A log that has an owner can be seen.
OwnedIsPublished == owner # NoProcess => Published

\* The last entry of the chain is synced by the process that published it: the
\* others work on a directory, or have yet to try the link.
OwnerSyncs == \A p \in Processes :
    /\ stage[p] = "mkdir" => level[p] < Log
    /\ stage[p] = "syncdir" /\ level[p] = Log => owner = p

\* A process writes behind a log, or repairs one, that it has materialized.
WritersHold == \A p \in Processes :
    stage[p] \in {"write", "sync", "repair", "repairsync"} => materialized[p]

Held == Shape /\ OwnedIsPublished /\ OwnerSyncs /\ WritersHold

\* The owner is replaced by nobody.
OwnerKept == owner # NoProcess => owner' \in {owner, NoProcess}
\* Only the owner learns that the log is materialized.
OwnerTold == \A p \in Processes : (materialized'[p] /\ ~materialized[p]) => owner' = p

\* What every step does.
Keeps == Held' /\ OwnerKept /\ OwnerTold

\* Max of two numbers is one of them, and below neither.
LEMMA MaxOfTwo ==
    ASSUME NEW a \in Int, NEW b \in Int
    PROVE  Max({a, b}) \in {a, b} /\ Max({a, b}) >= a /\ Max({a, b}) >= b
<1>1. \E x \in {a, b} : \A y \in {a, b} : x >= y
  <2>1. CASE a >= b
    BY <2>1
  <2>2. CASE b >= a
    BY <2>2
  <2> QED
    BY <2>1, <2>2
<1> QED
  BY <1>1 DEF Max

\* A process that stops takes nothing from the others.
LEMMA StopHolds ==
    ASSUME Held, NEW gone \in SUBSET Processes, Stop(gone), made' = made
    PROVE  Keeps
BY NoProcessAssumption DEF Held, Shape, OwnedIsPublished, OwnerSyncs, WritersHold,
   Keeps, OwnerKept, OwnerTold, Stop, Published, Log, Stages

\* A rejected call leaves the names and the owner, or stops the process.
LEMMA RejectedHolds ==
    ASSUME Held, NEW p \in Processes, Rejected(p), made' = made
    PROVE  Keeps
<1>1. CASE loading[p]
  <2>1. {p} \in SUBSET Processes /\ Stop({p})
    BY <1>1 DEF Rejected
  <2> QED
    BY <2>1, StopHolds
<1>2. CASE ~loading[p]
  BY <1>2 DEF Held, Shape, OwnedIsPublished, OwnerSyncs, WritersHold, Keeps, OwnerKept,
     OwnerTold, Rejected, Goto, Published, Log, Stages, state
<1> QED
  BY <1>1, <1>2

\* A resolved call tells only a process that owned the log or held it before.
LEMMA ResolvedHolds ==
    ASSUME Held, NEW p \in Processes, Resolved(p), made' = made, owner' = owner,
           owner = p \/ materialized[p]
    PROVE  Keeps
BY DEF Held, Shape, OwnedIsPublished, OwnerSyncs, WritersHold, Keeps, OwnerKept, OwnerTold,
   Resolved, Goto, Published, Log, Stages

\* A step to another stage of a call: what the new stage promises must hold.
LEMMA GotoHolds ==
    ASSUME Held, NEW p \in Processes, NEW s \in Stages, Goto(p, s),
           made' = made, owner' = owner, materialized' = materialized,
           level' \in [Processes -> 0..Log],
           \A q \in Processes \ {p} : level'[q] = level[q],
           s = "mkdir" => level'[p] < Log,
           s = "syncdir" => level'[p] < Log,
           s \in {"write", "sync", "repair", "repairsync"} => materialized[p]
    PROVE  Keeps
<1>1. Shape'
  BY DEF Held, Shape, Goto
<1>2. OwnedIsPublished' /\ OwnerKept /\ OwnerTold
  BY DEF Held, OwnedIsPublished, Published, OwnerKept, OwnerTold
<1>3. \A q \in Processes : stage'[q] = IF q = p THEN s ELSE stage[q]
  BY DEF Held, Shape, Goto
<1>4. OwnerSyncs'
  BY <1>3 DEF Held, Shape, OwnerSyncs, Log
<1>5. WritersHold'
  BY <1>3 DEF Held, WritersHold
<1> QED
  BY <1>1, <1>2, <1>4, <1>5 DEF Held, Keeps

\* A process takes a log that nobody owns, and goes on behind it or syncs its name.
LEMMA TakeHolds ==
    ASSUME Held, NEW p \in Processes, NEW s \in Stages, Goto(p, s), s # "mkdir",
           owner = NoProcess, owner' = p, made' = Log, level' = level,
           materialized' \in [Processes -> BOOLEAN],
           \A q \in Processes \ {p} : materialized'[q] = materialized[q],
           s = "syncdir" \/ materialized'[p]
    PROVE  Keeps
<1>1. \A q \in Processes : stage'[q] = IF q = p THEN s ELSE stage[q]
  BY DEF Held, Shape, Goto
<1>2. Shape'
  <2>1. stage' \in [Processes -> Stages]
    BY DEF Held, Shape, Goto
  <2>2. level' \in [Processes -> 0..Log] /\ made' \in 0..Log
    BY DEF Held, Shape, Log
  <2> QED
    BY <2>1, <2>2 DEF Shape
<1>3. OwnedIsPublished' /\ OwnerKept /\ OwnerTold
  BY DEF OwnedIsPublished, Published, OwnerKept, OwnerTold
<1>4. OwnerSyncs'
  <2>1. \A q \in Processes : ~(stage[q] = "syncdir" /\ level[q] = Log)
    BY NoProcessAssumption DEF Held, OwnerSyncs
  <2> QED
    BY <1>1, <2>1 DEF Held, OwnerSyncs
<1>5. WritersHold'
  BY <1>1 DEF Held, WritersHold
<1> QED
  BY <1>2, <1>3, <1>4, <1>5 DEF Held, Keeps

\* The invariant holds in the states the system starts in.
THEOREM HeldInit == Init => Held
BY DEF Init, Held, Shape, OwnedIsPublished, OwnerSyncs, WritersHold, Published, Log,
   Stages

\* Every step keeps the invariant and does what the property asks of it.
THEOREM HeldNext == Held /\ [Next]_vars => Keeps
<1> SUFFICES ASSUME Held, [Next]_vars PROVE Keeps
  OBVIOUS
<1> USE DEF names, content, call, state, history
<1>s. \A p \in Processes : level[p] \in 0..Log /\ level[p] \in Int
  BY DEF Held, Shape, Log
<1>1. ASSUME NEW p \in Processes, Create(p) PROVE Keeps
  BY <1>1, GotoHolds DEF Create, Held, Shape, Stages
<1>2. ASSUME NEW p \in Processes, StartAppend(p) PROVE Keeps
  <2>1. CASE materialized[p]
    BY <1>2, <2>1, GotoHolds DEF StartAppend, Held, Shape, Stages
  <2>2. CASE ~materialized[p]
    BY <1>2, <2>2, GotoHolds DEF StartAppend, Held, Shape, Stages, Log
  <2> QED
    BY <2>1, <2>2
<1>3. ASSUME NEW p \in Processes, Load(p) PROVE Keeps
  <2>1. /\ owner = NoProcess /\ made' = Log /\ owner' = p /\ level' = level
        /\ materialized' = [materialized EXCEPT ![p] = TRUE]
    BY <1>3 DEF Load, Published
  <2>2. PICK s \in {"repair", "write", "idle"} : Goto(p, s)
    BY <1>3, Zenon DEF Load
  <2> QED
    BY <2>1, <2>2, TakeHolds DEF Held, Shape, Stages
<1>4. ASSUME NEW p \in Processes, MakeDirectory(p) PROVE Keeps
  <2>1. /\ stage[p] = "mkdir" /\ stage' = [stage EXCEPT ![p] = "syncdir"]
        /\ level[p] < Log
    BY <1>4 DEF MakeDirectory, Goto, Held, OwnerSyncs
  <2>2. made' \in 0..Log /\ (Published => made' = made)
    <3>1. made \in Int /\ made \in 0..Log
      BY DEF Held, Shape, Log
    <3>2. made' \in {made, level[p]} /\ made' >= made
      BY <3>1, <1>s, <1>4, MaxOfTwo DEF MakeDirectory
    <3> QED
      BY <3>1, <3>2, <1>s, <2>1 DEF Published, Log
  <2>3. /\ owner' = owner /\ materialized' = materialized /\ level' = level
    BY <1>4 DEF MakeDirectory
  <2> QED
    BY <2>1, <2>2, <2>3 DEF Held, Shape, OwnedIsPublished, OwnerSyncs, WritersHold,
       Keeps, OwnerKept, OwnerTold, Published, Stages
<1>5. ASSUME NEW p \in Processes, SyncDirectory(p) PROVE Keeps
  <2>1. CASE level[p] = Log
    <3>1. owner = p
      BY <1>5, <2>1 DEF SyncDirectory, Held, OwnerSyncs
    <3> QED
      BY <1>5, <2>1, <3>1, ResolvedHolds DEF SyncDirectory
  <2>2. CASE level[p] # Log
    <3>1. level' = [level EXCEPT ![p] = @ + 1] /\ level[p] + 1 \in 0..Log
      BY <1>5, <2>2, <1>s DEF SyncDirectory, Log
    <3>2. /\ level' \in [Processes -> 0..Log] /\ level'[p] = level[p] + 1
          /\ \A q \in Processes \ {p} : level'[q] = level[q]
      BY <3>1 DEF Held, Shape
    <3>3. made' = made /\ owner' = owner /\ materialized' = materialized
      BY <1>5, <2>2 DEF SyncDirectory
    <3>4. CASE level[p] = Log - 1
      BY <1>5, <2>2, <3>2, <3>3, <3>4, GotoHolds DEF SyncDirectory, Stages
    <3>5. CASE level[p] # Log - 1
      <4>1. Goto(p, "mkdir") /\ level'[p] < Log
        BY <1>5, <2>2, <3>2, <3>5, <1>s DEF SyncDirectory, Log
      <4> QED
        BY <4>1, <3>2, <3>3, GotoHolds DEF Stages
    <3> QED
      BY <3>4, <3>5
  <2> QED
    BY <2>1, <2>2
<1>6. ASSUME NEW p \in Processes, CheckNew(p) PROVE Keeps
  <2>1. CASE Published
    BY <1>6, <2>1, RejectedHolds DEF CheckNew
  <2>2. CASE ~Published
    BY <1>6, <2>2, GotoHolds DEF CheckNew, Held, Shape, Stages
  <2> QED
    BY <2>1, <2>2
<1>7. ASSUME NEW p \in Processes, TempWrite(p) \/ TempSync(p) PROVE Keeps
  BY <1>7, GotoHolds DEF TempWrite, TempSync, Held, Shape, Stages
<1>8. ASSUME NEW p \in Processes, Publish(p) PROVE Keeps
  <2>1. CASE Published
    BY <1>8, <2>1, RejectedHolds DEF Publish
  <2>2. CASE ~Published
    <3>1. owner = NoProcess
      BY <2>2 DEF Held, OwnedIsPublished
    <3> QED
      BY <1>8, <2>2, <3>1, TakeHolds DEF Publish, Held, Shape, Stages
  <2> QED
    BY <2>1, <2>2
<1>9. ASSUME NEW p \in Processes, Write(p) \/ WriteFails(p) PROVE Keeps
  <2>1. PICK s \in {"sync", "rollback"} : Goto(p, s)
    BY <1>9 DEF Write, WriteFails, Writes
  <2>2. /\ stage[p] = "write" /\ made' = made /\ owner' = owner /\ level' = level
        /\ materialized' = materialized
    BY <1>9 DEF Write, WriteFails, Writes
  <2>3. materialized[p]
    BY <2>2 DEF Held, WritersHold
  <2> QED
    BY <2>1, <2>2, <2>3, GotoHolds DEF Held, Shape, Stages
<1>10. ASSUME NEW p \in Processes, Sync(p) PROVE Keeps
  <2>1. materialized[p]
    BY <1>10 DEF Sync, Held, WritersHold
  <2> QED
    BY <1>10, <2>1, ResolvedHolds DEF Sync
<1>11. ASSUME NEW p \in Processes, SyncFails(p) \/ Rollback(p) PROVE Keeps
  BY <1>11, GotoHolds DEF SyncFails, Rollback, Held, Shape, Stages
<1>12. ASSUME NEW p \in Processes, RollbackSync(p) PROVE Keeps
  BY <1>12, RejectedHolds DEF RollbackSync
<1>13. ASSUME NEW p \in Processes, Repair(p) PROVE Keeps
  <2>1. materialized[p]
    BY <1>13 DEF Repair, Held, WritersHold
  <2> QED
    BY <1>13, <2>1, GotoHolds DEF Repair, Held, Shape, Stages
<1>14. ASSUME NEW p \in Processes, RepairSync(p) PROVE Keeps
  <2>1. materialized[p]
    BY <1>14 DEF RepairSync, Held, WritersHold
  <2>2. CASE goal[p] > cursor[p]
    BY <1>14, <2>1, <2>2, GotoHolds DEF RepairSync, Held, Shape, Stages
  <2>3. CASE ~(goal[p] > cursor[p])
    BY <1>14, <2>1, <2>3, ResolvedHolds DEF RepairSync
  <2> QED
    BY <2>2, <2>3
<1>15. ASSUME NEW p \in Processes, CallFails(p) \/ CloseFails(p) \/ SyncedCloseFails(p)
       PROVE  Keeps
  BY <1>15, RejectedHolds DEF CallFails, CloseFails, SyncedCloseFails
<1>16. ASSUME NEW p \in Processes, Crash(p) PROVE Keeps
  <2>1. {p} \in SUBSET Processes /\ Stop({p}) /\ made' = made
    BY <1>16 DEF Crash
  <2> QED
    BY <2>1, StopHolds
<1>17. CASE PowerLoss
  <2>1. Stop(Processes) /\ made' \in 0..made
    BY <1>17 DEF PowerLoss
  <2> QED
    BY <2>1, NoProcessAssumption DEF Stop, Held, Shape, OwnedIsPublished, OwnerSyncs,
       WritersHold, Keeps, OwnerKept, OwnerTold, Published, Log, Stages
<1>18. CASE UNCHANGED vars
  <2>1. /\ made' = made /\ owner' = owner /\ stage' = stage /\ level' = level
        /\ materialized' = materialized
    BY <1>18 DEF vars
  <2> QED
    BY <2>1 DEF Held, Shape, OwnedIsPublished, OwnerSyncs, WritersHold, Keeps, OwnerKept,
       OwnerTold, Published
<1> QED
  <2>1. CASE Next
    BY <2>1, <1>1, <1>2, <1>3, <1>4, <1>5, <1>6, <1>7, <1>8, <1>9, <1>10, <1>11,
       <1>12, <1>13, <1>14, <1>15, <1>16, <1>17 DEF Next
  <2> QED
    BY <2>1, <1>18

\* The log belongs to one process at a time: while it has an owner nobody
\* replaces it, and only its owner is ever told that its events are stored,
\* whatever fails and whoever stops (rejectExistingLog, link, commitRepair).
THEOREM Ownership == Spec => NeverClobbered
<1>1. Spec => []Held
  BY HeldInit, HeldNext, PTL DEF Spec, Keeps
<1>2. Held /\ [Next]_vars => [owner # NoProcess => owner' \in {owner, NoProcess}]_vars
  BY HeldNext DEF Keeps, OwnerKept
<1>3. Held /\ [Next]_vars =>
        [\A p \in Processes : (materialized'[p] /\ ~materialized[p]) => owner' = p]_vars
  BY HeldNext DEF Keeps, OwnerTold
<1> QED
  BY <1>1, <1>2, <1>3, PTL DEF Spec, NeverClobbered

-----------------------------------------------------------------------------
\* The pieces a log is made of: what is whole holds an event at least.
Pieces ==
    {q \in [from : 0..MaxEvents, to : -1..MaxEvents, whole : BOOLEAN] :
        q.to >= q.from - 1 /\ (q.whole => q.to >= q.from)}

\* What a file can hold: behind the header, the events are numbered from 1.
Contents == {c \in Seq(Pieces) : \A i \in 1..Len(c) : i > 1 => c[i].from >= 1}

\* The event that piece i has to begin with.
Due(c, i) == IF i = 1 THEN 0 ELSE c[i - 1].to + 1

\* The first n pieces are records in sequence.
InOrder(c, n) == \A i \in 1..n :
    /\ c[i].whole /\ c[i].from = Due(c, i)
    /\ \A j \in 1..i : c[j].to <= c[i].to

\* All of c is in order, through event e.
FullTo(c, e) == Len(c) >= 1 /\ InOrder(c, Len(c)) /\ c[Len(c)].to = e

\* Records in sequence and behind them a torn tail at most.
Torn(c, m) ==
    /\ InOrder(c, m) /\ Len(c) <= m + 1
    /\ Len(c) = m + 1 => ~c[m + 1].whole /\ c[m + 1].from = Due(c, m + 1)
Readable(c) == \E m \in 0..Len(c) : Torn(c, m)

\* The content d is a first part of c, whose last piece may be cut.
CutOf(d, c) ==
    /\ Len(d) <= Len(c)
    /\ \A i \in 1..Len(d) :
        \/ d[i] = c[i]
        \/ i = Len(d) /\ ~d[i].whole /\ d[i].from = c[i].from

-----------------------------------------------------------------------------
\* A set of numbers has a least member.
LEMMA LeastNumber ==
    ASSUME NEW S \in SUBSET Nat, S # {}
    PROVE  \E x \in S : \A y \in S : x <= y
<1> DEFINE R == OpToRel(<, Nat)
<1>1. IsWellFoundedOn(R, Nat)
  BY NatLessThanWellFounded
<1>2. \A x, y \in Nat : y < x => <<y, x>> \in R
  BY DEF OpToRel
<1> HIDE DEF R
<1>3. PICK x \in S : \A y \in S : ~ (<<y, x>> \in R)
  BY <1>1, WFMin
<1>4. \A y \in S : x <= y
  <2> TAKE y \in S
  <2>1. x \in Nat /\ y \in Nat /\ ~(y < x)
    BY <1>2, <1>3
  <2> QED
    BY <2>1
<1> QED
  BY <1>4

\* Max of a bounded set of numbers is its greatest member.
LEMMA Greatest ==
    ASSUME NEW n \in Nat, NEW S \in SUBSET (0..n), S # {}
    PROVE  Max(S) \in S /\ \A y \in S : Max(S) >= y
<1> DEFINE T == {n - y : y \in S}
<1>1. \A y \in S : n - y \in Nat
  OBVIOUS
<1>2. T \in SUBSET Nat /\ T # {}
  BY <1>1
<1>3. PICK x \in T : \A y \in T : x <= y
  BY <1>2, LeastNumber
<1>4. PICK m \in S : x = n - m
  OBVIOUS
<1>5. \A y \in S : m >= y
  <2> TAKE y \in S
  <2>1. n - y \in T
    OBVIOUS
  <2> QED
    BY <2>1, <1>3, <1>4
<1> QED
  BY <1>4, <1>5 DEF Max

\* A member of a content is a piece.
LEMMA PieceTypes ==
    ASSUME NEW c \in Seq(Pieces), NEW i \in 1..Len(c)
    PROVE  /\ c[i] \in Pieces
           /\ c[i].from \in 0..MaxEvents /\ c[i].to \in -1..MaxEvents
           /\ c[i].whole \in BOOLEAN /\ c[i].to >= c[i].from - 1
           /\ c[i].whole => c[i].to >= c[i].from
<1>1. c[i] \in Pieces
  BY ElementOfSeq
<1> QED
  BY <1>1 DEF Pieces

\* Scanned counts the pieces in front that are whole and in sequence, all of them.
LEMMA ScannedCounts ==
    ASSUME NEW c \in Seq(Pieces)
    PROVE  /\ Scanned(c) \in 0..Len(c)
           /\ \A i \in 1..Scanned(c) : c[i].whole /\ c[i].from = Due(c, i)
           /\ \A k \in 1..Len(c) :
                (\A i \in 1..k : c[i].whole /\ c[i].from = Due(c, i)) => k <= Scanned(c)
<1> DEFINE S == {0} \cup {k \in 1..Len(c) : \A i \in 1..k :
                    c[i].whole /\ c[i].from = IF i = 1 THEN 0 ELSE c[i - 1].to + 1}
<1>1. Len(c) \in Nat
  BY LenProperties
<1>2. S \in SUBSET (0..Len(c)) /\ S # {}
  BY <1>1
<1>3. Scanned(c) = Max(S)
  BY DEF Scanned
<1>4. Max(S) \in S /\ \A y \in S : Max(S) >= y
  BY <1>1, <1>2, Greatest
<1>5. Scanned(c) \in 0..Len(c)
  BY <1>2, <1>3, <1>4
<1>6. \A i \in 1..Scanned(c) : c[i].whole /\ c[i].from = Due(c, i)
  BY <1>3, <1>4 DEF Due
<1>7. ASSUME NEW k \in 1..Len(c), \A i \in 1..k : c[i].whole /\ c[i].from = Due(c, i)
      PROVE  k <= Scanned(c)
  <2>1. k \in S
    BY <1>7 DEF Due
  <2> QED
    BY <2>1, <1>2, <1>3, <1>4
<1> QED
  BY <1>5, <1>6, <1>7

\* Records in sequence are scanned, and a torn tail ends the scan.
LEMMA ScannedOrder ==
    ASSUME NEW c \in Seq(Pieces), NEW n \in 0..Len(c), InOrder(c, n)
    PROVE  n <= Scanned(c) /\ (Torn(c, n) => Scanned(c) = n)
<1>1. Len(c) \in Nat /\ Scanned(c) \in 0..Len(c)
  BY LenProperties, ScannedCounts
<1>2. n <= Scanned(c)
  <2>1. CASE n = 0
    BY <1>1, <2>1
  <2>2. CASE n # 0
    <3>1. \A i \in 1..n : c[i].whole /\ c[i].from = Due(c, i)
      BY DEF InOrder
    <3> QED
      BY <1>1, <2>2, <3>1, ScannedCounts
  <2> QED
    BY <2>1, <2>2
<1>3. ASSUME Torn(c, n), Scanned(c) # n PROVE FALSE
  <2>1. Scanned(c) = n + 1 /\ Len(c) = n + 1
    BY <1>1, <1>2, <1>3 DEF Torn
  <2>2. c[n + 1].whole
    BY <1>1, <2>1, ScannedCounts
  <2> QED
    BY <1>3, <2>1, <2>2 DEF Torn
<1> QED
  BY <1>2, <1>3

\* A log with a header and one torn tail at most is not corrupt.
LEMMA ReadableSound ==
    ASSUME NEW c \in Seq(Pieces), Readable(c), NEW n \in 1..Len(c), InOrder(c, n)
    PROVE  /\ ~Corrupt(c) /\ Torn(c, Scanned(c)) /\ Scanned(c) \in n..Len(c)
           /\ Committed(c) = c[Scanned(c)].to /\ Committed(c) >= c[n].to
           /\ Recovered(c) >= Committed(c)
<1>1. Len(c) \in Nat /\ n \in 0..Len(c)
  BY LenProperties
<1>2. PICK m \in 0..Len(c) : Torn(c, m)
  BY DEF Readable
<1>3. Scanned(c) = m
  BY <1>2, ScannedOrder DEF Torn
<1>4. m \in n..Len(c)
  BY <1>1, <1>2, <1>3, ScannedOrder
<1>5. Committed(c) = c[m].to /\ c[m].to >= c[n].to
  BY <1>2, <1>3, <1>4 DEF Committed, Torn, InOrder
<1>6. ~Corrupt(c)
  BY <1>1, <1>2, <1>3, <1>4 DEF Corrupt, Torn
<1>7. Recovered(c) >= Committed(c)
  <2>1. CASE Len(c) = m + 1
    <3>1. c[m + 1].from = c[m].to + 1
      BY <1>2, <1>4, <2>1 DEF Torn, Due
    <3>2. m \in 1..Len(c) /\ m + 1 \in 1..Len(c)
      BY <1>4, <2>1
    <3>3. c[m + 1].to \in Int /\ c[m].to \in Int /\ c[m + 1].to >= c[m + 1].from - 1
      BY <3>2, PieceTypes
    <3>4. Recovered(c) \in {c[m + 1].to, c[m].to}
      BY <1>3, <1>5, <2>1 DEF Recovered
    <3> QED
      BY <3>1, <3>3, <3>4, <1>5
  <2>2. CASE Len(c) # m + 1
    <3>1. m \in 1..Len(c)
      BY <1>4
    <3>2. c[m].to \in Int
      BY <3>1, PieceTypes
    <3> QED
      BY <1>3, <1>5, <2>2, <3>2 DEF Recovered
  <2> QED
    BY <2>1, <2>2
<1> QED
  BY <1>2, <1>3, <1>4, <1>5, <1>6, <1>7


\* What is scanned behind records in sequence only reaches further.
LEMMA ScannedReaches ==
    ASSUME NEW c \in Seq(Pieces), NEW n \in 1..Len(c), InOrder(c, n)
    PROVE  /\ Scanned(c) \in n..Len(c) /\ Committed(c) = c[Scanned(c)].to
           /\ Committed(c) >= c[n].to
<1>1. Len(c) \in Nat /\ n \in 0..Len(c)
  BY LenProperties
<1>2. Scanned(c) \in n..Len(c)
  BY <1>1, ScannedOrder, ScannedCounts
<1>3. Committed(c) = c[Scanned(c)].to
  BY <1>1, <1>2 DEF Committed
<1> DEFINE S == {k \in n..Scanned(c) : c[k].to < c[n].to}
<1>4. ASSUME S # {} PROVE FALSE
  <2>1. S \in SUBSET Nat
    BY <1>1, <1>2
  <2>2. PICK k \in S : \A j \in S : k <= j
    BY <1>4, <2>1, LeastNumber
  <2>3. /\ k \in 1..Len(c) /\ n \in 1..Len(c) /\ k \in 1..Scanned(c)
        /\ k \in n..Scanned(c) /\ c[k].to < c[n].to
    BY <1>1, <1>2
  <2>4. c[n].to \in Int
    BY <2>3, PieceTypes
  <2>5. k # n /\ k - 1 \in n..Scanned(c) /\ k - 1 \in 1..Len(c) /\ k # 1
    BY <1>1, <1>2, <2>3, <2>4
  <2>6. ~(c[k - 1].to < c[n].to)
    BY <2>2, <2>5
  <2>7. c[k].whole /\ c[k].from = c[k - 1].to + 1
    BY <2>3, <2>5, ScannedCounts DEF Due
  <2>8. c[k].to \in Int /\ c[k - 1].to \in Int /\ c[k].to >= c[k].from
    BY <2>3, <2>5, <2>7, PieceTypes
  <2> QED
    BY <2>3, <2>4, <2>6, <2>7, <2>8
<1>5. Scanned(c) \notin S
  BY <1>4
<1>6. Scanned(c) \in 1..Len(c) /\ Scanned(c) \in n..Scanned(c)
  BY <1>1, <1>2
<1>7. ~(c[Scanned(c)].to < c[n].to)
  BY <1>5, <1>6
<1>8. c[Scanned(c)].to \in Int /\ c[n].to \in Int
  BY <1>6, PieceTypes
<1> QED
  BY <1>2, <1>3, <1>7, <1>8

\* The first pieces of a content are a content.
LEMMA Beginnings ==
    ASSUME NEW c \in Seq(Pieces), NEW k \in 0..Len(c)
    PROVE  /\ SubSeq(c, 1, k) \in Seq(Pieces) /\ Len(SubSeq(c, 1, k)) = k
           /\ \A i \in 1..k : SubSeq(c, 1, k)[i] = c[i]
<1>1. Len(c) \in Nat /\ k \in Int
  BY LenProperties
<1>2. \A i \in 1..k : c[i] \in Pieces
  BY <1>1, PieceTypes
<1>3. /\ SubSeq(c, 1, k) \in Seq(Pieces)
      /\ Len(SubSeq(c, 1, k)) = IF 1 <= k THEN k - 1 + 1 ELSE 0
      /\ \A i \in 1 .. k - 1 + 1 : SubSeq(c, 1, k)[i] = c[1 + i - 1]
  BY <1>1, <1>2, SubSeqProperties
<1> QED
  BY <1>1, <1>3

\* What may be left of a content is a first part of it.
LEMMA CutsAreCuts ==
    ASSUME NEW c \in Seq(Pieces), NEW d \in Cuts(c)
    PROVE  d \in Seq(Pieces) /\ CutOf(d, c)
<1>1. Len(c) \in Nat
  BY LenProperties
<1>2. CASE \E k \in 0..Len(c) : d = SubSeq(c, 1, k)
  BY <1>1, <1>2, Beginnings DEF CutOf
<1>3. CASE \E k \in 0..(Len(c) - 1) :
             \E to \in (c[k + 1].from - 1)..(IF zstd THEN c[k + 1].to ELSE c[k + 1].from - 1) :
                 d = Append(SubSeq(c, 1, k), Piece(c[k + 1].from, to, FALSE))
  <2>0. PICK k \in 0..(Len(c) - 1) :
             \E to \in (c[k + 1].from - 1)..(IF zstd THEN c[k + 1].to ELSE c[k + 1].from - 1) :
                 d = Append(SubSeq(c, 1, k), Piece(c[k + 1].from, to, FALSE))
    BY <1>3
  <2>1. PICK to \in (c[k + 1].from - 1)..(IF zstd THEN c[k + 1].to ELSE c[k + 1].from - 1) :
                 d = Append(SubSeq(c, 1, k), Piece(c[k + 1].from, to, FALSE))
    BY <2>0
  <2> DEFINE b == SubSeq(c, 1, k)
             e == Piece(c[k + 1].from, to, FALSE)
  <2>2. k + 1 \in 1..Len(c) /\ k \in 0..Len(c)
    BY <1>1
  <2>3. /\ c[k + 1].from \in 0..MaxEvents /\ c[k + 1].to \in -1..MaxEvents
        /\ c[k + 1].to >= c[k + 1].from - 1
    BY <2>2, PieceTypes
  <2>4. to \in -1..MaxEvents /\ to >= c[k + 1].from - 1
    BY <2>3, MaxEventsAssumption
  <2>5. e \in Pieces /\ ~e.whole /\ e.from = c[k + 1].from
    BY <2>3, <2>4 DEF Piece, Pieces
  <2>6. b \in Seq(Pieces) /\ Len(b) = k /\ \A i \in 1..k : b[i] = c[i]
    BY <2>2, Beginnings
  <2> HIDE DEF b, e
  <2>7. d = Append(b, e)
    BY <2>1 DEF b, e
  <2>8. /\ d \in Seq(Pieces) /\ Len(d) = k + 1 /\ d[k + 1] = e
        /\ \A i \in 1..k : d[i] = b[i]
    BY <2>5, <2>6, <2>7, AppendProperties
  <2>9. CutOf(d, c)
    BY <1>1, <2>2, <2>5, <2>6, <2>8 DEF CutOf
  <2> QED
    BY <2>8, <2>9
<1> QED
  BY <1>2, <1>3 DEF Cuts

\* A first part of a content is one, too.
LEMMA CutContents ==
    ASSUME NEW c \in Contents, NEW d \in Seq(Pieces), CutOf(d, c)
    PROVE  d \in Contents
<1>1. Len(c) \in Nat /\ Len(d) \in Nat /\ c \in Seq(Pieces)
  BY LenProperties DEF Contents
<1>2. \A i \in 1..Len(d) : d[i].from = c[i].from
  BY <1>1 DEF CutOf
<1> QED
  BY <1>1, <1>2 DEF CutOf, Contents

\* Pieces stay in order in a content that begins alike.
LEMMA SameOrder ==
    ASSUME NEW c, NEW d, NEW n \in Nat, InOrder(c, n), \A i \in 1..n : d[i] = c[i]
    PROVE  InOrder(d, n)
<1>1. \A i \in 1..n : d[i].from = Due(d, i)
  BY DEF InOrder, Due
<1> QED
  BY <1>1 DEF InOrder

\* Less of what is in order is in order.
LEMMA LessInOrder ==
    ASSUME NEW c, NEW n \in Nat, NEW k \in 0..n, InOrder(c, n)
    PROVE  InOrder(c, k)
BY DEF InOrder

\* However a readable content is cut, what is left of it is readable.
LEMMA CutReadable ==
    ASSUME NEW c \in Seq(Pieces), NEW d \in Seq(Pieces), CutOf(d, c), Readable(c)
    PROVE  Readable(d)
<1>1. Len(c) \in Nat /\ Len(d) \in Nat /\ Len(d) <= Len(c)
  BY LenProperties DEF CutOf
<1>2. PICK m \in 0..Len(c) : Torn(c, m)
  BY DEF Readable
<1>3. CASE Len(d) = 0
  BY <1>3 DEF Readable, Torn, InOrder
<1>4. CASE Len(d) > 0
  <2> DEFINE l == Len(d)
  <2>1. l \in 1..Len(c) /\ l - 1 \in Nat /\ l <= m + 1
    BY <1>1, <1>2, <1>4 DEF Torn
  <2>2. \A i \in 1..(l - 1) : d[i] = c[i]
    BY <1>1 DEF CutOf
  <2>3. d[l] = c[l] \/ (~d[l].whole /\ d[l].from = c[l].from)
    BY <2>1 DEF CutOf
  <2>4. Due(d, l) = Due(c, l)
    <3>1. ASSUME l # 1 PROVE d[l - 1] = c[l - 1]
      <4>0. l \in Nat /\ l >= 1
        BY <1>1, <1>4
      <4> HIDE DEF l
      <4>1. l - 1 \in 1..(l - 1)
        BY <4>0, <3>1
      <4> QED
        BY <2>2, <4>1
    <3> QED
      BY <3>1 DEF Due
  <2>5. InOrder(c, m)
    BY <1>2 DEF Torn
  <2>6. InOrder(d, l - 1)
    <3>1. InOrder(c, l - 1)
      BY <2>1, <2>5, LessInOrder
    <3> QED
      BY <2>1, <2>2, <3>1, SameOrder
  <2>7. CASE d[l].whole
    <3>1. d[l] = c[l] /\ l <= m
      BY <1>1, <1>2, <2>1, <2>3, <2>7 DEF Torn
    <3>2. InOrder(c, l) /\ \A i \in 1..l : d[i] = c[i]
      BY <2>1, <2>2, <2>5, <3>1, LessInOrder
    <3>3. InOrder(d, l)
      BY <2>1, <3>2, SameOrder
    <3> QED
      BY <2>1, <3>3 DEF Readable, Torn
  <2>8. CASE ~d[l].whole
    <3>1. c[l].from = Due(c, l)
      BY <1>1, <1>2, <2>1, <2>5 DEF Torn, InOrder
    <3>2. d[l].from = Due(d, l)
      BY <2>3, <2>4, <3>1
    <3>3. Torn(d, l - 1)
      BY <2>1, <2>6, <2>8, <3>2 DEF Torn
    <3> QED
      BY <2>1, <3>3 DEF Readable
  <2> QED
    BY <2>7, <2>8
<1> QED
  BY <1>1, <1>3, <1>4

\* What is cut of a batch is cut of the content it was written behind.
LEMMA CutBehind ==
    ASSUME NEW c \in Seq(Pieces), NEW w \in Seq(Pieces), NEW v \in Seq(Pieces), CutOf(v, w)
    PROVE  /\ c \o v \in Seq(Pieces) /\ Len(c \o v) = Len(c) + Len(v)
           /\ \A i \in 1..Len(c) : (c \o v)[i] = c[i]
           /\ CutOf(c \o v, c \o w)
<1>1. Len(c) \in Nat /\ Len(v) \in Nat /\ Len(w) \in Nat /\ Len(v) <= Len(w)
  BY LenProperties DEF CutOf
<1> DEFINE a == c \o v
           b == c \o w
<1>2. /\ a \in Seq(Pieces) /\ Len(a) = Len(c) + Len(v)
      /\ \A i \in 1..(Len(c) + Len(v)) :
           a[i] = IF i <= Len(c) THEN c[i] ELSE v[i - Len(c)]
  BY ConcatProperties
<1>3. /\ Len(b) = Len(c) + Len(w)
      /\ \A i \in 1..(Len(c) + Len(w)) :
           b[i] = IF i <= Len(c) THEN c[i] ELSE w[i - Len(c)]
  BY ConcatProperties
<1> HIDE DEF a, b
<1>4. \A i \in 1..Len(c) : a[i] = c[i]
  BY <1>1, <1>2
<1>5. CutOf(a, b)
  <2>1. Len(a) <= Len(b)
    BY <1>1, <1>2, <1>3
  <2>2. ASSUME NEW i \in 1..Len(a)
        PROVE  a[i] = b[i] \/ (i = Len(a) /\ ~a[i].whole /\ a[i].from = b[i].from)
    <3>1. CASE i <= Len(c)
      <4>1. Len(c) \in Nat /\ i \in 1..(Len(c) + Len(v)) /\ i \in 1..(Len(c) + Len(w))
        BY <1>1, <1>2
      <4>2. a[i] = c[i]
        BY <1>2, <3>1, <4>1
      <4>3. b[i] = c[i]
        BY <1>3, <3>1, <4>1
      <4> QED
        BY <4>2, <4>3
    <3>2. CASE i > Len(c)
      <4> DEFINE j == i - Len(c)
      <4>1. j \in 1..Len(v) /\ a[i] = v[j] /\ b[i] = w[j]
        BY <1>1, <1>2, <1>3, <3>2
      <4>2. v[j] = w[j] \/ (j = Len(v) /\ ~v[j].whole /\ v[j].from = w[j].from)
        BY <4>1 DEF CutOf
      <4>3. j = Len(v) => i = Len(a)
        BY <1>1, <1>2, <3>2
      <4> HIDE DEF j
      <4> QED
        BY <4>1, <4>2, <4>3
    <3> QED
      BY <1>1, <1>2, <3>1, <3>2
  <2> QED
    BY <2>1, <2>2 DEF CutOf
<1> QED
  BY <1>2, <1>4, <1>5 DEF a, b


\* A batch of events is encoded as whole records in sequence.
LEMMA EncodedIs ==
    ASSUME NEW from \in 1..MaxEvents, NEW to \in from..MaxEvents
    PROVE  /\ Encoded(from, to) \in Seq(Pieces) /\ Len(Encoded(from, to)) >= 1
           /\ \A i \in 1..Len(Encoded(from, to)) :
                /\ Encoded(from, to)[i].whole
                /\ Encoded(from, to)[i].from >= 1
                /\ Encoded(from, to)[i].from =
                      IF i = 1 THEN from ELSE Encoded(from, to)[i - 1].to + 1
                /\ \A j \in 1..i : /\ Encoded(from, to)[j].to >= from
                                   /\ Encoded(from, to)[j].to <= Encoded(from, to)[i].to
           /\ Encoded(from, to)[Len(Encoded(from, to))].to = to
<1> DEFINE w == Encoded(from, to)
<1>0. from \in Nat /\ to \in Nat /\ from >= 1 /\ to >= from /\ to <= MaxEvents
  BY MaxEventsAssumption
<1>1. CASE zstd
  <2> DEFINE q == Piece(from, to, TRUE)
  <2>1. q \in Pieces /\ q.from = from /\ q.to = to /\ q.whole = TRUE
    BY <1>0, MaxEventsAssumption DEF Piece, Pieces
  <2> HIDE DEF q
  <2>2. w = <<q>>
    BY <1>1 DEF Encoded, q
  <2> HIDE DEF w
  <2>3. w \in Seq(Pieces) /\ Len(w) = 1 /\ w[1] = q
    BY <2>1, <2>2
  <2>4. \A i \in 1..Len(w) : i = 1 /\ w[i] = q
    BY <2>3
  <2>5. /\ w \in Seq(Pieces) /\ Len(w) >= 1
        /\ \A i \in 1..Len(w) :
             /\ w[i].whole /\ w[i].from >= 1
             /\ w[i].from = IF i = 1 THEN from ELSE w[i - 1].to + 1
             /\ \A j \in 1..i : w[j].to >= from /\ w[j].to <= w[i].to
        /\ w[Len(w)].to = to
    BY <1>0, <2>1, <2>3, <2>4
  <2> QED
    BY <2>5 DEF w
<1>2. CASE ~zstd
  <2> DEFINE n == to + 1 - from
             Line(i) == Piece(from + i - 1, from + i - 1, TRUE)
  <2>1. n \in Nat /\ n >= 1
    BY <1>0
  <2>2. \A i \in 1..n : /\ Line(i) \in Pieces /\ Line(i).whole = TRUE
                        /\ Line(i).from = from + i - 1 /\ Line(i).to = from + i - 1
    BY <1>0, MaxEventsAssumption DEF Piece, Pieces
  <2>3. w = [i \in 1..n |-> Line(i)]
    BY <1>2 DEF Encoded
  <2> HIDE DEF w, n, Line
  <2>4. w \in [1..n -> Pieces] /\ \A i \in 1..n : w[i] = Line(i)
    BY <2>2, <2>3
  <2>5. w \in Seq(Pieces)
    BY <2>1, <2>4, SeqDef
  <2>6. Len(w) = n
    BY <2>1, <2>4, <2>5, LenProperties
  <2>7. \A i \in 1..n : w[i].whole /\ w[i].from = from + i - 1 /\ w[i].to = from + i - 1
    BY <2>2, <2>4
  <2>8. ASSUME NEW i \in 1..n
        PROVE  /\ w[i].whole /\ w[i].from >= 1
               /\ w[i].from = IF i = 1 THEN from ELSE w[i - 1].to + 1
               /\ \A j \in 1..i : w[j].to >= from /\ w[j].to <= w[i].to
    <3>1. w[i].whole /\ w[i].from >= 1
      BY <1>0, <2>1, <2>7
    <3>2. w[i].from = IF i = 1 THEN from ELSE w[i - 1].to + 1
      <4>1. i # 1 => i - 1 \in 1..n
        BY <2>1
      <4> QED
        BY <1>0, <2>1, <2>7, <4>1
    <3>3. ASSUME NEW j \in 1..i PROVE w[j].to >= from /\ w[j].to <= w[i].to
      <4>1. j \in 1..n
        BY <2>1
      <4> QED
        BY <1>0, <2>1, <2>7, <4>1
    <3> QED
      BY <3>1, <3>2, <3>3
  <2>9. n \in 1..n /\ w[n].to = to
    BY <1>0, <2>1, <2>7 DEF n
  <2>10. /\ w \in Seq(Pieces) /\ Len(w) >= 1
         /\ \A i \in 1..Len(w) :
              /\ w[i].whole /\ w[i].from >= 1
              /\ w[i].from = IF i = 1 THEN from ELSE w[i - 1].to + 1
              /\ \A j \in 1..i : w[j].to >= from /\ w[j].to <= w[i].to
         /\ w[Len(w)].to = to
    BY <2>1, <2>5, <2>6, <2>8, <2>9
  <2> QED
    BY <2>10 DEF w
<1> QED
  BY <1>1, <1>2

\* Behind a content that is in order, the next batch is.
LEMMA WrittenInOrder ==
    ASSUME NEW c \in Seq(Pieces), NEW e \in 0..MaxEvents, FullTo(c, e),
           NEW to \in (e + 1)..MaxEvents
    PROVE  FullTo(c \o Encoded(e + 1, to), to)
<1> DEFINE w == Encoded(e + 1, to)
           a == c \o w
<1>0. e + 1 \in 1..MaxEvents /\ e \in Nat /\ to \in Nat
  BY MaxEventsAssumption
<1>1. /\ w \in Seq(Pieces) /\ Len(w) >= 1
      /\ \A i \in 1..Len(w) :
           /\ w[i].whole
           /\ w[i].from = IF i = 1 THEN e + 1 ELSE w[i - 1].to + 1
           /\ \A j \in 1..i : w[j].to >= e + 1 /\ w[j].to <= w[i].to
      /\ w[Len(w)].to = to
  BY <1>0, EncodedIs
<1>2. /\ a \in Seq(Pieces) /\ Len(a) = Len(c) + Len(w)
      /\ \A i \in 1..(Len(c) + Len(w)) :
           a[i] = IF i <= Len(c) THEN c[i] ELSE w[i - Len(c)]
  BY <1>1, ConcatProperties
<1>3. Len(c) \in Nat /\ Len(w) \in Nat /\ Len(c) >= 1
  BY <1>1, LenProperties DEF FullTo
<1> HIDE DEF w, a
<1>4. \A i \in 1..Len(c) : a[i] = c[i]
  BY <1>2, <1>3
<1>5. \A i \in 1..Len(w) : a[Len(c) + i] = w[i]
  BY <1>2, <1>3
<1>6. InOrder(c, Len(c)) /\ c[Len(c)].to = e
  BY DEF FullTo
<1>7. InOrder(a, Len(c))
  BY <1>3, <1>4, <1>6, SameOrder
<1>8. \A j \in 1..Len(c) : a[j].to \in Int /\ a[j].to <= e
  <2> TAKE j \in 1..Len(c)
  <2>1. c[j].to \in Int /\ c[j].to <= c[Len(c)].to
    BY <1>3, <1>6, PieceTypes DEF InOrder
  <2> QED
    BY <1>4, <1>6, <2>1
<1>9. \A j \in 1..Len(w) : w[j].to \in Int
  BY <1>1, PieceTypes
<1>10. ASSUME NEW i \in 1..Len(w)
       PROVE  /\ a[Len(c) + i].whole /\ a[Len(c) + i].from = Due(a, Len(c) + i)
              /\ \A j \in 1..(Len(c) + i) : a[j].to <= a[Len(c) + i].to
  <2>1. a[Len(c) + i] = w[i] /\ w[i].whole /\ w[i].to \in Int /\ w[i].to >= e + 1
    BY <1>1, <1>3, <1>5, <1>9
  <2>2. w[i].from = Due(a, Len(c) + i)
    <3>1. CASE i = 1
      <4>1. Len(c) + i - 1 = Len(c) /\ Len(c) + i # 1
        BY <1>3, <3>1
      <4> QED
        BY <1>1, <1>3, <1>4, <1>6, <3>1, <4>1 DEF Due
    <3>2. CASE i # 1
      <4>1. i - 1 \in 1..Len(w) /\ Len(c) + i - 1 = Len(c) + (i - 1) /\ Len(c) + i # 1
        BY <1>3, <3>2
      <4>2. a[Len(c) + i - 1] = w[i - 1]
        BY <1>5, <4>1
      <4> QED
        BY <1>1, <3>2, <4>1, <4>2 DEF Due
    <3> QED
      BY <3>1, <3>2
  <2>3. ASSUME NEW j \in 1..(Len(c) + i) PROVE a[j].to <= w[i].to
    <3>1. CASE j <= Len(c)
      <4>1. a[j].to \in Int /\ a[j].to <= e
        BY <1>3, <1>8, <3>1
      <4> QED
        BY <1>0, <2>1, <4>1
    <3>2. CASE j > Len(c)
      <4>1. j - Len(c) \in 1..i /\ j = Len(c) + (j - Len(c)) /\ j - Len(c) \in 1..Len(w)
        BY <1>3, <3>2
      <4>2. a[j] = w[j - Len(c)]
        BY <1>5, <4>1
      <4> QED
        BY <1>1, <4>1, <4>2
    <3> QED
      BY <1>3, <3>1, <3>2
  <2> QED
    BY <2>1, <2>2, <2>3
<1>11. InOrder(a, Len(c) + Len(w))
  <2> SUFFICES ASSUME NEW i \in 1..(Len(c) + Len(w))
               PROVE  /\ a[i].whole /\ a[i].from = Due(a, i)
                      /\ \A j \in 1..i : a[j].to <= a[i].to
    BY DEF InOrder
  <2>1. CASE i <= Len(c)
    BY <1>3, <1>7, <2>1 DEF InOrder
  <2>2. CASE i > Len(c)
    <3>1. i - Len(c) \in 1..Len(w) /\ Len(c) + (i - Len(c)) = i
      BY <1>3, <2>2
    <3> QED
      BY <1>10, <3>1
  <2> QED
    BY <1>3, <2>1, <2>2
<1>12. a[Len(a)].to = to /\ Len(a) >= 1
  <2>1. Len(w) \in 1..Len(w)
    BY <1>1, <1>3
  <2>2. a[Len(c) + Len(w)] = w[Len(w)]
    BY <1>5, <2>1
  <2> QED
    BY <1>1, <1>2, <1>3, <2>2
<1>13. FullTo(a, to)
  BY <1>2, <1>11, <1>12 DEF FullTo
<1> QED
  BY <1>13 DEF a, w

\* A content in order is readable.
LEMMA FullReadable ==
    ASSUME NEW c \in Seq(Pieces), NEW e, FullTo(c, e)
    PROVE  Readable(c)
<1>1. Len(c) \in Nat
  BY LenProperties
<1>2. Torn(c, Len(c))
  BY <1>1 DEF FullTo, Torn
<1> QED
  BY <1>1, <1>2 DEF Readable

\* Of a batch that is written behind a content, any part keeps the content's kind.
LEMMA WrittenContents ==
    ASSUME NEW c \in Contents, Len(c) >= 1, NEW from \in 1..MaxEvents,
           NEW to \in from..MaxEvents, NEW v \in Seq(Pieces), CutOf(v, Encoded(from, to))
    PROVE  c \o v \in Contents
<1> DEFINE w == Encoded(from, to)
           a == c \o v
<1>1. c \in Seq(Pieces) /\ Len(c) \in Nat /\ Len(v) \in Nat
  BY LenProperties DEF Contents
<1>2. w \in Seq(Pieces) /\ \A i \in 1..Len(w) : w[i].from >= 1
  BY EncodedIs
<1>3. Len(w) \in Nat
  BY <1>2, LenProperties
<1>4. /\ a \in Seq(Pieces) /\ Len(a) = Len(c) + Len(v)
      /\ \A i \in 1..(Len(c) + Len(v)) :
           a[i] = IF i <= Len(c) THEN c[i] ELSE v[i - Len(c)]
  BY <1>1, ConcatProperties
<1>5. CutOf(v, w)
  OBVIOUS
<1> HIDE DEF w, a
<1>6. \A i \in 1..Len(v) : v[i].from >= 1
  <2> TAKE i \in 1..Len(v)
  <2>1. i \in 1..Len(w) /\ v[i].from = w[i].from
    BY <1>1, <1>3, <1>5 DEF CutOf
  <2> QED
    BY <1>2, <2>1
<1>7. \A i \in 1..Len(a) : i > 1 => a[i].from >= 1
  <2> TAKE i \in 1..Len(a)
  <2>1. CASE i <= Len(c)
    BY <1>1, <1>4, <2>1 DEF Contents
  <2>2. CASE i > Len(c)
    <3>1. i - Len(c) \in 1..Len(v) /\ a[i] = v[i - Len(c)]
      BY <1>1, <1>4, <2>2
    <3> QED
      BY <1>6, <3>1
  <2> QED
    BY <1>1, <1>4, <2>1, <2>2
<1> QED
  BY <1>4, <1>7 DEF Contents, a


\* A temporary file holds the header and a first batch, in order.
LEMMA FirstBatch ==
    ASSUME NEW to \in 1..MaxEvents
    PROVE  /\ <<Header>> \o Encoded(1, to) \in Contents
           /\ FullTo(<<Header>> \o Encoded(1, to), to)
<1> DEFINE h == <<Header>>
           w == Encoded(1, to)
<1>1. Header \in Pieces /\ Header.from = 0 /\ Header.to = 0 /\ Header.whole = TRUE
  BY MaxEventsAssumption DEF Header, Piece, Pieces
<1>2. h \in Seq(Pieces) /\ Len(h) = 1 /\ h[1] = Header
  BY <1>1
<1>3. 1 \in 1..MaxEvents /\ to \in 1..MaxEvents /\ 0 \in 0..MaxEvents
  BY MaxEventsAssumption
<1>4. w \in Seq(Pieces)
  BY <1>3, EncodedIs
<1>5. CutOf(w, Encoded(1, to)) /\ Len(h) >= 1
  BY <1>2, <1>4, LenProperties DEF CutOf
<1> HIDE DEF h, w
<1>6. h \in Contents
  <2>1. \A i \in 1..Len(h) : ~(i > 1)
    BY <1>2
  <2> QED
    BY <1>2, <2>1 DEF Contents
<1>7. FullTo(h, 0)
  BY <1>1, <1>2 DEF FullTo, InOrder, Due
<1>8. h \o w \in Contents
  BY <1>2, <1>3, <1>4, <1>5, <1>6, WrittenContents
<1>9. FullTo(h \o w, to)
  <2>1. to \in (0 + 1)..MaxEvents /\ w = Encoded(0 + 1, to)
    BY DEF w
  <2> QED
    BY <1>2, <1>3, <1>7, <2>1, WrittenInOrder
<1> QED
  BY <1>8, <1>9 DEF h, w

-----------------------------------------------------------------------------
\* The calls that materialize a session, that have a batch at hand, and whose
\* next step may cut the file.
Materializing == {"mkdir", "syncdir", "check", "tempwrite", "tempsync", "link"}
Batching == Materializing \cup {"write", "sync", "rollback"}
Cutting == {"sync", "rollback", "repair"}

\* The variables are of their kinds.
Types ==
    /\ zstd \in BOOLEAN /\ made \in 0..Log /\ kept \subseteq 1..made
    /\ file \in Contents /\ disk \in Contents /\ temp \in [Processes -> Contents]
    /\ stage \in [Processes -> Stages] /\ level \in [Processes -> 0..Log]
    /\ loading \in [Processes -> BOOLEAN] /\ materialized \in [Processes -> BOOLEAN]
    /\ cursor \in [Processes -> 0..MaxEvents] /\ goal \in [Processes -> 0..MaxEvents]
    /\ synced \in [Processes -> BOOLEAN] /\ before \in [Processes -> Nat]
    /\ owner \in Processes \cup {NoProcess} /\ first \in Nat /\ acked \in 0..MaxEvents
    /\ damage \in {"none", "remnant", "buried"} /\ unnamed \in BOOLEAN

\* The log's name is synced behind its parents', and before an append is
\* reported stored, unless the log was loaded without its name.
Names == /\ Log \in kept => 1..Log \subseteq kept
         /\ acked > 0 /\ ~unnamed => Log \in kept

\* The first n pieces hold what must not be lost: they are on the disk, and no
\* cut that is due reaches them.
Anchored(n) ==
    /\ n \in 1..Len(file) /\ n <= Len(disk) /\ n >= first
    /\ InOrder(file, n)
    /\ \A i \in 1..n : disk[i] = file[i]
    /\ \A p \in Processes : stage[p] \in Cutting => n <= before[p]
    /\ acked > 0 /\ ~unnamed => file[n].to >= acked
Anchor == Published => \E n \in Nat : Anchored(n)

\* Both contents can be read while no remnant is buried, and only a log that can
\* be seen is damaged.
Contained == /\ Published /\ damage # "buried" => Readable(file) /\ Readable(disk)
             /\ ~Published => damage = "none"

\* A process makes the directories from the top, each on a synced parent.
OnChain(p) ==
    /\ stage[p] \in {"mkdir", "syncdir"} => level[p] >= 1 /\ 1..(level[p] - 1) \subseteq kept
    /\ stage[p] = "syncdir" => level[p] <= made
    /\ stage[p] \in {"check", "tempwrite", "tempsync", "link"} =>
          level[p] = Log /\ 1..(Log - 1) \subseteq kept

\* A process that has materialized the session owns its log, whose name is synced or
\* was not when it was loaded; what a call holds fits the stage it is at.
Holds(p) ==
    /\ materialized[p] => owner = p /\ (unnamed \/ Log \in kept)
    /\ stage[p] \in {"rollback", "rollsync"} => materialized[p]
    /\ stage[p] \in Materializing => ~materialized[p]
    /\ stage[p] \in {"repair", "repairsync"} => loading[p]
    /\ stage[p] \in Batching => goal[p] > cursor[p]
    /\ stage[p] \in Cutting => before[p] \in 1..Len(file)
    /\ stage[p] \in {"tempsync", "link"} => FullTo(temp[p], goal[p])
    /\ stage[p] = "link" => synced[p]

\* While no rejected append has left anything in the log, its owner's cursor and its cuts
\* are where the records of the file end; behind a failed rollback or a failed close
\* (damage) only this is said, that no call goes on before it has written behind them.
Reaches(p) ==
    /\ stage[p] \in {"sync", "repair", "repairsync"} => damage # "remnant"
    /\ stage[p] = "syncdir" /\ level[p] = Log =>
          damage = "none" /\ FullTo(file, goal[p]) /\ disk = file
    /\ damage = "none" /\ materialized[p] =>
        /\ stage[p] \in {"repair", "repairsync"} => goal[p] >= cursor[p]
        /\ stage[p] \in {"idle", "write", "rollsync", "repairsync"} => FullTo(file, cursor[p])
        /\ stage[p] = "sync" => FullTo(file, goal[p])
        /\ stage[p] \in Cutting =>
              InOrder(file, before[p]) /\ file[before[p]].to = cursor[p]

Local(p) == OnChain(p) /\ Holds(p) /\ Reaches(p)

Sound == Types /\ Names /\ Anchor /\ Contained /\ \A p \in Processes : Local(p)

\* A step of p leaves what the other processes hold, and the file to its owner.
Aside(p) ==
    \A q \in Processes \ {p} :
        /\ stage'[q] = stage[q] /\ level'[q] = level[q] /\ loading'[q] = loading[q]
        /\ materialized'[q] = materialized[q] /\ cursor'[q] = cursor[q]
        /\ goal'[q] = goal[q] /\ temp'[q] = temp[q] /\ synced'[q] = synced[q]
        /\ before'[q] = before[q]
        /\ owner = q => owner' = q /\ file' = file /\ disk' = disk /\ damage' = damage

\* What is synced or made, and what was loaded without a name, only grows in a step
\* that is no power loss.
Grows == kept \subseteq kept' /\ made' \in made..Log /\ (unnamed => unnamed')

-----------------------------------------------------------------------------
\* Only the owner is at a stage that changes the file or syncs its name.
LEMMA OwnersStages ==
    ASSUME Held, Sound, NEW q \in Processes
    PROVE  /\ stage[q] \in {"write", "sync", "rollback", "rollsync", "repair", "repairsync"} =>
                  materialized[q]
           /\ materialized[q] => owner = q /\ Published
           /\ stage[q] = "syncdir" /\ level[q] = Log => owner = q
<1>1. Holds(q)
  BY DEF Sound, Local
<1>2. materialized[q] => owner = q /\ Published
  BY <1>1, NoProcessAssumption DEF Holds, Held, OwnedIsPublished
<1> QED
  BY <1>1, <1>2 DEF Holds, Held, WritersHold, OwnerSyncs

\* What holds of a process holds behind a step of another one.
LEMMA OthersHold ==
    ASSUME Held, Sound, NEW p \in Processes, Aside(p), Grows, NEW q \in Processes \ {p}
    PROVE  Local(q)'
<1>1. /\ stage'[q] = stage[q] /\ level'[q] = level[q] /\ loading'[q] = loading[q]
      /\ materialized'[q] = materialized[q] /\ cursor'[q] = cursor[q]
      /\ goal'[q] = goal[q] /\ temp'[q] = temp[q] /\ synced'[q] = synced[q]
      /\ before'[q] = before[q]
      /\ owner = q => owner' = q /\ file' = file /\ disk' = disk /\ damage' = damage
  BY DEF Aside
<1>2. Local(q)
  BY DEF Sound
<1>3. OnChain(q)'
  <2>1. kept \subseteq kept' /\ made' \in made..Log /\ made \in Int /\ level[q] \in Int
    BY DEF Grows, Sound, Types, Log
  <2>2. stage[q] = "syncdir" => level[q] <= made'
    BY <1>2, <2>1 DEF Local, OnChain, Log
  <2> QED
    BY <1>1, <1>2, <2>1, <2>2 DEF Local, OnChain
<1>4. Holds(q)'
  BY <1>1, <1>2, OwnersStages DEF Local, Holds, Grows, Cutting
<1>5. Reaches(q)'
  BY <1>1, <1>2, OwnersStages DEF Local, Reaches, Cutting
<1> QED
  BY <1>3, <1>4, <1>5 DEF Local


\* A step of p is sound when it is for p and for what all processes share.
LEMMA Assembled ==
    ASSUME Held, Sound, NEW p \in Processes, Aside(p), Grows,
           Types', Names', Anchor', Contained', Local(p)'
    PROVE  Sound'
BY OthersHold DEF Sound

\* What is anchored stays so while the file and the disk keep it, and no more is
\* reported stored.
LEMMA AnchorKept ==
    ASSUME NEW n \in Nat, Anchored(n), n <= Len(file'), n <= Len(disk'),
           Len(file') \in Nat, first' = first,
           \A i \in 1..n : file'[i] = file[i] /\ disk'[i] = file[i],
           \A q \in Processes : stage'[q] \in Cutting => n <= before'[q],
           unnamed => unnamed', acked' = acked
    PROVE  Anchored(n)'
<1>1. n \in 1..Len(file')
  BY DEF Anchored
<1>2. InOrder(file', n)
  BY SameOrder DEF Anchored
<1>3. acked' > 0 /\ ~unnamed' => file'[n].to >= acked'
  BY <1>1 DEF Anchored
<1> QED
  BY <1>1, <1>2, <1>3 DEF Anchored

\* More names may be synced, the log's own one behind its parents'.
NamesKept == /\ kept \subseteq kept' /\ kept' \subseteq kept \cup 1..made
             /\ Log \in kept' => Log \in kept \/ 1..Log \subseteq kept'

\* Neither the contents nor the names that can be seen change.
Untouched == /\ zstd' = zstd /\ made' = made /\ NamesKept /\ file' = file
             /\ disk' \in {disk, file} /\ first' = first /\ acked' = acked
             /\ unnamed' = unnamed

\* The log is seen as before and named as before, and its contents do not change.
Steady == /\ Published' = Published /\ kept \subseteq kept'
          /\ (Log \in kept' => Log \in kept \/ 1..Log \subseteq kept')
          /\ file' = file /\ disk' \in {disk, file} /\ first' = first /\ acked' = acked
          /\ unnamed' = unnamed

\* What is not touched is steady.
LEMMA UntouchedSteady == Untouched => Steady
BY DEF Untouched, NamesKept, Steady, Published

\* A step that leaves the log's name and contents keeps what all processes share.
LEMMA SteadyHolds ==
    ASSUME Held, Sound, Steady, damage' = damage \/ Published,
           damage = "buried" => damage' = "buried",
           \A q \in Processes : stage'[q] \in Cutting =>
                                    stage[q] \in Cutting /\ before'[q] = before[q]
    PROVE  Names' /\ Anchor' /\ Contained'
<1>1. Names'
  BY DEF Sound, Names, Steady
<1>2. file \in Seq(Pieces) /\ disk \in Seq(Pieces) /\ Len(file) \in Nat
  BY LenProperties DEF Sound, Types, Contents
<1>3. Anchor'
  <2> SUFFICES ASSUME Published PROVE \E n \in Nat : Anchored(n)'
    BY DEF Anchor, Steady
  <2>1. PICK n \in Nat : Anchored(n)
    BY DEF Sound, Anchor
  <2>2. /\ n <= Len(file') /\ n <= Len(disk') /\ Len(file') \in Nat
        /\ \A i \in 1..n : file'[i] = file[i] /\ disk'[i] = file[i]
    BY <1>2, <2>1 DEF Anchored, Steady
  <2>3. \A q \in Processes : stage'[q] \in Cutting => n <= before'[q]
    BY <2>1 DEF Anchored
  <2>4. Anchored(n)'
    BY <2>1, <2>2, <2>3, AnchorKept DEF Steady
  <2> QED
    BY <2>4
<1>4. Contained'
  BY DEF Sound, Contained, Steady
<1> QED
  BY <1>1, <1>3, <1>4

\* A process that is down, or idle without the session, holds nothing.
LEMMA NothingHeld ==
    ASSUME NEW p \in Processes, stage'[p] \in {"down", "idle"}, ~materialized'[p]
    PROVE  Local(p)'
BY DEF Local, OnChain, Holds, Reaches, Materializing, Batching, Cutting

\* Processes that stop keep the variables of their kinds.
LEMMA StopTypes ==
    ASSUME Sound, NEW gone \in SUBSET Processes, Stop(gone)
    PROVE  /\ stage' \in [Processes -> Stages] /\ level' \in [Processes -> 0..Log]
           /\ loading' \in [Processes -> BOOLEAN] /\ materialized' \in [Processes -> BOOLEAN]
           /\ cursor' \in [Processes -> 0..MaxEvents] /\ goal' \in [Processes -> 0..MaxEvents]
           /\ temp' \in [Processes -> Contents]
           /\ synced' \in [Processes -> BOOLEAN] /\ before' \in [Processes -> Nat]
           /\ owner' \in Processes \cup {NoProcess}
<1>1. <<>> \in Contents
  BY EmptySeq DEF Contents
<1>2. 0 \in 0..Log /\ 0 \in 0..MaxEvents /\ "down" \in Stages
  BY MaxEventsAssumption DEF Log, Stages
<1>3. temp' \in [Processes -> Contents]
  BY <1>1 DEF Stop, Sound, Types
<1>4. /\ stage' \in [Processes -> Stages] /\ level' \in [Processes -> 0..Log]
      /\ cursor' \in [Processes -> 0..MaxEvents] /\ goal' \in [Processes -> 0..MaxEvents]
      /\ before' \in [Processes -> Nat]
  BY <1>2 DEF Stop, Sound, Types
<1>5. /\ loading' \in [Processes -> BOOLEAN] /\ materialized' \in [Processes -> BOOLEAN]
      /\ synced' \in [Processes -> BOOLEAN]
  BY DEF Stop, Sound, Types
<1>6. owner' \in Processes \cup {NoProcess}
  BY DEF Stop, Sound, Types
<1> QED
  BY <1>3, <1>4, <1>5, <1>6

\* A process that stops loses nothing that is on the disk.
LEMMA StopSound ==
    ASSUME Held, Sound, NEW p \in Processes, Stop({p}), Untouched,
           damage' \in {"none", "remnant", "buried"},
           damage' = damage \/ owner = p, disk' = disk \/ owner = p,
           damage = "buried" => damage' = "buried"
    PROVE  Sound'
<1>1. Types'
  <2>1. /\ zstd' \in BOOLEAN /\ made' \in 0..Log /\ kept' \subseteq 1..made'
        /\ file' \in Contents /\ disk' \in Contents /\ first' \in Nat
        /\ acked' \in 0..MaxEvents /\ unnamed' \in BOOLEAN
    BY DEF Sound, Types, Untouched, NamesKept
  <2> QED
    BY <2>1, StopTypes DEF Types
<1>2. Published \/ damage' = damage
  BY NoProcessAssumption DEF Held, OwnedIsPublished
<1>3. \A q \in Processes : stage'[q] \in Cutting =>
          stage[q] \in Cutting /\ before'[q] = before[q]
  BY DEF Stop, Cutting
<1>4. Names' /\ Anchor' /\ Contained'
  BY <1>2, <1>3, UntouchedSteady, SteadyHolds
<1>5. Grows
  BY DEF Grows, Untouched, NamesKept, Sound, Types
<1>6. Aside(p)
  <2> SUFFICES ASSUME NEW q \in Processes \ {p}
               PROVE  /\ stage'[q] = stage[q] /\ level'[q] = level[q]
                      /\ loading'[q] = loading[q] /\ materialized'[q] = materialized[q]
                      /\ cursor'[q] = cursor[q] /\ goal'[q] = goal[q]
                      /\ temp'[q] = temp[q] /\ synced'[q] = synced[q]
                      /\ before'[q] = before[q]
                      /\ owner = q => owner' = q /\ file' = file /\ disk' = disk
                                               /\ damage' = damage
    BY DEF Aside
  <2>1. /\ stage'[q] = stage[q] /\ level'[q] = level[q] /\ cursor'[q] = cursor[q]
        /\ goal'[q] = goal[q] /\ temp'[q] = temp[q] /\ before'[q] = before[q]
    BY DEF Stop
  <2>2. /\ loading[q] \in BOOLEAN /\ materialized[q] \in BOOLEAN /\ synced[q] \in BOOLEAN
    BY DEF Sound, Types
  <2>3. /\ loading'[q] = loading[q] /\ materialized'[q] = materialized[q]
        /\ synced'[q] = synced[q]
    BY <2>2 DEF Stop
  <2>4. owner = q => owner' = q /\ file' = file /\ disk' = disk /\ damage' = damage
    BY DEF Stop, Untouched, NamesKept
  <2> QED
    BY <2>1, <2>3, <2>4
<1>7. Local(p)'
  BY NothingHeld DEF Stop
<1> QED
  BY <1>1, <1>4, <1>5, <1>6, <1>7, Assembled

\* A call is rejected: the process stops when it was loading, and otherwise it is idle,
\* with a file that ends where its cursor is unless the call left a remnant.
LEMMA RejectedSound ==
    ASSUME Held, Sound, NEW p \in Processes, Rejected(p), Untouched,
           damage' \in {"none", "remnant", "buried"},
           damage' = damage \/ owner = p, disk' = disk \/ owner = p,
           damage = "buried" => damage' = "buried",
           damage' = "none" /\ materialized[p] /\ ~loading[p] => FullTo(file, cursor[p])
    PROVE  Sound'
<1>1. CASE loading[p]
  BY <1>1, StopSound DEF Rejected
<1>2. CASE ~loading[p]
  <2>1. /\ stage' = [stage EXCEPT ![p] = "idle"] /\ level' = [level EXCEPT ![p] = 0]
        /\ temp' = [temp EXCEPT ![p] = <<>>] /\ synced' = [synced EXCEPT ![p] = FALSE]
        /\ before' = [before EXCEPT ![p] = 0]
        /\ loading' = loading /\ goal' = goal /\ materialized' = materialized
        /\ cursor' = cursor /\ owner' = owner
    BY <1>2 DEF Rejected, Goto, state
  <2>2. Types'
    <3>1. <<>> \in Contents
      BY EmptySeq DEF Contents
    <3>2. /\ stage' \in [Processes -> Stages] /\ level' \in [Processes -> 0..Log]
          /\ temp' \in [Processes -> Contents]
          /\ synced' \in [Processes -> BOOLEAN] /\ before' \in [Processes -> Nat]
      BY <2>1, <3>1 DEF Sound, Types, Stages, Log
    <3>3. /\ zstd' \in BOOLEAN /\ made' \in 0..Log /\ kept' \subseteq 1..made'
          /\ file' \in Contents /\ disk' \in Contents /\ first' \in Nat
          /\ acked' \in 0..MaxEvents /\ unnamed' \in BOOLEAN
      BY DEF Sound, Types, Untouched, NamesKept
    <3> QED
      BY <2>1, <3>2, <3>3 DEF Sound, Types
  <2>3. \A q \in Processes \ {p} :
            /\ stage'[q] = stage[q] /\ level'[q] = level[q] /\ temp'[q] = temp[q]
            /\ synced'[q] = synced[q] /\ before'[q] = before[q]
    BY <2>1 DEF Sound, Types
  <2>4. stage'[p] = "idle"
    BY <2>1 DEF Sound, Types
  <2>5. Aside(p)
    BY <2>1, <2>3 DEF Aside, Untouched, NamesKept
  <2>6. \A q \in Processes : stage'[q] \in Cutting =>
            stage[q] \in Cutting /\ before'[q] = before[q]
    BY <2>3, <2>4 DEF Cutting
  <2>7. damage' = damage \/ Published
    BY NoProcessAssumption DEF Held, OwnedIsPublished
  <2>8. Names' /\ Anchor' /\ Contained'
    BY <2>6, <2>7, UntouchedSteady, SteadyHolds
  <2>9. Grows
    BY DEF Grows, Untouched, NamesKept, Sound, Types
  <2>10. Local(p)
    BY DEF Sound
  <2>11. OnChain(p)' /\ Holds(p)'
    BY <2>1, <2>4, <2>10 DEF Local, OnChain, Holds, Materializing, Batching, Cutting,
       Untouched, NamesKept
  <2>12. Reaches(p)'
    BY <1>2, <2>1, <2>4 DEF Reaches, Cutting, Untouched, NamesKept
  <2> QED
    BY <2>2, <2>5, <2>8, <2>9, <2>11, <2>12, Assembled DEF Local
<1> QED
  BY <1>1, <1>2

\* Any call that fails leaves the log sound: a rollback that is not done leaves a
\* remnant when the write had put anything behind the file.
LEMMA CallFailsSound ==
    ASSUME Held, Sound, NEW p \in Processes, CallFails(p)
    PROVE  Sound'
<1>1. /\ Rejected(p) /\ Untouched
      /\ stage[p] \in {"mkdir", "syncdir", "check", "tempwrite", "tempsync", "link",
                       "rollback", "rollsync", "repair", "repairsync"}
      /\ damage' = IF stage[p] = "rollback" /\ Len(file) > before[p] /\ damage = "none"
                   THEN "remnant" ELSE damage
  BY DEF CallFails, Untouched, NamesKept, names, content
<1>2. damage' \in {"none", "remnant", "buried"} /\ (damage = "buried" => damage' = "buried")
  BY <1>1 DEF Sound, Types
<1>3. disk' = disk
  BY DEF CallFails, content
<1>4. Local(p)
  BY DEF Sound
<1>5. damage' = damage \/ owner = p
  BY <1>1, OwnersStages
<1>6. ASSUME damage' = "none", materialized[p], ~loading[p] PROVE FullTo(file, cursor[p])
  <2>1. stage[p] \in {"rollback", "rollsync"} /\ damage = "none"
    BY <1>1, <1>4, <1>6 DEF Local, Holds, Materializing
  <2>2. CASE stage[p] = "rollsync"
    BY <1>4, <1>6, <2>1, <2>2 DEF Local, Reaches
  <2>3. CASE stage[p] = "rollback"
    <3>1. Len(file) \in Nat
      BY LenProperties DEF Sound, Types, Contents
    <3>2. before[p] \in 1..Len(file) /\ ~(Len(file) > before[p])
      BY <1>1, <1>4, <1>6, <2>1, <2>3 DEF Local, Holds, Cutting
    <3>3. before[p] = Len(file)
      BY <3>1, <3>2
    <3>4. InOrder(file, before[p]) /\ file[before[p]].to = cursor[p]
      BY <1>4, <1>6, <2>1, <2>3 DEF Local, Reaches, Cutting
    <3> QED
      BY <3>1, <3>2, <3>3, <3>4 DEF FullTo
  <2> QED
    BY <2>1, <2>2, <2>3
<1> QED
  BY <1>1, <1>2, <1>3, <1>5, <1>6, RejectedSound

\* The close behind a durable append fails: the cursor stays in front of the batch that
\* is in the log, which counts as a remnant, unless a load gives up with it.
LEMMA CloseFailsSound ==
    ASSUME Held, Sound, NEW p \in Processes, CloseFails(p)
    PROVE  Sound'
<1>1. /\ Rejected(p) /\ Untouched /\ stage[p] = "sync"
      /\ damage' = IF loading[p] \/ damage = "buried" THEN damage ELSE "remnant"
  BY DEF CloseFails, Untouched, NamesKept, names
<1>2. owner = p
  BY <1>1, OwnersStages
<1>3. damage' \in {"none", "remnant", "buried"} /\ (damage = "buried" => damage' = "buried")
  BY <1>1 DEF Sound, Types
<1>4. damage' = "none" => loading[p]
  BY <1>1
<1> QED
  BY <1>1, <1>2, <1>3, <1>4, RejectedSound

\* The close behind a synced directory or a synced repair fails: a name or a cut more is
\* on the disk, and the call is rejected.
LEMMA SyncedCloseFailsSound ==
    ASSUME Held, Sound, NEW p \in Processes, SyncedCloseFails(p)
    PROVE  Sound'
<1>1. /\ Rejected(p) /\ zstd' = zstd /\ made' = made /\ file' = file /\ first' = first
      /\ acked' = acked /\ damage' = damage /\ unnamed' = unnamed
      /\ stage[p] \in {"syncdir", "repairsync"}
  BY DEF SyncedCloseFails
<1>2. Local(p) /\ damage \in {"none", "remnant", "buried"}
  BY DEF Sound, Types
<1>3. CASE stage[p] = "syncdir"
  <2>1. kept' = kept \cup {level[p]} /\ disk' = disk
    BY <1>3 DEF SyncedCloseFails
  <2>2. level[p] \in 1..made /\ 1..(level[p] - 1) \subseteq kept
    BY <1>2, <1>3 DEF Local, OnChain, Sound, Types, Log
  <2>3. level[p] = Log => 1..Log \subseteq kept'
    BY <2>1, <2>2 DEF Log
  <2>4. Untouched
    BY <1>1, <2>1, <2>2, <2>3 DEF Untouched, NamesKept
  <2>5. ~materialized[p]
    BY <1>2, <1>3 DEF Local, Holds, Materializing
  <2> QED
    BY <1>1, <1>2, <2>1, <2>4, <2>5, RejectedSound
<1>4. CASE stage[p] = "repairsync"
  <2>1. kept' = kept /\ disk' = file
    BY <1>4 DEF SyncedCloseFails
  <2>2. Untouched
    BY <1>1, <2>1 DEF Untouched, NamesKept
  <2>3. owner = p /\ loading[p]
    BY <1>2, <1>4, OwnersStages DEF Local, Holds
  <2> QED
    BY <1>1, <1>2, <2>2, <2>3, RejectedSound
<1> QED
  BY <1>1, <1>3, <1>4

\* The truncation that a failed write had called for is synced: the file ends at the cursor.
LEMMA RollbackSyncSound ==
    ASSUME Held, Sound, NEW p \in Processes, RollbackSync(p)
    PROVE  Sound'
<1>1. Rejected(p) /\ Untouched /\ stage[p] = "rollsync" /\ damage' = damage
  BY DEF RollbackSync, Untouched, NamesKept, names
<1>2. owner = p /\ materialized[p]
  BY <1>1, OwnersStages
<1>3. damage = "none" => FullTo(file, cursor[p])
  BY <1>1, <1>2 DEF Sound, Local, Reaches
<1>4. damage' \in {"none", "remnant", "buried"}
  BY <1>1 DEF Sound, Types
<1> QED
  BY <1>1, <1>2, <1>3, <1>4, RejectedSound

\* A process that dies leaves what the others see and what the disk holds.
LEMMA CrashSound ==
    ASSUME Held, Sound, NEW p \in Processes, Crash(p)
    PROVE  Sound'
<1>1. Stop({p}) /\ Untouched /\ damage' = damage /\ disk' = disk
  BY DEF Crash, Untouched, NamesKept, names, content
<1>2. damage' \in {"none", "remnant", "buried"}
  BY <1>1 DEF Sound, Types
<1> QED
  BY <1>1, <1>2, StopSound

\* A call is resolved with the file through the batch's last event on the disk: that
\* event counts as stored from now on.
LEMMA ResolvedSound ==
    ASSUME Held, Sound, NEW p \in Processes, Resolved(p), owner = p, owner' = owner,
           zstd' = zstd, made' = made, kept \subseteq kept', kept' \subseteq 1..made,
           Log \in kept' => 1..Log \subseteq kept', unnamed \/ Log \in kept',
           file' = file, disk' = file, first' = first, damage' = damage, unnamed' = unnamed,
           damage # "buried" => damage = "none" /\ FullTo(file, goal[p])
    PROVE  Sound'
<1>1. /\ stage' = [stage EXCEPT ![p] = "idle"] /\ level' = [level EXCEPT ![p] = 0]
      /\ loading' = [loading EXCEPT ![p] = FALSE] /\ temp' = [temp EXCEPT ![p] = <<>>]
      /\ synced' = [synced EXCEPT ![p] = FALSE] /\ before' = [before EXCEPT ![p] = 0]
      /\ materialized' = [materialized EXCEPT ![p] = TRUE]
      /\ cursor' = [cursor EXCEPT ![p] = goal[p]]
      /\ acked' = IF damage = "buried" THEN acked ELSE Max({acked, goal[p]})
      /\ goal' = goal
  BY DEF Resolved, Goto
<1>2. goal[p] \in 0..MaxEvents /\ acked \in 0..MaxEvents /\ goal[p] \in Int /\ acked \in Int
  BY MaxEventsAssumption DEF Sound, Types
<1>3. acked' \in {acked, goal[p]}
  BY <1>1, <1>2, MaxOfTwo
<1>4. Types'
  <2>1. <<>> \in Contents
    BY EmptySeq DEF Contents
  <2>2. /\ stage' \in [Processes -> Stages] /\ level' \in [Processes -> 0..Log]
        /\ temp' \in [Processes -> Contents] /\ before' \in [Processes -> Nat]
        /\ cursor' \in [Processes -> 0..MaxEvents] /\ goal' \in [Processes -> 0..MaxEvents]
    BY <1>1, <1>2, <2>1 DEF Sound, Types, Stages, Log
  <2>3. /\ loading' \in [Processes -> BOOLEAN] /\ materialized' \in [Processes -> BOOLEAN]
        /\ synced' \in [Processes -> BOOLEAN]
    BY <1>1 DEF Sound, Types
  <2>4. /\ zstd' \in BOOLEAN /\ made' \in 0..Log /\ kept' \subseteq 1..made'
        /\ file' \in Contents /\ disk' \in Contents /\ first' \in Nat
        /\ damage' \in {"none", "remnant", "buried"} /\ unnamed' \in BOOLEAN
        /\ owner' \in Processes \cup {NoProcess}
    BY DEF Sound, Types
  <2>5. acked' \in 0..MaxEvents
    BY <1>2, <1>3
  <2> QED
    BY <2>2, <2>3, <2>4, <2>5 DEF Types
<1>5. \A q \in Processes \ {p} :
          /\ stage'[q] = stage[q] /\ level'[q] = level[q] /\ temp'[q] = temp[q]
          /\ synced'[q] = synced[q] /\ before'[q] = before[q] /\ loading'[q] = loading[q]
          /\ materialized'[q] = materialized[q] /\ cursor'[q] = cursor[q]
          /\ goal'[q] = goal[q]
  BY <1>1 DEF Sound, Types
<1>6. stage'[p] = "idle" /\ materialized'[p] /\ cursor'[p] = goal[p]
  BY <1>1 DEF Sound, Types
<1>7. Aside(p)
  BY <1>5 DEF Aside
<1>8. Grows
  BY DEF Grows, Sound, Types
<1>9. Names'
  BY DEF Names
<1>10. Contained'
  BY DEF Contained, Sound, Published
<1>11. Published
  BY NoProcessAssumption DEF Held, OwnedIsPublished
<1>12. file \in Seq(Pieces) /\ Len(file) \in Nat
  BY LenProperties DEF Sound, Types, Contents
<1>13. PICK n \in Nat : Anchored(n)
  BY <1>11 DEF Sound, Anchor
<1>14. \A q \in Processes : stage'[q] \in Cutting =>
           stage[q] \in Cutting /\ before'[q] = before[q] /\ q # p
  BY <1>5, <1>6 DEF Cutting
<1>15. Anchor'
  <2>1. CASE damage = "buried"
    <3>1. /\ n <= Len(file') /\ n <= Len(disk') /\ Len(file') \in Nat
          /\ \A i \in 1..n : file'[i] = file[i] /\ disk'[i] = file[i]
      BY <1>12, <1>13 DEF Anchored
    <3>2. \A q \in Processes : stage'[q] \in Cutting => n <= before'[q]
      BY <1>13, <1>14 DEF Anchored
    <3>3. Anchored(n)'
      BY <1>1, <1>13, <2>1, <3>1, <3>2, AnchorKept
    <3> QED
      BY <3>3 DEF Anchor
  <2>2. CASE damage # "buried"
    <3>0. PICK k \in Nat : k = Len(file)
      BY <1>12
    <3>1. FullTo(file, goal[p])
      BY <2>2
    <3>2. /\ k \in 1..Len(file') /\ k <= Len(disk') /\ k >= first'
          /\ \A i \in 1..k : disk'[i] = file'[i]
      BY <1>12, <1>13, <3>0, <3>1 DEF FullTo, Anchored, Sound, Types
    <3>3. InOrder(file', k)
      BY <3>0, <3>1 DEF FullTo
    <3>4. \A q \in Processes : ~(stage'[q] \in Cutting)
      BY <1>14, OwnersStages DEF Cutting
    <3>5. ASSUME acked' > 0, ~unnamed' PROVE file'[k].to >= acked'
      <4>1. file[k].to = goal[p] /\ n \in 1..k /\ \A j \in 1..k : file[j].to <= file[k].to
        BY <1>12, <1>13, <3>0, <3>1 DEF FullTo, Anchored, InOrder
      <4>2. CASE acked' = goal[p]
        BY <1>2, <4>1, <4>2
      <4>3. CASE acked' = acked
        <5>1. file[n].to >= acked /\ file[n].to <= file[k].to /\ file[n].to \in Int
          BY <1>12, <1>13, <2>2, <3>0, <3>5, <4>1, <4>3, PieceTypes DEF Anchored
        <5> QED
          BY <1>2, <4>1, <4>3, <5>1
      <4> QED
        BY <1>3, <4>2, <4>3
    <3>6. Anchored(k)'
      BY <3>2, <3>3, <3>4, <3>5 DEF Anchored
    <3> QED
      BY <3>6 DEF Anchor
  <2> QED
    BY <2>1, <2>2
<1>16. OnChain(p)' /\ Holds(p)'
  BY <1>6 DEF OnChain, Holds, Materializing, Batching, Cutting
<1>17. Reaches(p)'
  BY <1>6 DEF Reaches, Cutting
<1> QED
  BY <1>4, <1>7, <1>8, <1>9, <1>10, <1>15, <1>16, <1>17, Assembled DEF Local

\* A process goes to the next stage of its call, beside what the disk holds.
LEMMA MovedSound ==
    ASSUME Held, Sound, NEW p \in Processes, NEW s \in Stages, Goto(p, s), Steady,
           zstd' = zstd, made' \in made..Log, kept' \subseteq 1..made',
           disk' = disk \/ owner = p, damage' = damage, loading' = loading,
           materialized' = materialized, cursor' = cursor, before' = before,
           owner' = owner,
           level' \in [Processes -> 0..Log], goal' \in [Processes -> 0..MaxEvents],
           temp' \in [Processes -> Contents], synced' \in [Processes -> BOOLEAN],
           \A q \in Processes \ {p} : /\ level'[q] = level[q] /\ goal'[q] = goal[q]
                                      /\ temp'[q] = temp[q] /\ synced'[q] = synced[q],
           s \in Cutting => stage[p] \in Cutting,
           Local(p)'
    PROVE  Sound'
<1>1. stage' \in [Processes -> Stages] /\ stage'[p] = s
      /\ \A q \in Processes \ {p} : stage'[q] = stage[q]
  BY DEF Goto, Sound, Types
<1>2. Types'
  <2>1. made' \in 0..Log
    BY DEF Sound, Types, Log
  <2> QED
    BY <1>1, <2>1 DEF Sound, Types, Steady
<1>3. Aside(p)
  BY <1>1 DEF Aside, Steady
<1>4. Grows
  BY DEF Grows, Steady
<1>5. Names' /\ Anchor' /\ Contained'
  BY <1>1, SteadyHolds
<1> QED
  BY <1>2, <1>3, <1>4, <1>5, Assembled

\* The kinds of what a step may leave as it is.
LEMMA Kinds ==
    ASSUME Sound
    PROVE  /\ level \in [Processes -> 0..Log] /\ goal \in [Processes -> 0..MaxEvents]
           /\ temp \in [Processes -> Contents] /\ synced \in [Processes -> BOOLEAN]
           /\ made \in made..Log /\ kept \subseteq 1..made
BY DEF Sound, Types, Log

\* The session is created in memory.
LEMMA CreateSound ==
    ASSUME Held, Sound, NEW p \in Processes, Create(p)
    PROVE  Sound'
<1>1. /\ stage[p] = "down" /\ ~Published /\ Goto(p, "idle") /\ Steady /\ disk' = disk
      /\ zstd' = zstd /\ made' = made /\ kept' = kept /\ damage' = damage
      /\ level' = level /\ loading' = loading /\ goal' = goal /\ temp' = temp
      /\ synced' = synced /\ before' = before /\ materialized' = materialized
      /\ cursor' = cursor /\ owner' = owner
  BY DEF Create, Steady, Published, names, content, state, history
<1>2. ~materialized[p]
  BY <1>1, OwnersStages
<1>3. stage'[p] = "idle"
  BY <1>1 DEF Goto, Sound, Types
<1>4. Local(p)'
  BY <1>1, <1>2, <1>3, NothingHeld
<1>5. "idle" \in Stages /\ ("idle" \in Cutting => stage[p] \in Cutting)
  BY <1>1 DEF Stages, Cutting
<1> QED
  BY <1>1, <1>4, <1>5, Kinds, MovedSound DEF Local

\* A batch is at hand, behind the cursor.
LEMMA StartAppendSound ==
    ASSUME Held, Sound, NEW p \in Processes, StartAppend(p)
    PROVE  Sound'
<1>1. /\ stage[p] = "idle" /\ Steady /\ disk' = disk
      /\ zstd' = zstd /\ made' = made /\ kept' = kept /\ damage' = damage
      /\ loading' = loading /\ temp' = temp
      /\ synced' = synced /\ before' = before /\ materialized' = materialized
      /\ cursor' = cursor /\ owner' = owner
  BY DEF StartAppend, Steady, Published, names, content, state, history
<1>2. PICK n \in Max({goal[p], cursor[p] + 1})..MaxEvents : goal' = [goal EXCEPT ![p] = n]
  BY DEF StartAppend
<1>3. /\ goal[p] \in Int /\ cursor[p] \in Int /\ cursor[p] >= 0
      /\ goal \in [Processes -> 0..MaxEvents]
  BY MaxEventsAssumption DEF Sound, Types
<1>4. Max({goal[p], cursor[p] + 1}) \in Int /\ Max({goal[p], cursor[p] + 1}) >= cursor[p] + 1
  <2>1. cursor[p] + 1 \in Int
    BY <1>3
  <2>2. /\ Max({goal[p], cursor[p] + 1}) \in {goal[p], cursor[p] + 1}
        /\ Max({goal[p], cursor[p] + 1}) >= cursor[p] + 1
    BY <1>3, <2>1, MaxOfTwo
  <2> QED
    BY <1>3, <2>1, <2>2
<1>5. n \in 0..MaxEvents /\ n > cursor[p]
  BY <1>3, <1>4, MaxEventsAssumption
<1>6. /\ goal' \in [Processes -> 0..MaxEvents] /\ goal'[p] = n
      /\ \A q \in Processes \ {p} : goal'[q] = goal[q]
  BY <1>2, <1>3, <1>5
<1>7. Local(p)
  BY DEF Sound
<1>8. CASE materialized[p]
  <2>1. Goto(p, "write") /\ level' = level
    BY <1>8 DEF StartAppend
  <2>2. stage'[p] = "write"
    BY <2>1 DEF Goto, Sound, Types
  <2>3. OnChain(p)' /\ Holds(p)' /\ Reaches(p)'
    BY <1>1, <1>5, <1>6, <1>7, <1>8, <2>2 DEF Local, OnChain, Holds, Reaches,
       Materializing, Batching, Cutting, Steady
  <2>4. "write" \in Stages /\ ("write" \in Cutting => stage[p] \in Cutting)
    BY <1>1 DEF Stages, Cutting
  <2> QED
    BY <1>1, <1>6, <2>1, <2>3, <2>4, Kinds, MovedSound DEF Local
<1>9. CASE ~materialized[p]
  <2>1. Goto(p, "mkdir") /\ level' = [level EXCEPT ![p] = 1]
    BY <1>9 DEF StartAppend
  <2>2. /\ stage'[p] = "mkdir" /\ level'[p] = 1 /\ level' \in [Processes -> 0..Log]
        /\ \A q \in Processes \ {p} : level'[q] = level[q]
    BY <2>1 DEF Goto, Sound, Types, Log
  <2>3. OnChain(p)' /\ Holds(p)' /\ Reaches(p)'
    BY <1>1, <1>5, <1>6, <1>7, <1>9, <2>2 DEF Local, OnChain, Holds, Reaches,
       Materializing, Batching, Cutting, Steady
  <2>4. "mkdir" \in Stages /\ ("mkdir" \in Cutting => stage[p] \in Cutting)
    BY <1>1 DEF Stages, Cutting
  <2> QED
    BY <1>1, <1>6, <2>1, <2>2, <2>3, <2>4, Kinds, MovedSound DEF Local
<1> QED
  BY <1>8, <1>9

\* The id is still free: the first batch is written to a temporary file.
LEMMA CheckNewSound ==
    ASSUME Held, Sound, NEW p \in Processes, CheckNew(p)
    PROVE  Sound'
<1>1. /\ stage[p] = "check" /\ disk' = disk /\ zstd' = zstd /\ made' = made /\ kept' = kept
      /\ file' = file /\ first' = first /\ acked' = acked /\ damage' = damage
      /\ unnamed' = unnamed
  BY DEF CheckNew, names, content
<1>2. Untouched /\ Steady
  BY <1>1, UntouchedSteady DEF Untouched, NamesKept
<1>3. Local(p)
  BY DEF Sound
<1>4. ~materialized[p]
  BY <1>1, <1>3 DEF Local, Holds, Materializing
<1>5. CASE Published
  <2>1. Rejected(p) /\ damage' \in {"none", "remnant", "buried"}
    BY <1>1, <1>5 DEF CheckNew, Sound, Types
  <2> QED
    BY <1>1, <1>2, <1>4, <2>1, RejectedSound
<1>6. CASE ~Published
  <2>1. /\ Goto(p, "tempwrite") /\ level' = level /\ loading' = loading /\ goal' = goal
        /\ temp' = temp /\ synced' = synced /\ before' = before
        /\ materialized' = materialized /\ cursor' = cursor /\ owner' = owner
    BY <1>6 DEF CheckNew, state
  <2>2. stage'[p] = "tempwrite"
    BY <2>1 DEF Goto, Sound, Types
  <2>3. OnChain(p)' /\ Holds(p)' /\ Reaches(p)'
    BY <1>1, <1>3, <2>1, <2>2 DEF Local, OnChain, Holds, Reaches,
       Materializing, Batching, Cutting
  <2>4. "tempwrite" \in Stages /\ ("tempwrite" \in Cutting => stage[p] \in Cutting)
    BY <1>1 DEF Stages, Cutting
  <2> QED
    BY <1>1, <1>2, <2>1, <2>3, <2>4, Kinds, MovedSound DEF Local
<1> QED
  BY <1>5, <1>6

\* The temporary file holds the header and the whole first batch.
LEMMA TempWriteSound ==
    ASSUME Held, Sound, NEW p \in Processes, TempWrite(p)
    PROVE  Sound'
<1>1. /\ stage[p] = "tempwrite" /\ Goto(p, "tempsync") /\ disk' = disk /\ zstd' = zstd
      /\ made' = made /\ kept' = kept /\ file' = file /\ first' = first
      /\ acked' = acked /\ damage' = damage /\ unnamed' = unnamed
      /\ temp' = [temp EXCEPT ![p] = <<Header>> \o Encoded(1, goal[p])]
      /\ level' = level /\ loading' = loading /\ goal' = goal /\ synced' = synced
      /\ before' = before /\ materialized' = materialized /\ cursor' = cursor
      /\ owner' = owner
  BY DEF TempWrite, names, content, state, history
<1>2. Steady
  BY <1>1, UntouchedSteady DEF Untouched, NamesKept
<1>3. Local(p)
  BY DEF Sound
<1>4. goal[p] \in 1..MaxEvents
  <2>1. goal[p] \in 0..MaxEvents /\ cursor[p] \in 0..MaxEvents /\ goal[p] > cursor[p]
    BY <1>1, <1>3 DEF Local, Holds, Batching, Materializing, Sound, Types
  <2> QED
    BY <2>1, MaxEventsAssumption
<1>5. /\ <<Header>> \o Encoded(1, goal[p]) \in Contents
      /\ FullTo(<<Header>> \o Encoded(1, goal[p]), goal[p])
  BY <1>4, FirstBatch
<1>6. /\ temp' \in [Processes -> Contents] /\ FullTo(temp'[p], goal'[p])
      /\ \A q \in Processes \ {p} : temp'[q] = temp[q]
  BY <1>1, <1>5 DEF Sound, Types
<1>7. stage'[p] = "tempsync"
  BY <1>1 DEF Goto, Sound, Types
<1>8. OnChain(p)' /\ Holds(p)' /\ Reaches(p)'
  BY <1>1, <1>3, <1>6, <1>7 DEF Local, OnChain, Holds, Reaches, Materializing, Batching,
     Cutting
<1>9. "tempsync" \in Stages /\ ("tempsync" \in Cutting => stage[p] \in Cutting)
  BY <1>1 DEF Stages, Cutting
<1> QED
  BY <1>1, <1>2, <1>6, <1>8, <1>9, Kinds, MovedSound DEF Local

\* The temporary file is on the disk before it gets the log's name.
LEMMA TempSyncSound ==
    ASSUME Held, Sound, NEW p \in Processes, TempSync(p)
    PROVE  Sound'
<1>1. /\ stage[p] = "tempsync" /\ Goto(p, "link") /\ disk' = disk /\ zstd' = zstd
      /\ made' = made /\ kept' = kept /\ file' = file /\ first' = first
      /\ acked' = acked /\ damage' = damage /\ unnamed' = unnamed
      /\ synced' = [synced EXCEPT ![p] = TRUE]
      /\ level' = level /\ loading' = loading /\ goal' = goal /\ temp' = temp
      /\ before' = before /\ materialized' = materialized /\ cursor' = cursor
      /\ owner' = owner
  BY DEF TempSync, names, content, state, history
<1>2. Steady
  BY <1>1, UntouchedSteady DEF Untouched, NamesKept
<1>3. Local(p)
  BY DEF Sound
<1>4. /\ synced' \in [Processes -> BOOLEAN] /\ synced'[p]
      /\ \A q \in Processes \ {p} : synced'[q] = synced[q]
  BY <1>1 DEF Sound, Types
<1>5. stage'[p] = "link"
  BY <1>1 DEF Goto, Sound, Types
<1>6. OnChain(p)' /\ Holds(p)' /\ Reaches(p)'
  BY <1>1, <1>3, <1>4, <1>5 DEF Local, OnChain, Holds, Reaches, Materializing, Batching,
     Cutting
<1>7. "link" \in Stages /\ ("link" \in Cutting => stage[p] \in Cutting)
  BY <1>1 DEF Stages, Cutting
<1> QED
  BY <1>1, <1>2, <1>4, <1>6, <1>7, Kinds, MovedSound DEF Local

\* A sync fails: the batch will be cut off again.
LEMMA SyncFailsSound ==
    ASSUME Held, Sound, NEW p \in Processes, SyncFails(p)
    PROVE  Sound'
<1>1. /\ stage[p] = "sync" /\ Goto(p, "rollback") /\ disk' = disk /\ zstd' = zstd
      /\ made' = made /\ kept' = kept /\ file' = file /\ first' = first
      /\ acked' = acked /\ damage' = damage /\ unnamed' = unnamed
      /\ synced' = synced /\ level' = level /\ loading' = loading /\ goal' = goal
      /\ temp' = temp /\ before' = before /\ materialized' = materialized
      /\ cursor' = cursor /\ owner' = owner
  BY DEF SyncFails, names, content, state, history
<1>2. Steady
  BY <1>1, UntouchedSteady DEF Untouched, NamesKept
<1>3. Local(p) /\ materialized[p]
  BY <1>1, OwnersStages DEF Sound
<1>4. stage'[p] = "rollback"
  BY <1>1 DEF Goto, Sound, Types
<1>5. OnChain(p)' /\ Holds(p)' /\ Reaches(p)'
  BY <1>1, <1>3, <1>4 DEF Local, OnChain, Holds, Reaches, Materializing, Batching, Cutting
<1>6. "rollback" \in Stages /\ ("rollback" \in Cutting => stage[p] \in Cutting)
  BY <1>1 DEF Stages, Cutting
<1> QED
  BY <1>1, <1>2, <1>5, <1>6, Kinds, MovedSound DEF Local

\* A directory is made on a parent whose name is synced.
LEMMA MakeDirectorySound ==
    ASSUME Held, Sound, NEW p \in Processes, MakeDirectory(p)
    PROVE  Sound'
<1>1. /\ stage[p] = "mkdir" /\ Goto(p, "syncdir") /\ disk' = disk /\ zstd' = zstd
      /\ made' = Max({made, level[p]}) /\ kept' = kept /\ file' = file /\ first' = first
      /\ acked' = acked /\ damage' = damage /\ unnamed' = unnamed
      /\ synced' = synced /\ level' = level /\ loading' = loading /\ goal' = goal
      /\ temp' = temp /\ before' = before /\ materialized' = materialized
      /\ cursor' = cursor /\ owner' = owner
  BY DEF MakeDirectory, content, state, history
<1>2. Local(p)
  BY DEF Sound
<1>3. made \in 0..Log /\ made \in Int /\ level[p] \in Int /\ level[p] < Log
  BY <1>1 DEF Sound, Types, Held, OwnerSyncs, Log
<1>4. made' \in {made, level[p]} /\ made' >= made /\ made' >= level[p]
  BY <1>1, <1>3, MaxOfTwo
<1>5. made' \in made..Log /\ Published' = Published
  BY <1>3, <1>4 DEF Published, Log
<1>6. Steady
  BY <1>1, <1>5 DEF Steady
<1>7. kept' \subseteq 1..made'
  <2>1. kept \subseteq 1..made
    BY DEF Sound, Types
  <2> QED
    BY <1>1, <1>3, <1>5, <2>1
<1>8. stage'[p] = "syncdir"
  BY <1>1 DEF Goto, Sound, Types
<1>9. OnChain(p)' /\ Holds(p)' /\ Reaches(p)'
  BY <1>1, <1>2, <1>3, <1>4, <1>8 DEF Local, OnChain, Holds, Reaches, Materializing,
     Batching, Cutting
<1>10. "syncdir" \in Stages /\ ("syncdir" \in Cutting => stage[p] \in Cutting)
  BY DEF Stages, Cutting
<1> QED
  BY <1>1, <1>5, <1>6, <1>7, <1>9, <1>10, Kinds, MovedSound DEF Local

\* A directory's name is synced; the sync of the log's name stores the first batch.
LEMMA SyncDirectorySound ==
    ASSUME Held, Sound, NEW p \in Processes, SyncDirectory(p)
    PROVE  Sound'
<1>1. /\ stage[p] = "syncdir" /\ kept' = kept \cup {level[p]} /\ zstd' = zstd /\ made' = made
      /\ file' = file /\ disk' = disk
  BY DEF SyncDirectory, content
<1>2. Local(p)
  BY DEF Sound
<1>3. level[p] \in 1..made /\ 1..(level[p] - 1) \subseteq kept /\ kept \subseteq 1..made
      /\ made \in 0..Log /\ level[p] \in Int
  BY <1>1, <1>2 DEF Local, OnChain, Sound, Types, Log
<1>4. kept' \subseteq 1..made'
  BY <1>1, <1>3
<1>5. CASE level[p] = Log
  <2>1. Resolved(p) /\ owner' = owner /\ first' = first /\ damage' = damage /\ unnamed' = unnamed
    BY <1>5 DEF SyncDirectory
  <2>2. owner = p
    BY <1>1, <1>5, OwnersStages
  <2>3. damage = "none" /\ FullTo(file, goal[p]) /\ disk = file
    BY <1>1, <1>2, <1>5 DEF Local, Reaches
  <2>4. 1..Log \subseteq kept'
    BY <1>1, <1>3, <1>5 DEF Log
  <2>5. Log \in kept'
    BY <1>1, <1>5
  <2> QED
    BY <1>1, <1>4, <2>1, <2>2, <2>3, <2>4, <2>5, ResolvedSound
<1>6. CASE level[p] # Log
  <2>1. /\ level' = [level EXCEPT ![p] = @ + 1] /\ loading' = loading /\ goal' = goal
        /\ temp' = temp /\ synced' = synced /\ before' = before
        /\ materialized' = materialized /\ cursor' = cursor
        /\ owner' = owner /\ first' = first /\ acked' = acked /\ damage' = damage
        /\ unnamed' = unnamed
        /\ Goto(p, IF level[p] = Log - 1 THEN "check" ELSE "mkdir")
    BY <1>6 DEF SyncDirectory, state, history
  <2>2. level[p] + 1 \in 0..Log
    BY <1>3, <1>6 DEF Log
  <2>3. /\ level' \in [Processes -> 0..Log] /\ level'[p] = level[p] + 1
        /\ \A q \in Processes \ {p} : level'[q] = level[q]
    BY <2>1, <2>2 DEF Sound, Types
  <2>4. Steady
    BY <1>1, <1>6, <2>1 DEF Steady, Published
  <2>5. made' \in made..Log
    BY <1>1, <1>3
  <2>6. 1..(level'[p] - 1) \subseteq kept' /\ level'[p] >= 1
    BY <1>1, <1>3, <2>3
  <2>7. ASSUME NEW s \in {"check", "mkdir"}, Goto(p, s), s = "check" => level'[p] = Log
        PROVE  Sound'
    <3>1. stage'[p] = s
      BY <2>7 DEF Goto, Sound, Types
    <3>2. OnChain(p)'
      BY <2>6, <2>7, <3>1 DEF OnChain
    <3>3. Holds(p)' /\ Reaches(p)'
      BY <1>1, <1>2, <2>1, <2>7, <3>1 DEF Local, Holds, Reaches, Materializing, Batching,
         Cutting
    <3>4. s \in Stages /\ (s \in Cutting => stage[p] \in Cutting)
      BY <2>7 DEF Stages, Cutting
    <3> QED
      BY <1>1, <1>4, <2>1, <2>3, <2>4, <2>5, <2>7, <3>2, <3>3, <3>4, Kinds, MovedSound
         DEF Local
  <2>8. CASE level[p] = Log - 1
    BY <2>1, <2>3, <2>7, <2>8 DEF Log
  <2>9. CASE level[p] # Log - 1
    BY <2>1, <2>7, <2>9
  <2> QED
    BY <2>8, <2>9
<1> QED
  BY <1>5, <1>6

\* A log is published whole, and on the disk already, but for its name.
LEMMA PublishSound ==
    ASSUME Held, Sound, NEW p \in Processes, Publish(p)
    PROVE  Sound'
<1>1. /\ stage[p] = "link" /\ zstd' = zstd /\ kept' = kept /\ acked' = acked
      /\ damage' = damage /\ unnamed' = unnamed
  BY DEF Publish
<1>2. Local(p)
  BY DEF Sound
<1>3. ~materialized[p]
  BY <1>1, <1>2 DEF Local, Holds, Materializing
<1>4. CASE Published
  <2>1. Rejected(p) /\ made' = made /\ file' = file /\ disk' = disk /\ first' = first
    BY <1>4 DEF Publish, content
  <2>2. Untouched /\ damage' \in {"none", "remnant", "buried"}
    BY <1>1, <2>1 DEF Untouched, NamesKept, Sound, Types
  <2> QED
    BY <1>1, <1>3, <2>1, <2>2, RejectedSound
<1>5. CASE ~Published
  <2>1. /\ made' = Log /\ owner' = p /\ file' = temp[p]
        /\ disk' = (IF synced[p] THEN temp[p] ELSE <<>>)
        /\ first' = Len(temp[p]) /\ Goto(p, "syncdir")
        /\ level' = level /\ loading' = loading /\ goal' = goal /\ temp' = temp
        /\ synced' = synced /\ before' = before /\ materialized' = materialized
        /\ cursor' = cursor
    BY <1>5 DEF Publish, state
  <2>2. /\ synced[p] /\ FullTo(temp[p], goal[p]) /\ level[p] = Log
        /\ 1..(Log - 1) \subseteq kept
    BY <1>1, <1>2 DEF Local, OnChain, Holds
  <2>3. file' = temp[p] /\ disk' = temp[p]
    BY <2>1, <2>2
  <2>4. temp[p] \in Contents /\ temp[p] \in Seq(Pieces) /\ Len(temp[p]) \in Nat
    BY LenProperties DEF Sound, Types, Contents
  <2>5. owner = NoProcess /\ damage = "none" /\ \A q \in Processes : ~materialized[q]
    BY <1>5, OwnersStages DEF Held, OwnedIsPublished, Sound, Contained
  <2>6. made \in 0..Log /\ kept \subseteq 1..made /\ Log \notin kept
    BY <1>5 DEF Sound, Types, Published, Log
  <2>7. /\ stage' \in [Processes -> Stages] /\ stage'[p] = "syncdir"
        /\ \A q \in Processes \ {p} : stage'[q] = stage[q]
    BY <2>1 DEF Goto, Sound, Types, Stages
  <2>8. Types'
    <3>1. made' \in 0..Log /\ kept' \subseteq 1..made'
      BY <1>1, <2>1, <2>6 DEF Log
    <3>2. /\ level' \in [Processes -> 0..Log] /\ loading' \in [Processes -> BOOLEAN]
          /\ materialized' \in [Processes -> BOOLEAN]
          /\ cursor' \in [Processes -> 0..MaxEvents] /\ goal' \in [Processes -> 0..MaxEvents]
          /\ synced' \in [Processes -> BOOLEAN] /\ before' \in [Processes -> Nat]
          /\ temp' \in [Processes -> Contents] /\ zstd' \in BOOLEAN
          /\ acked' \in 0..MaxEvents /\ damage' \in {"none", "remnant", "buried"}
          /\ unnamed' \in BOOLEAN
      BY <1>1, <2>1 DEF Sound, Types
    <3>3. owner' \in Processes \cup {NoProcess} /\ first' \in Nat
      BY <2>1, <2>4
    <3> QED
      BY <2>3, <2>4, <2>7, <3>1, <3>2, <3>3 DEF Types
  <2>9. Aside(p)
    BY <2>1, <2>5, <2>7, NoProcessAssumption DEF Aside
  <2>10. Grows
    BY <1>1, <2>1, <2>6 DEF Grows, Log
  <2>11. Names'
    BY <1>1, <2>6 DEF Sound, Names
  <2>12. ~(acked > 0 /\ ~unnamed)
    BY <2>6 DEF Sound, Names
  <2>13. Anchor'
    <3>1. PICK k \in Nat : k = Len(temp[p])
      BY <2>4
    <3>2. \A q \in Processes : ~(stage'[q] \in Cutting)
      BY <2>5, <2>7, OwnersStages DEF Cutting
    <3>3. k >= 1 /\ InOrder(temp[p], k)
      BY <2>2, <3>1 DEF FullTo
    <3>4. Anchored(k)'
      BY <1>1, <2>1, <2>3, <2>12, <3>1, <3>2, <3>3 DEF Anchored
    <3> QED
      BY <3>4 DEF Anchor
  <2>14. Contained'
    <3>1. Published' /\ Readable(temp[p])
      BY <2>1, <2>2, <2>4, FullReadable DEF Published
    <3> QED
      BY <2>3, <3>1 DEF Contained
  <2>15. OnChain(p)' /\ Holds(p)' /\ Reaches(p)'
    <3>1. OnChain(p)'
      BY <1>1, <2>1, <2>2, <2>7 DEF OnChain, Log
    <3>2. Holds(p)'
      BY <1>1, <1>2, <1>3, <2>1, <2>7 DEF Local, Holds, Materializing, Batching, Cutting
    <3>3. Reaches(p)'
      BY <1>1, <1>3, <2>1, <2>2, <2>3, <2>5, <2>7 DEF Reaches, Cutting
    <3> QED
      BY <3>1, <3>2, <3>3
  <2> QED
    BY <2>8, <2>9, <2>10, <2>11, <2>13, <2>14, <2>15, Assembled DEF Local
<1> QED
  BY <1>4, <1>5

\* A write puts a part of the batch behind the file, or all of it.
LEMMA WritesSound ==
    ASSUME Held, Sound, NEW p \in Processes, NEW s \in {"sync", "rollback"},
           NEW v \in Seq(Pieces), CutOf(v, Encoded(cursor[p] + 1, goal[p])),
           s = "sync" => v = Encoded(cursor[p] + 1, goal[p]),
           Writes(p, v, s)
    PROVE  Sound'
<1> DEFINE w == Encoded(cursor[p] + 1, goal[p])
<1>1. /\ stage[p] = "write" /\ Goto(p, s) /\ before' = [before EXCEPT ![p] = Len(file)]
      /\ file' = file \o v
      /\ damage' = IF damage = "remnant" /\ v # <<>> THEN "buried" ELSE damage
      /\ zstd' = zstd /\ made' = made /\ kept' = kept /\ disk' = disk
      /\ level' = level /\ loading' = loading /\ goal' = goal /\ temp' = temp
      /\ synced' = synced /\ materialized' = materialized /\ cursor' = cursor
      /\ owner' = owner /\ first' = first /\ acked' = acked /\ unnamed' = unnamed
  BY DEF Writes, names, state
<1>2. Local(p) /\ materialized[p] /\ owner = p /\ Published
  BY <1>1, OwnersStages DEF Sound
<1>3. /\ cursor[p] \in 0..MaxEvents /\ goal[p] \in 0..MaxEvents /\ goal[p] > cursor[p]
  BY <1>1, <1>2 DEF Local, Holds, Batching, Sound, Types
<1>4. cursor[p] + 1 \in 1..MaxEvents /\ goal[p] \in (cursor[p] + 1)..MaxEvents
  BY <1>3, MaxEventsAssumption
<1>5. w \in Seq(Pieces) /\ w # <<>>
  BY <1>4, EncodedIs, EmptySeq
<1>6. PICK n \in Nat : Anchored(n)
  BY <1>2 DEF Sound, Anchor
<1>7. file \in Contents /\ file \in Seq(Pieces) /\ Len(file) \in Nat /\ Len(file) >= 1
  BY <1>6, LenProperties DEF Sound, Types, Contents, Anchored
<1>8. Len(v) \in Nat
  BY LenProperties
<1> HIDE DEF w
<1>9. /\ file' \in Seq(Pieces) /\ Len(file') = Len(file) + Len(v)
      /\ \A i \in 1..Len(file) : file'[i] = file[i]
      /\ CutOf(file', file \o w)
  BY <1>1, <1>5, <1>7, CutBehind DEF w
<1>10. file' \in Contents
  BY <1>1, <1>4, <1>7, WrittenContents
<1>11. damage' \in {"none", "remnant", "buried"}
  BY <1>1 DEF Sound, Types
<1>12. /\ stage' \in [Processes -> Stages] /\ stage'[p] = s
       /\ \A q \in Processes \ {p} : stage'[q] = stage[q]
  BY <1>1 DEF Goto, Sound, Types, Stages
<1>13. /\ before' \in [Processes -> Nat] /\ before'[p] = Len(file)
       /\ \A q \in Processes \ {p} : before'[q] = before[q]
  BY <1>1, <1>7 DEF Sound, Types
<1>14. Types'
  BY <1>1, <1>10, <1>11, <1>12, <1>13 DEF Sound, Types
<1>15. Aside(p)
  BY <1>1, <1>2, <1>12, <1>13 DEF Aside
<1>16. Grows
  BY <1>1 DEF Grows, Sound, Types
<1>17. Names'
  BY <1>1 DEF Sound, Names
<1>18. Anchor'
  <2>1. /\ n <= Len(file') /\ n <= Len(disk') /\ Len(file') \in Nat
        /\ \A i \in 1..n : file'[i] = file[i] /\ disk'[i] = file[i]
    BY <1>1, <1>6, <1>7, <1>8, <1>9 DEF Anchored
  <2>2. \A q \in Processes : stage'[q] \in Cutting => n <= before'[q]
    <3>1. n <= before'[p]
      BY <1>6, <1>7, <1>13 DEF Anchored
    <3> QED
      BY <1>6, <1>12, <1>13, <3>1 DEF Anchored
  <2>3. Anchored(n)'
    BY <1>1, <1>6, <2>1, <2>2, AnchorKept
  <2> QED
    BY <2>3 DEF Anchor
<1>19. damage = "none" => FullTo(file, cursor[p])
  BY <1>1, <1>2 DEF Local, Reaches
<1>20. damage = "none" => FullTo(file \o w, goal[p]) /\ file \o w \in Seq(Pieces)
  BY <1>3, <1>4, <1>5, <1>7, <1>19, WrittenInOrder, ConcatProperties DEF w
<1>21. Contained'
  <2> SUFFICES ASSUME damage' # "buried" PROVE Readable(file') /\ Readable(disk')
    BY <1>1, <1>2 DEF Contained, Published
  <2>1. damage # "buried" /\ Readable(file) /\ Readable(disk)
    BY <1>1, <1>2 DEF Sound, Contained
  <2>2. CASE damage = "none"
    <3>1. Readable(file \o w)
      BY <1>20, <2>2, FullReadable
    <3>2. Readable(file')
      BY <1>9, <1>20, <2>2, <3>1, CutReadable
    <3> QED
      BY <1>1, <2>1, <3>2
  <2>3. CASE damage = "remnant"
    <3>1. v = <<>>
      BY <1>1, <2>3
    <3>2. file' = file
      BY <1>1, <1>7, <3>1, ConcatEmptySeq
    <3> QED
      BY <1>1, <2>1, <3>2
  <2> QED
    BY <2>1, <2>2, <2>3 DEF Sound, Types
<1>22. OnChain(p)' /\ Holds(p)'
  <2>1. before'[p] \in 1..Len(file')
    BY <1>7, <1>8, <1>9, <1>13
  <2> QED
    BY <1>1, <1>2, <1>12, <2>1 DEF Local, OnChain, Holds, Materializing, Batching, Cutting
<1>23. Reaches(p)'
  <2>1. s = "sync" => damage' # "remnant"
    BY <1>1, <1>5 DEF w
  <2>2. ASSUME damage' = "none"
        PROVE  /\ InOrder(file', before'[p]) /\ file'[before'[p]].to = cursor'[p]
               /\ s = "sync" => FullTo(file', goal'[p])
    <3>1. damage = "none"
      BY <1>1, <2>2
    <3>2. InOrder(file, Len(file)) /\ file[Len(file)].to = cursor[p]
      BY <1>19, <3>1 DEF FullTo
    <3>3. InOrder(file', Len(file))
      BY <1>7, <1>9, <3>2, SameOrder
    <3>4. file'[Len(file)].to = cursor[p]
      BY <1>7, <1>9, <3>2
    <3>5. s = "sync" => FullTo(file', goal'[p])
      BY <1>1, <1>20, <3>1 DEF w
    <3> QED
      BY <1>1, <1>13, <3>3, <3>4, <3>5
  <2> QED
    BY <1>12, <2>1, <2>2 DEF Reaches, Cutting
<1> QED
  BY <1>14, <1>15, <1>16, <1>17, <1>18, <1>21, <1>22, <1>23, Assembled DEF Local

\* A write that succeeds, and one that fails behind any part of the batch.
LEMMA WriteSound ==
    ASSUME Held, Sound, NEW p \in Processes, Write(p) \/ WriteFails(p)
    PROVE  Sound'
<1> DEFINE w == Encoded(cursor[p] + 1, goal[p])
<1>1. stage[p] = "write"
  BY DEF Write, WriteFails, Writes
<1>2. Local(p)
  BY DEF Sound
<1>3. /\ cursor[p] \in 0..MaxEvents /\ goal[p] \in 0..MaxEvents /\ goal[p] > cursor[p]
  BY <1>1, <1>2 DEF Local, Holds, Batching, Sound, Types
<1>4. cursor[p] + 1 \in 1..MaxEvents /\ goal[p] \in (cursor[p] + 1)..MaxEvents
  BY <1>3, MaxEventsAssumption
<1>5. w \in Seq(Pieces)
  BY <1>4, EncodedIs
<1>6. CASE Write(p)
  <2>1. CutOf(w, w)
    BY <1>5, LenProperties DEF CutOf
  <2> QED
    BY <1>5, <1>6, <2>1, WritesSound DEF Write
<1>7. CASE WriteFails(p)
  <2>1. PICK v \in Cuts(w) : Writes(p, v, "rollback")
    BY <1>7 DEF WriteFails
  <2>2. v \in Seq(Pieces) /\ CutOf(v, w)
    BY <1>5, CutsAreCuts
  <2> QED
    BY <2>1, <2>2, WritesSound
<1> QED
  BY <1>6, <1>7

\* A sync stores the file as it is.
LEMMA SyncSound ==
    ASSUME Held, Sound, NEW p \in Processes, Sync(p)
    PROVE  Sound'
<1>1. /\ stage[p] = "sync" /\ Resolved(p) /\ disk' = file /\ zstd' = zstd /\ made' = made
      /\ kept' = kept /\ file' = file /\ owner' = owner /\ first' = first
      /\ damage' = damage /\ unnamed' = unnamed
  BY DEF Sync, names
<1>2. Local(p) /\ materialized[p] /\ owner = p
  BY <1>1, OwnersStages DEF Sound
<1>3. damage # "buried" => damage = "none" /\ FullTo(file, goal[p])
  BY <1>1, <1>2 DEF Local, Reaches, Sound, Types
<1>4. unnamed \/ Log \in kept
  BY <1>2 DEF Local, Holds
<1>5. kept \subseteq 1..made /\ (Log \in kept => 1..Log \subseteq kept)
  BY DEF Sound, Types, Names
<1> QED
  BY <1>1, <1>2, <1>3, <1>4, <1>5, ResolvedSound

\* The file is cut to where its records ended.
LEMMA CutSound ==
    ASSUME Held, Sound, NEW p \in Processes, Rollback(p) \/ Repair(p)
    PROVE  Sound'
<1>1. /\ stage[p] \in {"rollback", "repair"} /\ file' = SubSeq(file, 1, before[p])
      /\ zstd' = zstd /\ made' = made /\ kept' = kept /\ disk' = disk
      /\ level' = level /\ loading' = loading /\ goal' = goal /\ temp' = temp
      /\ synced' = synced /\ before' = before /\ materialized' = materialized
      /\ cursor' = cursor /\ owner' = owner /\ first' = first /\ acked' = acked
      /\ damage' = damage /\ unnamed' = unnamed
  BY DEF Rollback, Repair, names, state, history
<1>2. PICK s \in {"rollsync", "repairsync"} :
          Goto(p, s) /\ (s = "repairsync" <=> stage[p] = "repair")
  BY DEF Rollback, Repair
<1>3. Local(p) /\ materialized[p] /\ owner = p /\ Published
  BY <1>1, OwnersStages DEF Sound
<1>4. file \in Contents /\ file \in Seq(Pieces) /\ Len(file) \in Nat
  BY LenProperties DEF Sound, Types, Contents
<1>5. PICK b \in 1..Len(file) : b = before[p]
  BY <1>1, <1>3 DEF Local, Holds, Cutting
<1>6. /\ file' \in Seq(Pieces) /\ Len(file') = b /\ \A i \in 1..b : file'[i] = file[i]
  BY <1>1, <1>4, <1>5, Beginnings
<1>7. CutOf(file', file)
  BY <1>4, <1>5, <1>6 DEF CutOf
<1>8. file' \in Contents
  BY <1>4, <1>6, <1>7, CutContents
<1>9. /\ stage' \in [Processes -> Stages] /\ stage'[p] = s
      /\ \A q \in Processes \ {p} : stage'[q] = stage[q]
  BY <1>2 DEF Goto, Sound, Types, Stages
<1>10. Types'
  BY <1>1, <1>8, <1>9 DEF Sound, Types
<1>11. Aside(p)
  BY <1>1, <1>3, <1>9 DEF Aside
<1>12. Grows
  BY <1>1 DEF Grows, Sound, Types
<1>13. Names'
  BY <1>1 DEF Sound, Names
<1>14. Anchor'
  <2>1. PICK n \in Nat : Anchored(n)
    BY <1>3 DEF Sound, Anchor
  <2>2. n <= b
    BY <1>1, <1>5, <2>1 DEF Anchored, Cutting
  <2>3. /\ n <= Len(file') /\ n <= Len(disk') /\ Len(file') \in Nat
        /\ \A i \in 1..n : file'[i] = file[i] /\ disk'[i] = file[i]
    BY <1>1, <1>4, <1>6, <2>1, <2>2 DEF Anchored
  <2>4. \A q \in Processes : stage'[q] \in Cutting => n <= before'[q]
    BY <1>1, <1>9, <2>1 DEF Anchored, Cutting
  <2>5. Anchored(n)'
    BY <1>1, <2>1, <2>3, <2>4, AnchorKept
  <2> QED
    BY <2>5 DEF Anchor
<1>15. Contained'
  <2> SUFFICES ASSUME damage' # "buried" PROVE Readable(file') /\ Readable(disk')
    BY <1>1, <1>3 DEF Contained, Published
  <2>1. Readable(file) /\ Readable(disk)
    BY <1>1, <1>3 DEF Sound, Contained
  <2> QED
    BY <1>1, <1>4, <1>6, <1>7, <2>1, CutReadable
<1>16. OnChain(p)' /\ Holds(p)'
  BY <1>1, <1>2, <1>3, <1>9 DEF Local, OnChain, Holds, Materializing, Batching, Cutting
<1>17. Reaches(p)'
  <2>1. s = "repairsync" => damage # "remnant" /\ (damage = "none" => goal[p] >= cursor[p])
    BY <1>2, <1>3 DEF Local, Reaches
  <2>2. ASSUME damage = "none" PROVE FullTo(file', cursor[p])
    <3>1. InOrder(file, b) /\ file[b].to = cursor[p]
      BY <1>1, <1>3, <1>5, <2>2 DEF Local, Reaches, Cutting
    <3>2. InOrder(file', b) /\ b \in 1..b
      BY <1>4, <1>6, <3>1, SameOrder
    <3> QED
      BY <1>6, <3>1, <3>2 DEF FullTo
  <2> QED
    BY <1>1, <1>9, <2>1, <2>2 DEF Reaches, Cutting
<1> QED
  BY <1>10, <1>11, <1>12, <1>13, <1>14, <1>15, <1>16, <1>17, Assembled DEF Local

\* The repaired log is stored: the repair goes on with the events it adds, or is over.
LEMMA RepairSyncSound ==
    ASSUME Held, Sound, NEW p \in Processes, RepairSync(p)
    PROVE  Sound'
<1>1. /\ stage[p] = "repairsync" /\ disk' = file /\ zstd' = zstd /\ made' = made
      /\ kept' = kept /\ file' = file /\ owner' = owner /\ first' = first
      /\ damage' = damage /\ unnamed' = unnamed
  BY DEF RepairSync, names
<1>2. Local(p) /\ materialized[p] /\ owner = p
  BY <1>1, OwnersStages DEF Sound
<1>3. damage # "buried" => damage = "none" /\ FullTo(file, cursor[p]) /\ goal[p] >= cursor[p]
  BY <1>1, <1>2 DEF Local, Reaches, Sound, Types
<1>4. CASE goal[p] > cursor[p]
  <2>1. /\ Goto(p, "write") /\ level' = level /\ loading' = loading /\ goal' = goal
        /\ temp' = temp /\ synced' = synced /\ before' = before
        /\ materialized' = materialized /\ cursor' = cursor /\ acked' = acked
    BY <1>4 DEF RepairSync, state
  <2>2. Steady
    BY <1>1, <2>1 DEF Steady, Published
  <2>3. stage'[p] = "write"
    BY <2>1 DEF Goto, Sound, Types
  <2>4. OnChain(p)' /\ Holds(p)' /\ Reaches(p)'
    BY <1>1, <1>2, <1>3, <1>4, <2>1, <2>3 DEF Local, OnChain, Holds, Reaches,
       Materializing, Batching, Cutting
  <2>5. "write" \in Stages /\ ("write" \in Cutting => stage[p] \in Cutting)
    BY DEF Stages, Cutting
  <2> QED
    BY <1>1, <1>2, <2>1, <2>2, <2>4, <2>5, Kinds, MovedSound DEF Local
<1>5. CASE ~(goal[p] > cursor[p])
  <2>1. Resolved(p)
    BY <1>5 DEF RepairSync
  <2>2. goal[p] \in Int /\ cursor[p] \in Int
    BY DEF Sound, Types
  <2>3. damage # "buried" => damage = "none" /\ FullTo(file, goal[p])
    <3>1. damage # "buried" => goal[p] = cursor[p]
      BY <1>3, <1>5, <2>2
    <3> QED
      BY <1>3, <3>1
  <2>4. unnamed \/ Log \in kept
    BY <1>2 DEF Local, Holds
  <2>5. kept \subseteq 1..made /\ (Log \in kept => 1..Log \subseteq kept)
    BY DEF Sound, Types, Names
  <2> QED
    BY <1>1, <1>2, <2>1, <2>3, <2>4, <2>5, ResolvedSound
<1> QED
  BY <1>4, <1>5

\* A load takes over the log of nobody: the cursor is where its records end, and what
\* is torn behind them is due to be cut.
LEMMA LoadSound ==
    ASSUME Held, Sound, NEW p \in Processes, Load(p)
    PROVE  Sound'
<1>1. /\ stage[p] = "down" /\ Published /\ owner = NoProcess /\ Scanned(file) > 0
      /\ cursor' = [cursor EXCEPT ![p] = Committed(file)]
      /\ materialized' = [materialized EXCEPT ![p] = TRUE]
      /\ before' = [before EXCEPT ![p] = Scanned(file)] /\ owner' = p
      /\ unnamed' = (unnamed \/ Log \notin kept)
      /\ damage' = (IF damage = "remnant" THEN "none" ELSE damage)
      /\ zstd' = zstd /\ made' = made /\ kept' = kept /\ file' = file /\ disk' = disk
      /\ level' = level /\ temp' = temp /\ synced' = synced /\ first' = first
      /\ acked' = acked
  BY DEF Load, names, content
<1>2. PICK closers \in 0..1 :
        /\ Recovered(file) + closers <= MaxEvents
        /\ goal' = [goal EXCEPT ![p] = Recovered(file) + closers]
        /\ Goto(p, IF Scanned(file) < Len(file) THEN "repair"
                   ELSE IF Recovered(file) + closers > Committed(file) THEN "write"
                   ELSE "idle")
        /\ loading' = [loading EXCEPT ![p] = \/ Scanned(file) < Len(file)
                                             \/ Recovered(file) + closers > Committed(file)]
  BY DEF Load
<1>3. file \in Contents /\ file \in Seq(Pieces) /\ Len(file) \in Nat
  BY LenProperties DEF Sound, Types, Contents
<1>4. PICK k \in 1..Len(file) : k = Scanned(file)
  BY <1>1, <1>3, ScannedCounts
<1>5. file[k].whole /\ file[k].to \in 0..MaxEvents /\ Committed(file) = file[k].to
  <2>1. k \in 1..k /\ file[k].whole
    BY <1>3, <1>4, ScannedCounts
  <2>2. /\ file[k].to \in -1..MaxEvents /\ file[k].to >= file[k].from
        /\ file[k].from \in 0..MaxEvents
    BY <1>3, <1>4, <2>1, PieceTypes
  <2> QED
    BY <1>4, <2>1, <2>2, MaxEventsAssumption DEF Committed
<1>6. Recovered(file) \in Nat
  <2>1. CASE Len(file) = k + 1 /\ ~file[Len(file)].whole
    <3>1. Len(file) \in 1..Len(file) /\ Len(file) > 1
      BY <1>3, <1>4, <2>1
    <3>2. /\ file[Len(file)].to \in -1..MaxEvents /\ file[Len(file)].from >= 1
          /\ file[Len(file)].to >= file[Len(file)].from - 1
          /\ file[Len(file)].from \in 0..MaxEvents
      BY <1>3, <3>1, PieceTypes DEF Contents
    <3>3. Recovered(file) = file[Len(file)].to
      BY <1>4, <2>1 DEF Recovered
    <3> QED
      BY <3>2, <3>3, MaxEventsAssumption
  <2>2. CASE ~(Len(file) = k + 1 /\ ~file[Len(file)].whole)
    <3>1. Recovered(file) = Committed(file)
      BY <1>4, <2>2 DEF Recovered
    <3> QED
      BY <1>5, <3>1
  <2> QED
    BY <2>1, <2>2
<1>7. PICK g \in 0..MaxEvents : g = Recovered(file) + closers
  BY <1>2, <1>6, MaxEventsAssumption
<1>8. PICK s \in {"repair", "write", "idle"} :
        /\ Goto(p, s)
        /\ s = "repair" <=> Scanned(file) < Len(file)
        /\ s = "write" => g > Committed(file)
  BY <1>2, <1>7
<1>9. PICK n \in Nat : Anchored(n)
  BY <1>1 DEF Sound, Anchor
<1>10. n <= k /\ n \in 1..Len(file) /\ InOrder(file, n)
  BY <1>3, <1>4, <1>9, ScannedOrder DEF Anchored
<1>11. /\ stage' \in [Processes -> Stages] /\ stage'[p] = s
       /\ \A q \in Processes \ {p} : stage'[q] = stage[q]
  BY <1>8 DEF Goto, Sound, Types, Stages
<1>12. /\ cursor' \in [Processes -> 0..MaxEvents] /\ goal' \in [Processes -> 0..MaxEvents]
       /\ before' \in [Processes -> Nat] /\ materialized' \in [Processes -> BOOLEAN]
       /\ cursor'[p] = file[k].to /\ goal'[p] = g /\ before'[p] = k /\ materialized'[p]
       /\ \A q \in Processes \ {p} :
             /\ cursor'[q] = cursor[q] /\ goal'[q] = goal[q] /\ before'[q] = before[q]
             /\ materialized'[q] = materialized[q]
  BY <1>1, <1>2, <1>4, <1>5, <1>7 DEF Sound, Types
<1>13. /\ loading' \in [Processes -> BOOLEAN]
       /\ s = "repair" => loading'[p]
       /\ \A q \in Processes \ {p} : loading'[q] = loading[q]
  BY <1>2, <1>8 DEF Sound, Types
<1>14. damage' \in {"none", "remnant", "buried"} /\ damage' # "remnant"
       /\ (damage' # "buried" => damage # "buried") /\ unnamed' \in BOOLEAN
  BY <1>1 DEF Sound, Types
<1>15. Types'
  BY <1>1, <1>11, <1>12, <1>13, <1>14 DEF Sound, Types
<1>16. Aside(p)
  BY <1>1, <1>11, <1>12, <1>13, NoProcessAssumption DEF Aside
<1>17. Grows
  BY <1>1 DEF Grows, Sound, Types
<1>18. Names'
  BY <1>1 DEF Sound, Names
<1>19. Anchor'
  <2>1. /\ n <= Len(file') /\ n <= Len(disk') /\ Len(file') \in Nat
        /\ \A i \in 1..n : file'[i] = file[i] /\ disk'[i] = file[i]
    BY <1>1, <1>3, <1>9 DEF Anchored
  <2>2. \A q \in Processes : stage'[q] \in Cutting => n <= before'[q]
    BY <1>9, <1>10, <1>11, <1>12 DEF Anchored
  <2>3. Anchored(n)'
    BY <1>1, <1>9, <2>1, <2>2, AnchorKept
  <2> QED
    BY <2>3 DEF Anchor
<1>20. Contained'
  BY <1>1, <1>14 DEF Sound, Contained, Published
<1>21. OnChain(p)' /\ Holds(p)'
  <2>1. OnChain(p)'
    BY <1>8, <1>11 DEF OnChain
  <2>2. s = "write" => goal'[p] > cursor'[p]
    BY <1>5, <1>8, <1>12
  <2>3. unnamed' \/ Log \in kept'
    BY <1>1
  <2>4. s = "repair" => before'[p] \in 1..Len(file')
    BY <1>1, <1>4, <1>12
  <2>5. Holds(p)'
    BY <1>1, <1>8, <1>11, <1>12, <1>13, <2>2, <2>3, <2>4 DEF Holds, Materializing,
       Batching, Cutting
  <2> QED
    BY <2>1, <2>5
<1>22. Reaches(p)'
  <2>1. ASSUME damage' = "none"
        PROVE  /\ InOrder(file, k) /\ g >= file[k].to
               /\ s # "repair" => FullTo(file, file[k].to)
    <3>1. Readable(file)
      BY <1>1, <1>14, <2>1 DEF Sound, Contained
    <3>2. Torn(file, k) /\ Recovered(file) >= Committed(file)
      BY <1>3, <1>4, <1>10, <3>1, ReadableSound
    <3>3. InOrder(file, k)
      BY <3>2 DEF Torn
    <3>4. g >= file[k].to
      BY <1>5, <1>6, <1>7, <3>2
    <3>5. s # "repair" => k = Len(file)
      BY <1>3, <1>4, <1>8
    <3> QED
      BY <3>3, <3>4, <3>5 DEF FullTo
  <2> QED
    BY <1>1, <1>8, <1>11, <1>12, <1>14, <2>1 DEF Reaches, Cutting
<1> QED
  BY <1>15, <1>16, <1>17, <1>18, <1>19, <1>20, <1>21, <1>22, Assembled DEF Local

\* What the file and the disk share at their beginning holds all that both begin with.
LEMMA SharedHolds ==
    ASSUME file \in Seq(Pieces), disk \in Seq(Pieces), NEW n \in Nat,
           n <= Len(file), n <= Len(disk), \A i \in 1..n : disk[i] = file[i]
    PROVE  /\ Len(Shared) \in Nat /\ Len(Shared) >= n
           /\ \A i \in 1..n : Shared[i] = file[i]
<1>1. Len(file) \in Nat /\ Len(disk) \in Nat
  BY LenProperties
<1> DEFINE m == Min({Len(file), Len(disk)})
           S == {k \in 0..m : SubSeq(file, 1, k) = SubSeq(disk, 1, k)}
<1>2. m \in Nat /\ m <= Len(file) /\ m >= n
  <2>1. \E x \in {Len(file), Len(disk)} : \A y \in {Len(file), Len(disk)} : x <= y
    <3>1. CASE Len(file) <= Len(disk)
      BY <1>1, <3>1
    <3>2. CASE Len(disk) <= Len(file)
      BY <1>1, <3>2
    <3> QED
      BY <1>1, <3>1, <3>2
  <2>2. /\ m \in {Len(file), Len(disk)} /\ \A y \in {Len(file), Len(disk)} : m <= y
    BY <2>1 DEF Min
  <2> QED
    BY <1>1, <2>2
<1>3. Shared = SubSeq(file, 1, Max(S))
  BY DEF Shared
<1> HIDE DEF m
<1>4. n \in S
  <2>1. /\ SubSeq(file, 1, n) \in Seq(Pieces) /\ Len(SubSeq(file, 1, n)) = n
        /\ \A i \in 1..n : SubSeq(file, 1, n)[i] = file[i]
    BY <1>1, Beginnings
  <2>2. /\ SubSeq(disk, 1, n) \in Seq(Pieces) /\ Len(SubSeq(disk, 1, n)) = n
        /\ \A i \in 1..n : SubSeq(disk, 1, n)[i] = disk[i]
    BY <1>1, Beginnings
  <2>3. SubSeq(file, 1, n) = SubSeq(disk, 1, n)
    BY <2>1, <2>2, SeqEqual
  <2> QED
    BY <1>2, <2>3
<1>5. S \in SUBSET (0..m) /\ S # {}
  BY <1>4
<1> HIDE DEF S
<1>6. Max(S) \in 0..m /\ Max(S) >= n
  BY <1>2, <1>4, <1>5, Greatest
<1>7. PICK k \in 0..Len(file) : k = Max(S) /\ k >= n
  BY <1>1, <1>2, <1>6
<1>8. /\ Len(SubSeq(file, 1, k)) = k /\ \A i \in 1..k : SubSeq(file, 1, k)[i] = file[i]
  BY Beginnings
<1> QED
  BY <1>3, <1>7, <1>8

\* The machine stops: a log that was named and anchored comes back with its anchor, and
\* with one torn tail at most unless a remnant was buried.
LEMMA PowerLossSound ==
    ASSUME Held, Sound, PowerLoss
    PROVE  Sound'
<1>1. /\ Stop(Processes) /\ made' \in 0..made
      /\ \A k \in 1..made : (1..k \subseteq kept) => k <= made'
      /\ kept' = 1..made' /\ disk' = file'
      /\ file' \in IF made' < Log THEN {<<>>}
                   ELSE {c \in Cuts(file) \cup Cuts(disk) : IsPrefix(Shared, c)}
      /\ first' = (IF made' < Log THEN 0 ELSE first)
      /\ damage' = (IF made' = Log THEN damage ELSE "none")
      /\ zstd' = zstd /\ acked' = acked /\ unnamed' = unnamed
  BY DEF PowerLoss
<1>2. made \in 0..Log /\ made' \in 0..Log /\ Log = 4
  BY <1>1 DEF Sound, Types, Log
<1>3. \A q \in Processes : stage'[q] = "down" /\ ~materialized'[q]
  BY <1>1 DEF Stop
<1>4. \A q \in Processes : Local(q)'
  BY <1>3, NothingHeld
<1>5. Names'
  <2>1. ASSUME acked > 0, ~unnamed PROVE Log \in kept'
    <3>1. Log \in kept /\ 1..Log \subseteq kept /\ kept \subseteq 1..made
      BY <2>1 DEF Sound, Names, Types
    <3>2. made = Log /\ Log \in 1..made
      BY <1>2, <3>1
    <3>3. made' = Log
      BY <1>1, <1>2, <3>1, <3>2
    <3> QED
      BY <1>1, <1>2, <3>3
  <2>2. Log \in kept' => 1..Log \subseteq kept'
    BY <1>1, <1>2
  <2> QED
    BY <1>1, <2>1, <2>2 DEF Names
<1>6. file \in Contents /\ disk \in Contents /\ file \in Seq(Pieces) /\ disk \in Seq(Pieces)
  BY DEF Sound, Types, Contents
<1>7. CASE made' # Log
  <2>1. made' < Log /\ file' = <<>> /\ disk' = <<>> /\ first' = 0 /\ damage' = "none"
    BY <1>1, <1>2, <1>7
  <2>2. <<>> \in Contents
    BY EmptySeq DEF Contents
  <2>3. Types'
    <3>1. kept' \subseteq 1..made' /\ zstd' \in BOOLEAN /\ acked' \in 0..MaxEvents
          /\ unnamed' \in BOOLEAN
      BY <1>1 DEF Sound, Types
    <3> QED
      BY <1>1, <1>2, <2>1, <2>2, <3>1, StopTypes DEF Types
  <2>4. Anchor' /\ Contained'
    BY <1>7, <2>1 DEF Anchor, Contained, Published
  <2> QED
    BY <1>4, <1>5, <2>3, <2>4 DEF Sound
<1>8. CASE made' = Log
  <2>1. Published
    BY <1>1, <1>2, <1>8 DEF Published
  <2>2. PICK n \in Nat : Anchored(n)
    BY <2>1 DEF Sound, Anchor
  <2>3. /\ file' \in Cuts(file) \cup Cuts(disk) /\ IsPrefix(Shared, file')
        /\ first' = first /\ damage' = damage
    BY <1>1, <1>2, <1>8
  <2>4. PICK c \in {file, disk} : file' \in Cuts(c)
    BY <2>3
  <2>5. c \in Contents /\ c \in Seq(Pieces)
    BY <1>6, <2>4
  <2>6. file' \in Seq(Pieces) /\ CutOf(file', c)
    BY <2>4, <2>5, CutsAreCuts
  <2>7. file' \in Contents
    BY <2>5, <2>6, CutContents
  <2>8. Len(file') \in Nat /\ Len(file) \in Nat
    BY <1>6, <2>6, LenProperties
  <2>9. n <= Len(file') /\ \A i \in 1..n : file'[i] = file[i]
    <3>1. /\ Len(Shared) \in Nat /\ Len(Shared) >= n
          /\ \A i \in 1..n : Shared[i] = file[i]
      BY <1>6, <2>2, <2>8, SharedHolds DEF Anchored
    <3> DEFINE l == Len(Shared)
    <3>2. l <= Len(file') /\ SubSeq(Shared, 1, l) = SubSeq(file', 1, l)
      BY <2>3 DEF IsPrefix
    <3>3. /\ Len(SubSeq(file', 1, l)) = l /\ \A i \in 1..l : SubSeq(file', 1, l)[i] = file'[i]
      BY <2>6, <2>8, <3>1, <3>2, Beginnings
    <3>4. \A i \in 1..l : SubSeq(Shared, 1, l)[i] = Shared[i]
      OBVIOUS
    <3> QED
      BY <2>8, <3>1, <3>2, <3>3, <3>4
  <2>10. Types'
    <3>1. kept' \subseteq 1..made' /\ zstd' \in BOOLEAN /\ acked' \in 0..MaxEvents
          /\ unnamed' \in BOOLEAN /\ first' \in Nat
          /\ damage' \in {"none", "remnant", "buried"}
      BY <1>1, <2>3 DEF Sound, Types
    <3> QED
      BY <1>1, <1>2, <2>7, <3>1, StopTypes DEF Types
  <2>11. Anchor'
    <3>1. n <= Len(disk') /\ \A i \in 1..n : disk'[i] = file[i]
      BY <1>1, <2>9
    <3>2. Anchored(n)'
      BY <1>1, <1>3, <2>2, <2>3, <2>8, <2>9, <3>1, AnchorKept DEF Cutting
    <3> QED
      BY <3>2 DEF Anchor
  <2>12. Contained'
    <3>1. damage # "buried" => Readable(c)
      BY <2>1, <2>4 DEF Sound, Contained
    <3>2. damage # "buried" => Readable(file')
      BY <2>5, <2>6, <3>1, CutReadable
    <3> QED
      BY <1>1, <1>8, <2>3, <3>2 DEF Contained, Published
  <2> QED
    BY <1>4, <1>5, <2>10, <2>11, <2>12 DEF Sound
<1> QED
  BY <1>7, <1>8

\* Nothing changes.
LEMMA StutterSound ==
    ASSUME Sound, UNCHANGED vars
    PROVE  Sound'
BY DEF Sound, Types, Names, Anchor, Anchored, Contained, Local, OnChain, Holds, Reaches,
   Published, vars, names, content, call, state, history, Cutting, Materializing, Batching

\* The log is sound before anybody created it.
LEMMA SoundInit == Init => Sound
<1> SUFFICES ASSUME Init PROVE Sound
  OBVIOUS
<1>1. <<>> \in Contents
  BY EmptySeq DEF Contents
<1>2. Types
  <2>1. /\ zstd \in BOOLEAN /\ made \in 0..Log /\ kept \subseteq 1..made
        /\ file \in Contents /\ disk \in Contents /\ temp \in [Processes -> Contents]
    BY <1>1 DEF Init, Log
  <2>2. /\ stage \in [Processes -> Stages] /\ level \in [Processes -> 0..Log]
        /\ loading \in [Processes -> BOOLEAN] /\ materialized \in [Processes -> BOOLEAN]
    BY DEF Init, Stages, Log
  <2>3. 0 \in 0..MaxEvents
    BY MaxEventsAssumption
  <2>4. /\ cursor \in [Processes -> 0..MaxEvents] /\ goal \in [Processes -> 0..MaxEvents]
        /\ synced \in [Processes -> BOOLEAN] /\ before \in [Processes -> Nat]
    BY <2>3 DEF Init
  <2>5. /\ owner \in Processes \cup {NoProcess} /\ first \in Nat /\ acked \in 0..MaxEvents
        /\ damage \in {"none", "remnant", "buried"} /\ unnamed \in BOOLEAN
    BY <2>3 DEF Init
  <2> QED
    BY <2>1, <2>2, <2>4, <2>5 DEF Types
<1>3. Names /\ Anchor /\ Contained
  BY DEF Init, Names, Anchor, Contained, Published, Log
<1>4. \A p \in Processes : Local(p)
  BY DEF Init, Local, OnChain, Holds, Reaches, Materializing, Batching, Cutting
<1> QED
  BY <1>2, <1>3, <1>4 DEF Sound

\* Every step of every process, and every fault, leaves the log sound.
LEMMA SoundNext == Held /\ Sound /\ [Next]_vars => Sound'
<1> SUFFICES ASSUME Held, Sound, [Next]_vars PROVE Sound'
  OBVIOUS
<1>1. ASSUME NEW p \in Processes, Create(p) \/ StartAppend(p) \/ Load(p) PROVE Sound'
  BY <1>1, CreateSound, StartAppendSound, LoadSound
<1>2. ASSUME NEW p \in Processes, MakeDirectory(p) \/ SyncDirectory(p) \/ CheckNew(p)
      PROVE  Sound'
  BY <1>2, MakeDirectorySound, SyncDirectorySound, CheckNewSound
<1>3. ASSUME NEW p \in Processes, TempWrite(p) \/ TempSync(p) \/ Publish(p) PROVE Sound'
  BY <1>3, TempWriteSound, TempSyncSound, PublishSound
<1>4. ASSUME NEW p \in Processes, Write(p) \/ WriteFails(p) \/ Sync(p) \/ SyncFails(p)
      PROVE  Sound'
  BY <1>4, WriteSound, SyncSound, SyncFailsSound
<1>5. ASSUME NEW p \in Processes, Rollback(p) \/ RollbackSync(p) \/ Repair(p) \/ RepairSync(p)
      PROVE  Sound'
  BY <1>5, CutSound, RollbackSyncSound, RepairSyncSound
<1>6. ASSUME NEW p \in Processes,
             CallFails(p) \/ CloseFails(p) \/ SyncedCloseFails(p) \/ Crash(p)
      PROVE  Sound'
  BY <1>6, CallFailsSound, CloseFailsSound, SyncedCloseFailsSound, CrashSound
<1>7. CASE PowerLoss
  BY <1>7, PowerLossSound
<1>8. CASE UNCHANGED vars
  BY <1>8, StutterSound
<1> QED
  BY <1>1, <1>2, <1>3, <1>4, <1>5, <1>6, <1>7, <1>8 DEF Next

\* The log is sound in every state, whichever call fails and whoever stops: its anchor
\* always, and that cursors and cuts lie where records end as long as no rejected append
\* has left anything (materializePosix, appendLines, rollbackAppend, commitRepair).
THEOREM LogSound == Spec => []Sound
<1>1. Held /\ [Next]_vars => Held'
  BY HeldNext DEF Keeps
<1> QED
  BY HeldInit, <1>1, SoundInit, SoundNext, PTL DEF Spec

\* Every variable is of its kind, in every state.
THEOREM TypesHold == Spec => []TypeOK
<1>1. Sound => TypeOK
  <2> SUFFICES ASSUME Sound PROVE TypeOK
    OBVIOUS
  <2>1. ASSUME NEW c \in Contents, NEW i \in 1..Len(c)
        PROVE  /\ c[i].from \in 0..MaxEvents /\ c[i].to \in -1..MaxEvents
               /\ c[i].whole \in BOOLEAN /\ (c[i].whole => c[i].from <= c[i].to)
    BY <2>1, PieceTypes DEF Contents
  <2>2. {file, disk} \cup {temp[p] : p \in Processes} \subseteq Contents
    BY DEF Sound, Types
  <2>3. kept \subseteq 1..Log
    BY DEF Sound, Types, Log
  <2> QED
    BY <2>1, <2>2, <2>3 DEF Sound, Types, TypeOK
<1> QED
  BY <1>1, LogSound, PTL

\* What an append reported stored is never lost, also behind a close that failed, but
\* for what was reported when a batch already lay behind pieces that a rejected append
\* had left, and for a log loaded while its name was not synced.  A log that can be
\* seen holds its first batch, and can be read while no batch lies behind such pieces.
THEOREM LogsSurvive == Spec => []LogSurvives
<1>1. Sound => LogSurvives
  <2> SUFFICES ASSUME Sound PROVE LogSurvives
    OBVIOUS
  <2>1. file \in Seq(Pieces) /\ Len(file) \in Nat
    BY LenProperties DEF Sound, Types, Contents
  <2>2. ASSUME Published
        PROVE  /\ Scanned(file) >= first
               /\ damage # "buried" => ~Corrupt(file)
               /\ acked > 0 /\ ~unnamed => Committed(file) >= acked
    <3>1. PICK n \in Nat : Anchored(n)
      BY <2>2 DEF Sound, Anchor
    <3>2. n \in 1..Len(file) /\ InOrder(file, n) /\ n >= first /\ first \in Nat
      BY <3>1 DEF Anchored, Sound, Types
    <3>3. /\ Scanned(file) \in n..Len(file) /\ Committed(file) = file[Scanned(file)].to
          /\ Committed(file) >= file[n].to
      BY <2>1, <3>2, ScannedReaches
    <3>4. Scanned(file) >= first
      BY <2>1, <3>2, <3>3
    <3>5. damage # "buried" => ~Corrupt(file)
      <4>1. damage # "buried" => Readable(file)
        BY <2>2 DEF Sound, Contained
      <4> QED
        BY <2>1, <3>2, <4>1, ReadableSound
    <3>6. ASSUME acked > 0, ~unnamed PROVE Committed(file) >= acked
      <4>1. Scanned(file) \in 1..Len(file)
        BY <2>1, <3>2, <3>3
      <4>2. /\ file[n].to \in Int /\ Committed(file) \in Int /\ acked \in Int
        BY <2>1, <3>2, <3>3, <4>1, PieceTypes DEF Sound, Types
      <4>3. file[n].to >= acked
        BY <3>1, <3>6 DEF Anchored
      <4> QED
        BY <3>3, <4>2, <4>3
    <3> QED
      BY <3>4, <3>5, <3>6
  <2>3. acked > 0 /\ ~unnamed => Published
    BY DEF Sound, Names, Types, Published, Log
  <2> QED
    BY <2>2, <2>3 DEF LogSurvives, AckedSurvive, PublishedWhole, LogReadable
<1> QED
  BY <1>1, LogSound, PTL
=============================================================================
