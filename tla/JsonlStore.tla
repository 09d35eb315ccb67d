----------------------------- MODULE JsonlStore -----------------------------
(***************************************************************************)
(* The JSONL session backend: how one session's log gets onto the disk,     *)
(* grows there and is repaired, when every system call may fail and the     *)
(* machine may stop between any two of them.                                *)
(*                                                                          *)
(* The log file is a sequence of pieces, each a run of events from..to: one  *)
(* line per event in the plain encoding, one frame per batch in the          *)
(* compressed one; piece 1 is the header.  A piece that is not whole was cut  *)
(* by a failed or interrupted write: a cut frame still yields the events its  *)
(* decoder reaches, a cut line yields none.  An event is its number in the    *)
(* session's log.                                                           *)
(*                                                                          *)
(* The file lies at the end of a chain of four directory entries, root,      *)
(* project, session directory and log.  What a process sees (file, made) and  *)
(* what the disk holds (disk, kept) differ until the sync that joins them.    *)
(***************************************************************************)
EXTENDS Integers, SequencesExt

CONSTANTS
    Processes,   \* the processes that open the session
    NoProcess,
    MaxEvents    \* bound: how many events the session's log holds

ASSUME NoProcessAssumption == NoProcess \notin Processes
ASSUME MaxEventsAssumption == MaxEvents \in Nat \ {0}

VARIABLES
    zstd,          \* the root's encoding is the compressed one
    made,          \* how much of the chain of entries exists, 0..4
    kept,          \* the entries a power loss cannot take
    file,          \* the log's content as the processes see it
    disk,          \* the content a power loss cannot take
    stage,         \* where each process's backend call stands
    level,         \* the entry a materialization works on
    loading,       \* the call is the repair of a load
    materialized,  \* the coordinator's state.materialized
    cursor,        \* the coordinator's state.cursor
    goal,          \* the last event of the batch last handed to the backend
    temp,          \* the temporary file of a materialization
    synced,        \* the temporary file was synced
    before,        \* the length a rollback or a repair cuts the file to
    owner,         \* history: the process that published or loaded the log
    first,         \* history: how many pieces were published together
    acked,         \* history: the last event an append reported stored while
                   \* nothing lay buried
    damage,        \* history: "remnant", a rejected append left pieces, as its
                   \* rollback or its close failed; "buried", a batch was
                   \* written behind them; else "none"
    unnamed        \* history: the log was loaded while its name was not synced

names == <<made, kept>>
content == <<file, disk>>
call == <<stage, level, loading, goal, temp, synced, before>>
state == <<materialized, cursor>>
history == <<owner, first, acked, damage, unnamed>>
vars == <<zstd, names, content, call, state, history>>

Log == 4    \* the last entry of the chain
Published == made = Log

Stages == {"down", "idle", "mkdir", "syncdir", "check", "tempwrite", "tempsync",
           "link", "write", "sync", "rollback", "rollsync", "repair", "repairsync"}

(***************************************************************************)
(* Contents.                                                                *)
(***************************************************************************)
Piece(from, to, whole) == [from |-> from, to |-> to, whole |-> whole]
Header == Piece(0, 0, TRUE)

\* encodeEventBatch: a line per event, or a frame for the batch.
Encoded(from, to) ==
    IF zstd THEN <<Piece(from, to, TRUE)>>
    ELSE [i \in 1..(to + 1 - from) |-> Piece(from + i - 1, from + i - 1, TRUE)]

\* What may be left of a content of which only a first part was written.
Cuts(c) ==
    {SubSeq(c, 1, k) : k \in 0..Len(c)} \cup
    UNION {{Append(SubSeq(c, 1, k), Piece(c[k + 1].from, to, FALSE)) :
              to \in (c[k + 1].from - 1)..(IF zstd THEN c[k + 1].to ELSE c[k + 1].from - 1)} :
           k \in 0..(Len(c) - 1)}

\* SessionLogScanner: how many pieces form whole records in sequence.
Scanned(c) ==
    Max({0} \cup {k \in 1..Len(c) : \A i \in 1..k :
            /\ c[i].whole
            /\ c[i].from = IF i = 1 THEN 0 ELSE c[i - 1].to + 1})

\* The last event before the torn tail, and behind it what a cut frame yields.
Committed(c) == IF Scanned(c) = 0 THEN 0 ELSE c[Scanned(c)].to
Recovered(c) ==
    IF Len(c) = Scanned(c) + 1 /\ ~c[Len(c)].whole THEN c[Len(c)].to ELSE Committed(c)

\* A remnant that later records follow: no torn tail, but a corrupt log.
Corrupt(c) == \/ Scanned(c) = 0
              \/ Len(c) > Scanned(c) + 1
              \/ Len(c) = Scanned(c) + 1 /\ c[Len(c)].whole

TypeOK ==
    /\ zstd \in BOOLEAN /\ made \in 0..Log /\ kept \subseteq 1..Log
    /\ \A c \in {file, disk} \cup {temp[p] : p \in Processes} :
         \A i \in 1..Len(c) :
            /\ c[i].from \in 0..MaxEvents /\ c[i].to \in -1..MaxEvents
            /\ c[i].whole \in BOOLEAN /\ (c[i].whole => c[i].from <= c[i].to)
    /\ stage \in [Processes -> Stages] /\ level \in [Processes -> 0..Log]
    /\ loading \in [Processes -> BOOLEAN] /\ materialized \in [Processes -> BOOLEAN]
    /\ cursor \in [Processes -> 0..MaxEvents] /\ goal \in [Processes -> 0..MaxEvents]
    /\ synced \in [Processes -> BOOLEAN] /\ before \in [Processes -> Nat]
    /\ owner \in Processes \cup {NoProcess} /\ first \in Nat
    /\ acked \in 0..MaxEvents
    /\ damage \in {"none", "remnant", "buried"} /\ unnamed \in BOOLEAN

Init ==
    /\ zstd \in BOOLEAN /\ made = 0 /\ kept = {} /\ file = <<>> /\ disk = <<>>
    /\ stage = [p \in Processes |-> "down"] /\ level = [p \in Processes |-> 0]
    /\ loading = [p \in Processes |-> FALSE]
    /\ materialized = [p \in Processes |-> FALSE]
    /\ cursor = [p \in Processes |-> 0] /\ goal = [p \in Processes |-> 0]
    /\ temp = [p \in Processes |-> <<>>] /\ synced = [p \in Processes |-> FALSE]
    /\ before = [p \in Processes |-> 0]
    /\ owner = NoProcess /\ first = 0 /\ acked = 0 /\ damage = "none"
    /\ unnamed = FALSE

(***************************************************************************)
(* Fragments of actions.                                                    *)
(***************************************************************************)

\* The process goes on with its call at stage s.
Goto(p, s) == stage' = [stage EXCEPT ![p] = s]

\* The processes in gone stop, and with them what they held in memory.
Stop(gone) ==
    /\ stage' = [p \in Processes |-> IF p \in gone THEN "down" ELSE stage[p]]
    /\ level' = [p \in Processes |-> IF p \in gone THEN 0 ELSE level[p]]
    /\ loading' = [p \in Processes |-> p \notin gone /\ loading[p]]
    /\ materialized' = [p \in Processes |-> p \notin gone /\ materialized[p]]
    /\ cursor' = [p \in Processes |-> IF p \in gone THEN 0 ELSE cursor[p]]
    /\ goal' = [p \in Processes |-> IF p \in gone THEN 0 ELSE goal[p]]
    /\ temp' = [p \in Processes |-> IF p \in gone THEN <<>> ELSE temp[p]]
    /\ synced' = [p \in Processes |-> p \notin gone /\ synced[p]]
    /\ before' = [p \in Processes |-> IF p \in gone THEN 0 ELSE before[p]]
    /\ owner' = IF owner \in gone THEN NoProcess ELSE owner

\* The backend call rejects: the batch stays retained, a load gives up.
Rejected(p) ==
    IF loading[p] THEN Stop({p})
    ELSE /\ Goto(p, "idle")
         /\ level' = [level EXCEPT ![p] = 0] /\ temp' = [temp EXCEPT ![p] = <<>>]
         /\ synced' = [synced EXCEPT ![p] = FALSE] /\ before' = [before EXCEPT ![p] = 0]
         /\ UNCHANGED <<loading, goal, state, owner>>

\* The backend call resolves: materialized, and the cursor advances.  What lies
\* behind a buried remnant is reported stored, too, but not to be found again.
Resolved(p) ==
    /\ Goto(p, "idle")
    /\ level' = [level EXCEPT ![p] = 0] /\ loading' = [loading EXCEPT ![p] = FALSE]
    /\ temp' = [temp EXCEPT ![p] = <<>>] /\ synced' = [synced EXCEPT ![p] = FALSE]
    /\ before' = [before EXCEPT ![p] = 0]
    /\ materialized' = [materialized EXCEPT ![p] = TRUE]
    /\ cursor' = [cursor EXCEPT ![p] = goal[p]]
    /\ acked' = IF damage = "buried" THEN acked ELSE Max({acked, goal[p]})
    /\ UNCHANGED goal

(***************************************************************************)
(* The coordinator: it creates or loads the session, and hands batches to   *)
(* the backend, one call at a time.                                         *)
(***************************************************************************)

\* createCore: the id is free, as far as the backend can see.
Create(p) ==
    /\ stage[p] = "down" /\ ~Published
    /\ Goto(p, "idle")
    /\ UNCHANGED <<zstd, names, content, level, loading, goal, temp, synced, before,
                   state, history>>

\* Mutant: an empty batch is not turned away.
StartAppendEmpty(p) ==
    /\ stage[p] = "idle" /\ damage # "buried"
    /\ \E n \in Max({goal[p], cursor[p]})..MaxEvents : goal' = [goal EXCEPT ![p] = n]
    /\ IF materialized[p] THEN Goto(p, "write") /\ UNCHANGED level
       ELSE Goto(p, "mkdir") /\ level' = [level EXCEPT ![p] = 1]
    /\ UNCHANGED <<zstd, names, content, loading, temp, synced, before, state, history>>

\* appendCore and appendBatch: the batch is not empty, and holds every event
\* retained from earlier attempts.
\* Bound: a log with a buried remnant is not written further, as it could grow forever.
StartAppend(p) ==
    /\ stage[p] = "idle" /\ damage # "buried"
    /\ \E n \in Max({goal[p], cursor[p] + 1})..MaxEvents : goal' = [goal EXCEPT ![p] = n]
    /\ IF materialized[p] THEN Goto(p, "write") /\ UNCHANGED level
       ELSE Goto(p, "mkdir") /\ level' = [level EXCEPT ![p] = 1]
    /\ UNCHANGED <<zstd, names, content, loading, temp, synced, before, state, history>>

(***************************************************************************)
(* materializePosix.                                                        *)
(***************************************************************************)

\* Mutant: the parent of a directory that was made is not synced.
MakeDirectoryUnsynced(p) ==
    /\ stage[p] = "mkdir"
    /\ made' = Max({made, level[p]})
    /\ level' = [level EXCEPT ![p] = @ + 1]
    /\ Goto(p, IF level[p] = Log - 1 THEN "check" ELSE "mkdir")
    /\ UNCHANGED <<zstd, kept, content, loading, goal, temp, synced, before, state,
                   history>>

MakeDirectory(p) ==
    /\ stage[p] = "mkdir" /\ Goto(p, "syncdir")
    /\ made' = Max({made, level[p]})
    /\ UNCHANGED <<zstd, kept, content, level, loading, goal, temp, synced, before,
                   state, history>>

\* syncDirPosix of the parent of the entry just made.
SyncDirectory(p) ==
    /\ stage[p] = "syncdir"
    /\ kept' = kept \cup {level[p]}
    /\ IF level[p] = Log THEN Resolved(p) /\ UNCHANGED <<owner, first, damage, unnamed>>
       ELSE /\ Goto(p, IF level[p] = Log - 1 THEN "check" ELSE "mkdir")
            /\ level' = [level EXCEPT ![p] = @ + 1]
            /\ UNCHANGED <<loading, goal, temp, synced, before, state, history>>
    /\ UNCHANGED <<zstd, made, content>>

\* rejectExistingLog.
CheckNew(p) ==
    /\ stage[p] = "check"
    /\ IF Published THEN Rejected(p)
       ELSE Goto(p, "tempwrite") /\ UNCHANGED <<level, loading, goal, temp, synced,
                                                before, state, owner>>
    /\ UNCHANGED <<zstd, names, content, first, acked, damage, unnamed>>

\* Mutant: the temporary file is linked without being synced.
TempWriteUnsynced(p) ==
    /\ stage[p] = "tempwrite" /\ Goto(p, "link")
    /\ temp' = [temp EXCEPT ![p] = <<Header>> \o Encoded(1, goal[p])]
    /\ UNCHANGED <<zstd, names, content, level, loading, goal, synced, before, state,
                   history>>

\* writeSyncedTempFile: the header and the whole first batch, then the sync.
TempWrite(p) ==
    /\ stage[p] = "tempwrite" /\ Goto(p, "tempsync")
    /\ temp' = [temp EXCEPT ![p] = <<Header>> \o Encoded(1, goal[p])]
    /\ UNCHANGED <<zstd, names, content, level, loading, goal, synced, before, state,
                   history>>

TempSync(p) ==
    /\ stage[p] = "tempsync" /\ Goto(p, "link")
    /\ synced' = [synced EXCEPT ![p] = TRUE]
    /\ UNCHANGED <<zstd, names, content, level, loading, goal, temp, before, state,
                   history>>

\* Mutant: rename instead of link, which replaces a log that is there.
PublishByRename(p) ==
    /\ stage[p] = "link"
    /\ made' = Log /\ owner' = p
    /\ file' = temp[p] /\ disk' = (IF synced[p] THEN temp[p] ELSE <<>>)
    /\ first' = Len(temp[p]) /\ Goto(p, "syncdir")
    /\ UNCHANGED <<zstd, kept, level, loading, goal, temp, synced, before, state,
                   acked, damage, unnamed>>

\* link(tmp, finalPath): refused when the name is taken.
Publish(p) ==
    /\ stage[p] = "link"
    /\ IF Published THEN Rejected(p) /\ UNCHANGED <<made, content, first>>
       ELSE /\ made' = Log /\ owner' = p
            /\ file' = temp[p] /\ disk' = (IF synced[p] THEN temp[p] ELSE <<>>)
            /\ first' = Len(temp[p]) /\ Goto(p, "syncdir")
            /\ UNCHANGED <<level, loading, goal, temp, synced, before, state>>
    /\ UNCHANGED <<zstd, kept, acked, damage, unnamed>>

(***************************************************************************)
(* appendLines and rollbackAppend.                                          *)
(***************************************************************************)

\* The write puts w behind the file, whose length was read before.
Writes(p, w, s) ==
    /\ stage[p] = "write" /\ Goto(p, s)
    /\ before' = [before EXCEPT ![p] = Len(file)] /\ file' = file \o w
    /\ damage' = IF damage = "remnant" /\ w # <<>> THEN "buried" ELSE damage
    /\ UNCHANGED <<zstd, names, disk, level, loading, goal, temp, synced, state,
                   owner, first, acked, unnamed>>

Write(p) == Writes(p, Encoded(cursor[p] + 1, goal[p]), "sync")

\* The write fails, having written any part of the batch.
WriteFails(p) ==
    \E w \in Cuts(Encoded(cursor[p] + 1, goal[p])) : Writes(p, w, "rollback")

\* The batch is durable, and its handle is closed.
Sync(p) ==
    /\ stage[p] = "sync"
    /\ disk' = file /\ Resolved(p)
    /\ UNCHANGED <<zstd, names, file, owner, first, damage, unnamed>>

\* The batch is durable, but the close in the finally fails: the call rejects with
\* no rollback, and the cursor stays in front of records that are in the log.
CloseFails(p) ==
    /\ stage[p] = "sync"
    /\ disk' = file /\ Rejected(p)
    /\ damage' = IF loading[p] \/ damage = "buried" THEN damage ELSE "remnant"
    /\ UNCHANGED <<zstd, names, file, first, acked, unnamed>>

SyncFails(p) ==
    /\ stage[p] = "sync" /\ Goto(p, "rollback")
    /\ UNCHANGED <<zstd, names, content, level, loading, goal, temp, synced, before,
                   state, history>>

\* Mutant: the rollback syncs what is there and cuts nothing.
RollbackNothing(p) ==
    /\ stage[p] = "rollback" /\ Goto(p, "rollsync")
    /\ UNCHANGED <<zstd, names, content, level, loading, goal, temp, synced, before,
                   state, history>>

Rollback(p) ==
    /\ stage[p] = "rollback" /\ Goto(p, "rollsync")
    /\ file' = SubSeq(file, 1, before[p])
    /\ UNCHANGED <<zstd, names, disk, level, loading, goal, temp, synced, before,
                   state, history>>

RollbackSync(p) ==
    /\ stage[p] = "rollsync"
    /\ disk' = file /\ Rejected(p)
    /\ UNCHANGED <<zstd, names, file, first, acked, damage, unnamed>>

(***************************************************************************)
(* Loading: readPrefix, and commitRepair when there is a torn tail to cut or *)
(* an event to add, as many as the interrupted turn needs (here one or       *)
(* none).  The contract gives the log to one live writer.                    *)
(***************************************************************************)

Load(p) ==
    /\ stage[p] = "down" /\ Published /\ owner = NoProcess
    /\ Scanned(file) > 0 /\ ~(zstd /\ Corrupt(file))
    /\ \E closers \in 0..1 :
         /\ Recovered(file) + closers <= MaxEvents
         /\ goal' = [goal EXCEPT ![p] = Recovered(file) + closers]
         /\ LET torn == Scanned(file) < Len(file)
                adds == Recovered(file) + closers > Committed(file)
            IN /\ Goto(p, IF torn THEN "repair" ELSE IF adds THEN "write" ELSE "idle")
               /\ loading' = [loading EXCEPT ![p] = torn \/ adds]
    /\ cursor' = [cursor EXCEPT ![p] = Committed(file)]
    /\ materialized' = [materialized EXCEPT ![p] = TRUE]
    /\ before' = [before EXCEPT ![p] = Scanned(file)] /\ owner' = p
    /\ unnamed' = (unnamed \/ Log \notin kept)
    /\ damage' = IF damage = "remnant" THEN "none" ELSE damage
    /\ UNCHANGED <<zstd, names, content, level, temp, synced, first, acked>>

\* repair: cut the torn tail.
Repair(p) ==
    /\ stage[p] = "repair" /\ Goto(p, "repairsync")
    /\ file' = SubSeq(file, 1, before[p])
    /\ UNCHANGED <<zstd, names, disk, level, loading, goal, temp, synced, before,
                   state, history>>

\* Then append what the torn frame still held, and the closers.
RepairSync(p) ==
    /\ stage[p] = "repairsync"
    /\ disk' = file
    /\ IF goal[p] > cursor[p]
         THEN Goto(p, "write") /\ UNCHANGED <<level, loading, goal, temp, synced,
                                              before, state, acked>>
         ELSE Resolved(p)
    /\ UNCHANGED <<zstd, names, file, owner, first, damage, unnamed>>

(***************************************************************************)
(* Faults.                                                                  *)
(***************************************************************************)

\* The longest beginning the file and its synced content have in common.
Shared == SubSeq(file, 1, Max({n \in 0..Min({Len(file), Len(disk)}) :
                                 SubSeq(file, 1, n) = SubSeq(disk, 1, n)}))

\* Any other system call fails, and leaves the disk as it was.  A failing close
\* behind a rollback's sync or in a temporary file changes nothing to that.
CallFails(p) ==
    /\ stage[p] \in {"mkdir", "syncdir", "check", "tempwrite", "tempsync", "link",
                     "rollback", "rollsync", "repair", "repairsync"}
    /\ Rejected(p)
    /\ damage' = IF stage[p] = "rollback" /\ Len(file) > before[p] /\ damage = "none"
                   THEN "remnant" ELSE damage
    /\ UNCHANGED <<zstd, names, content, first, acked, unnamed>>

\* The close behind the sync of a directory or of a repaired log fails: the call
\* rejects, though the sync was done.
SyncedCloseFails(p) ==
    /\ stage[p] \in {"syncdir", "repairsync"}
    /\ IF stage[p] = "syncdir" THEN kept' = kept \cup {level[p]} /\ UNCHANGED disk
       ELSE disk' = file /\ UNCHANGED kept
    /\ Rejected(p)
    /\ UNCHANGED <<zstd, made, file, first, acked, damage, unnamed>>

\* The process dies, or closes the session.
Crash(p) ==
    /\ stage[p] # "down" /\ Stop({p})
    /\ UNCHANGED <<zstd, names, content, first, acked, damage, unnamed>>

\* The machine stops.  What was not synced may be lost: of the names a part
\* that includes the kept ones, of the content what disk and file share and
\* any part of what either holds beyond it.
PowerLoss ==
    /\ Stop(Processes)
    /\ made' \in {m \in 0..made : \A k \in 1..made : (1..k \subseteq kept) => k <= m}
    /\ kept' = 1..made'
    /\ file' \in IF made' < Log THEN {<<>>}
                 ELSE {c \in Cuts(file) \cup Cuts(disk) : IsPrefix(Shared, c)}
    /\ disk' = file' /\ first' = IF made' < Log THEN 0 ELSE first
    /\ damage' = IF made' = Log THEN damage ELSE "none"
    /\ UNCHANGED <<zstd, acked, unnamed>>

Next ==
    \/ \E p \in Processes :
         \/ Create(p) \/ StartAppend(p) \/ Load(p)
         \/ MakeDirectory(p) \/ SyncDirectory(p) \/ CheckNew(p)
         \/ TempWrite(p) \/ TempSync(p) \/ Publish(p)
         \/ Write(p) \/ WriteFails(p) \/ Sync(p) \/ SyncFails(p)
         \/ CloseFails(p) \/ Rollback(p) \/ RollbackSync(p) \/ Repair(p) \/ RepairSync(p)
         \/ CallFails(p) \/ SyncedCloseFails(p) \/ Crash(p)
    \/ PowerLoss

Spec == Init /\ [][Next]_vars

(***************************************************************************)
(* Properties.                                                              *)
(***************************************************************************)

\* What an append reported stored is never lost again, wherever the process or the
\* machine stops, and whichever calls fail, the close behind a durable write
\* included.  Two exceptions: what was reported when a batch already lay behind
\* pieces that a rejected append had left (see acked), and a log that was loaded
\* while its name was not synced (materializePosix, appendLines, rollbackAppend,
\* commitRepair).
AckedSurvive == (acked > 0 /\ ~unnamed) => Published /\ Committed(file) >= acked

\* The promise of appendBatch without that last exception: it returns once the
\* batch is durable, also when the log it extends was published by a process
\* that did not live to sync the name.
AppendIsDurable == acked > 0 => Published /\ Committed(file) >= acked

\* A log that can be seen holds its header and its whole first batch, also
\* after a power loss: never a materialized session without events (the
\* contract of appendBatch).
PublishedWhole == Published => Scanned(file) >= first

\* What follows the records is one torn tail at most: no retry, rollback or repair
\* leaves a record out of sequence or behind a remnant, and none twice, but for
\* the retry of an append whose rollback or whose close failed.
LogReadable == (Published /\ damage # "buried") => ~Corrupt(file)

\* What the comment of appendLines wants of a rejected append, whichever of its calls
\* failed: the cursor, from which its batch is sent again, is where the records end.
RejectedLeavesNothing ==
    \A p \in Processes :
        (stage[p] = "idle" /\ materialized[p] /\ damage # "buried") =>
            Committed(file) = cursor[p]

\* Whatever is cut short, a log that can be seen holds its first batch and every event
\* an append reported stored, and can be read, with the exceptions named above.
LogSurvives == AckedSurvive /\ PublishedWhole /\ LogReadable

\* The log belongs to the process that published or loaded it: a process
\* that materializes the same id at the same time never replaces it, and is
\* never told that its events are stored (rejectExistingLog, link).
NeverClobbered ==
    /\ [][owner # NoProcess => owner' \in {owner, NoProcess}]_vars
    /\ [][\A p \in Processes : (materialized'[p] /\ ~materialized[p]) => owner' = p]_vars
=============================================================================
