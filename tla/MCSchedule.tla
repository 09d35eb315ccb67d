----------------------------- MODULE MCSchedule -----------------------------
(***************************************************************************)
(* Schedule for TLC.                                                        *)
(***************************************************************************)
EXTENDS Schedule

New(id, at, every) == [op |-> "create", id |-> id, at |-> at, every |-> every]

\* The reminder of an earlier run, whose dispatch a crash took.
Undispatched == [op |-> "reminder", id |-> 0, run |-> -1, items |-> {[id |-> 1, at |-> 1]}]

\* A session without reminders, one with two fixed-rate ones, and one with a
\* one-shot that was queued before.
Logs == {<<>>, <<New(1, 1, 1), New(2, 1, 1)>>, <<New(1, 1, 0), Undispatched>>}
=============================================================================
