----------------------------- MODULE DurableLog -----------------------------
(***************************************************************************)
(* What the write path of a session promises, with no queue, timer or       *)
(* write in sight: the session's log grows, a prefix of it is durable, and  *)
(* a flush resolves only when what was logged before it is durable.         *)
(***************************************************************************)
EXTENDS Naturals

CONSTANTS Callers, MaxEvents

VARIABLES
    logged,    \* length of the session's log
    durable,   \* length of its durable prefix
    call,      \* each flush call: "none", "waiting", "resolved", "rejected"
    target     \* length of the log when the call was made

vars == <<logged, durable, call, target>>

Init ==
    /\ logged = 0 /\ durable = 0
    /\ call = [c \in Callers |-> "none"] /\ target = [c \in Callers |-> 0]

Log == /\ logged < MaxEvents /\ logged' = logged + 1
       /\ UNCHANGED <<durable, call, target>>

Persist == /\ durable' \in (durable + 1)..logged
           /\ UNCHANGED <<logged, call, target>>

Flush(c) ==
    /\ call[c] # "waiting"
    /\ call' = [call EXCEPT ![c] = "waiting"]
    /\ target' = [target EXCEPT ![c] = logged]
    /\ UNCHANGED <<logged, durable>>

\* Calls that share a barrier settle together.
Resolve(settled) ==
    /\ \A c \in settled : call[c] = "waiting" /\ target[c] <= durable
    /\ call' = [c \in Callers |-> IF c \in settled THEN "resolved" ELSE call[c]]
    /\ UNCHANGED <<logged, durable, target>>

Reject(settled) ==
    /\ \A c \in settled : call[c] = "waiting"
    /\ call' = [c \in Callers |-> IF c \in settled THEN "rejected" ELSE call[c]]
    /\ UNCHANGED <<logged, durable, target>>

Next == \/ Log \/ Persist
        \/ \E c \in Callers : Flush(c)
        \/ \E settled \in SUBSET Callers : Resolve(settled) \/ Reject(settled)

Spec == Init /\ [][Next]_vars
=============================================================================
