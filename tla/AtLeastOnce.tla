------------------------------ MODULE AtLeastOnce ------------------------------
(***************************************************************************)
(* What the score log promises the client that fills it: entries are taken *)
(* off the queue one by one, from its front, and only when they have been  *)
(* recorded; an entry may be recorded again, but none before its turn.     *)
(* Entries are numbered in the order they are pushed.                      *)
(***************************************************************************)
EXTENDS Integers, Sequences

VARIABLES
    pushed,         \* entries pushed so far
    pending,        \* the queue: entries not yet acknowledged, oldest first
    recorded,       \* the entries that have been recorded
    acknowledged    \* the entries taken off because they were recorded

logVars == <<pushed, pending, recorded, acknowledged>>

\* The entry whose turn it is, or the next to be pushed.
Turn == pushed - Len(pending) + 1

Init ==
    /\ pushed = 0 /\ pending = <<>>
    /\ recorded = {} /\ acknowledged = {}

\* A time and a score are pushed together.
Push ==
    /\ pushed' = pushed + 2
    /\ pending' = pending \o <<pushed + 1, pushed + 2>>
    /\ UNCHANGED <<recorded, acknowledged>>

\* An entry is recorded when its turn has come, perhaps not for the first
\* time and perhaps when the client has forgotten it.
Record(entry) ==
    /\ entry <= pushed /\ entry <= Turn
    /\ recorded' = recorded \union {entry}
    /\ UNCHANGED <<pushed, pending, acknowledged>>

\* The entry at the front has been recorded: it leaves the queue.
Acknowledge ==
    /\ pending # <<>> /\ Head(pending) \in recorded
    /\ pending' = Tail(pending)
    /\ acknowledged' = acknowledged \union {Head(pending)}
    /\ UNCHANGED <<pushed, recorded>>

\* The client is started again: its queue is lost, what is recorded is not.
Forget ==
    /\ pending' = <<>>
    /\ UNCHANGED <<pushed, recorded, acknowledged>>

Next ==
    \/ Push \/ Acknowledge \/ Forget
    \/ \E entry \in 1 .. pushed : Record(entry)

Spec == Init /\ [][Next]_logVars
================================================================================
