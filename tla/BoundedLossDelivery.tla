------------------------ MODULE BoundedLossDelivery ------------------------
(***************************************************************************)
(* What the telemetry consumer promises about the messages of its topics,  *)
(* without batches, retries, offsets to commit or the ways to fail.  A     *)
(* cursor moves along each partition.  It steps past a message only when   *)
(* the message is accounted for: a row with its event id, its heartbeat in *)
(* collector_status, or a letter on the dead-letter topic.  Work on the    *)
(* message at the cursor may be repeated, but stores an event id once.     *)
(*                                                                         *)
(* The exceptions are the restarts.  One may take the cursor back, and     *)
(* ahead over MaxLost messages; the first ones, before an offset is        *)
(* remembered, take it to the end of the log.                              *)
(***************************************************************************)
EXTENDS Integers, Sequences, FiniteSets

CONSTANTS
    Partitions,
    Events,         \* messages that become a row
    Beats,          \* messages that become the status
    EventId,        \* the id of an event, which others may share
    NoBeat,         \* nothing is shown yet
    Messages,       \* events, heartbeats and messages that are neither
    MaxLost         \* messages a restart may leave out

VARIABLES
    log,            \* partition -> messages in order
    cursor,         \* partition -> messages it is past
    remembered,     \* an offset has been committed
    stored,         \* the events that have a row
    shown,          \* the heartbeat of the status row
    letters         \* message -> letters about it

marks == <<stored, shown, letters>>
vars == <<log, cursor, remembered, stored, shown, letters>>

Init ==
    /\ log = [p \in Partitions |-> <<>>]
    /\ cursor = [p \in Partitions |-> 0]
    /\ remembered = FALSE
    /\ stored = {}
    /\ shown = NoBeat
    /\ letters = [r \in Messages |-> 0]

Append1(p, r) ==
    /\ log' = [log EXCEPT ![p] = Append(@, r)]
    /\ UNCHANGED <<cursor, remembered, marks>>

\* r is the message at the cursor of p.
At(p, r) == cursor[p] < Len(log[p]) /\ r = log[p][cursor[p] + 1]

HasRow(r) == \E m \in stored : EventId[m] = EventId[r]

Effect(r) ==
    \/ UNCHANGED marks
    \/ /\ r \in Events /\ ~HasRow(r)
       /\ stored' = stored \cup {r}
       /\ UNCHANGED <<shown, letters>>
    \/ /\ r \in Beats
       /\ shown' = r
       /\ UNCHANGED <<stored, letters>>
    \/ /\ letters' = [letters EXCEPT ![r] = @ + 1]
       /\ UNCHANGED <<stored, shown>>

Accounted(r) == letters[r] > 0 \/ (r \in Events /\ HasRow(r)) \/ (r \in Beats /\ shown = r)

\* An offset may be committed on the way.
MayRemember == UNCHANGED remembered \/ remembered' = TRUE

\* Work that may be done again.
Work(p, r) ==
    /\ At(p, r)
    /\ Effect(r)
    /\ MayRemember
    /\ UNCHANGED <<log, cursor>>

StepPast(p, r) ==
    /\ At(p, r)
    /\ Effect(r)
    /\ Accounted(r)'
    /\ cursor' = [cursor EXCEPT ![p] = @ + 1]
    /\ UNCHANGED <<log, remembered>>

Remember ==
    /\ remembered' = TRUE
    /\ UNCHANGED <<log, cursor, marks>>

\* The messages between two cursors.
LeftOut(from, to) == UNION {{p} \X ((from[p] + 1)..to[p]) : p \in Partitions}

Restart ==
    /\ cursor' \in [Partitions -> Nat]
    /\ \A p \in Partitions : cursor'[p] <= Len(log[p])
    /\ IF remembered THEN Cardinality(LeftOut(cursor, cursor')) <= MaxLost
       ELSE \A p \in Partitions : cursor'[p] = Len(log[p])
    /\ UNCHANGED <<log, remembered, marks>>

Next ==
    \/ \E p \in Partitions, r \in Messages :
        Append1(p, r) \/ Work(p, r) \/ StepPast(p, r)
    \/ Remember
    \/ Restart

Spec == Init /\ [][Next]_vars
=============================================================================
