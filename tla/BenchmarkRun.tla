---------------------------- MODULE BenchmarkRun ----------------------------
(***************************************************************************)
(* Runs of the telemetry benchmark (bench/telemetry_benchmark.py) against  *)
(* one database and one topic: take the advisory lock, delete what earlier *)
(* runs stored, produce events, poll until the consumer has stored them or *)
(* ten minutes are over, read the figures, give the lock back.             *)
(*                                                                         *)
(* An advisory lock belongs to a database session.  Every helper opens an  *)
(* engine of its own and disposes of it, which closes its session.         *)
(***************************************************************************)
EXTENDS Naturals, FiniteSets

CONSTANTS
    Runs,       \* processes of the benchmark
    Events,     \* --events, a positive number
    Free        \* nobody has the lock; not a run

VARIABLES
    lock,       \* the run whose open session has the advisory lock
    pc,
    stale,      \* run -> the rows its clean-up has selected
    produced,   \* run -> events it has sent
    topic,      \* events the consumer has not processed
    rows,       \* metrics of the benchmark's fingerprints
    counted     \* run -> the last count it fetched

vars == <<lock, pc, stale, produced, topic, rows, counted>>

Event == Runs \X (1..Events)
RowsOf(r) == {e \in rows : e[1] = r}

\* The try block of main.
Measuring(r) == pc[r] \in {"cleanup", "delete", "produce", "poll", "lag", "read", "release"}

Init ==
    /\ lock = Free
    /\ pc = [r \in Runs |-> "lock"]
    /\ stale = [r \in Runs |-> {}]
    /\ produced = [r \in Runs |-> 0]
    /\ topic = {}
    /\ rows = {}
    /\ counted = [r \in Runs |-> 0]

GoTo(r, place) == pc' = [pc EXCEPT ![r] = place]

\* pg_try_advisory_lock, in the session of an engine of its own.
TryLock(r) ==
    /\ pc[r] = "lock"
    /\ lock' = IF lock = Free THEN r ELSE lock
    /\ GoTo(r, IF lock = Free THEN "dispose" ELSE "refused")
    /\ UNCHANGED <<stale, produced, topic, rows, counted>>

\* engine.dispose() ends the session, and with it the lock.
DisposeEngine(r) ==
    /\ pc[r] = "dispose"
    /\ lock' = Free
    /\ GoTo(r, "cleanup")
    /\ UNCHANGED <<stale, produced, topic, rows, counted>>

SelectStale(r) ==
    /\ pc[r] = "cleanup"
    /\ stale' = [stale EXCEPT ![r] = rows]
    /\ GoTo(r, "delete")
    /\ UNCHANGED <<lock, produced, topic, rows, counted>>

DeleteStale(r) ==
    /\ pc[r] = "delete"
    /\ rows' = rows \ stale[r]
    /\ GoTo(r, "produce")
    /\ UNCHANGED <<lock, stale, produced, topic, counted>>

Produce(r) ==
    /\ pc[r] = "produce"
    /\ produced' = [produced EXCEPT ![r] = @ + 1]
    /\ topic' = topic \cup {<<r, produced[r] + 1>>}
    /\ GoTo(r, IF produced[r] + 1 = Events THEN "poll" ELSE "produce")
    /\ UNCHANGED <<lock, stale, rows, counted>>

PollCount(r) ==
    /\ pc[r] = "poll"
    /\ counted' = [counted EXCEPT ![r] = Cardinality(RowsOf(r))]
    /\ GoTo(r, "lag")
    /\ UNCHANGED <<lock, stale, produced, topic, rows>>

\* Everything is stored and the lag is gone, or the ten minutes are over, or
\* the run sleeps and polls again.
PollLag(r) ==
    /\ pc[r] = "lag"
    /\ \/ GoTo(r, "read")
       \/ ~(counted[r] >= Events /\ topic = {}) /\ GoTo(r, "poll")
    /\ UNCHANGED <<lock, stale, produced, topic, rows, counted>>

ReadFigures(r) ==
    /\ pc[r] = "read"
    /\ counted' = [counted EXCEPT ![r] = Cardinality(RowsOf(r))]
    /\ GoTo(r, "release")
    /\ UNCHANGED <<lock, stale, produced, topic, rows>>

\* An exception anywhere in the try block.
Fail(r) ==
    /\ Measuring(r) /\ pc[r] # "release"
    /\ GoTo(r, "release")
    /\ UNCHANGED <<lock, stale, produced, topic, rows, counted>>

\* pg_advisory_unlock in yet another session, which has no lock to give back.
Release(r) ==
    /\ pc[r] = "release"
    /\ GoTo(r, "done")
    /\ UNCHANGED <<lock, stale, produced, topic, rows, counted>>

\* The consumer stores an event, or dead-letters it.
Consume(e) ==
    /\ e \in topic
    /\ topic' = topic \ {e}
    /\ rows' \in {rows, rows \cup {e}}
    /\ UNCHANGED <<lock, pc, stale, produced, counted>>

Next ==
    \/ \E r \in Runs :
        \/ TryLock(r) \/ DisposeEngine(r) \/ SelectStale(r) \/ DeleteStale(r)
        \/ Produce(r) \/ PollCount(r) \/ PollLag(r) \/ ReadFigures(r)
        \/ Fail(r) \/ Release(r)
    \/ \E e \in topic : Consume(e)

Spec == Init /\ [][Next]_vars

\* Nobody but the run itself deletes what a run in progress has stored: a second
\* run is refused with "another benchmark run is in progress"
\* (telemetry_benchmark.py:93).
MeasuresAlone ==
    [][\A r \in Runs : Measuring(r) => \A e \in RowsOf(r) : e \in rows']_vars
=============================================================================
