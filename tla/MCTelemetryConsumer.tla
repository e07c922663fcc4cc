------------------------ MODULE MCTelemetryConsumer ------------------------
(***************************************************************************)
(* Small instances of TelemetryConsumer for TLC.  The steps are those of   *)
(* the module; a budget bounds how often each kind of trouble happens.     *)
(***************************************************************************)
EXTENDS TelemetryConsumer, TLC

CONSTANTS
    q1, q2, bad, h1,    \* records
    pq, ph,             \* query telemetry and heartbeat partitions
    MaxAttemptFaults,   \* attempts that fail although the record is ingestible
    MaxOutages,         \* failures of Kafka, of the DLQ row, of start-up
    MaxRestarts         \* ends of the process: stops and crashes

VARIABLES attemptFaults, outages, restarts

mcVars == <<vars, attemptFaults, outages, restarts>>

Keys == [r \in Records |-> IF r \in Heartbeats THEN ph ELSE pq]
TwoQueries == {q1, q2}
OneBeat == {h1}
\* two statements of one fingerprint in one second: one id
IdsOfTwo == [q \in TwoQueries |-> 1]

\* Two queries of one id are interchangeable.
Symmetric == Permutations(TwoQueries)

MCInit ==
    /\ Init
    /\ cur = pq
    /\ attemptFaults = 0
    /\ outages = 0
    /\ restarts = 0

\* A fault on an ingestible record is charged; a malformed one always fails.
ChargedAttempt ==
    \/ /\ Ingest \/ (AttemptFails /\ ~Ingestible(Current))
       /\ UNCHANGED attemptFaults
    \/ /\ attemptFaults < MaxAttemptFaults
       /\ (AttemptFails /\ Ingestible(Current)) \/ CommitUnacknowledged
       /\ attemptFaults' = attemptFaults + 1

Outage ==
    /\ outages < MaxOutages
    /\ ConsumerStartFails \/ ProducerStartFails \/ PublishFails \/ RecordFails
    /\ outages' = outages + 1
    /\ UNCHANGED <<attemptFaults, restarts>>

Restart ==
    /\ restarts < MaxRestarts
    /\ Stop \/ Crash
    /\ restarts' = restarts + 1
    /\ UNCHANGED <<attemptFaults, outages>>

MCTask ==
    \/ /\ Poll \/ LagChecked \/ BackoffElapsed \/ PublishDlq \/ RecordDlq
       /\ UNCHANGED attemptFaults
    \/ ChargedAttempt

MCNext ==
    \/ /\ (\E r \in Records : Produce(r)) \/ Start \/ AutoCommit
       /\ UNCHANGED <<attemptFaults, outages, restarts>>
    \/ MCTask /\ UNCHANGED <<outages, restarts>>
    \/ Outage
    \/ Restart

MCSpec == MCInit /\ [][MCNext]_mcVars

MCFairSpec == MCSpec /\ WF_mcVars(MCTask /\ UNCHANGED <<outages, restarts>>)

\* A record that can be ingested is dead-lettered only when all its attempts
\* really failed: redelivery after a crash, or a second message with the same
\* event id, is skipped as a duplicate and never reaches the DLQ.
NoSpuriousDeadLetter ==
    \A r \in Records \ Malformed :
        dlqTopic[r] > 0 => attemptFaults >= MaxRetries + 1
=============================================================================
