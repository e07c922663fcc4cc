------------------------- MODULE TelemetryConsumer -------------------------
(***************************************************************************)
(* The Kafka consumer of the PlanTrace backend                             *)
(* (backend/app/streaming/consumer.py): one asyncio task polls batches,    *)
(* hands every record to the database with bounded retries, and routes a   *)
(* record whose retries are exhausted to the dead-letter topic and to the  *)
(* dlq_events table.  aiokafka commits the POLLED positions in the         *)
(* background (enable_auto_commit), and a group without a committed offset *)
(* starts at the end of the log (auto_offset_reset="latest").              *)
(*                                                                         *)
(* The task shares one event loop with the commit routine and with stop(), *)
(* so those two only run while the task awaits something: getmany, the lag *)
(* lookup, the backoff sleep and send_and_wait.  The database work in      *)
(* between is synchronous and holds the loop.  A crash respects nothing.   *)
(***************************************************************************)
EXTENDS Integers, Sequences, FiniteSets

CONSTANTS
    Partitions,     \* partitions of the two subscribed topics
    QueryEvents,    \* messages of the query telemetry topic that parse
    Heartbeats,     \* messages of the heartbeat topic that parse (one collector)
    Malformed,      \* messages that ParseFromString or the ingest always rejects
    PartitionOf,    \* [Records -> Partitions]: the producer's key picks it
    EventId,        \* [QueryEvents -> ids]: event_id_for, may be shared
    MaxRetries,     \* settings.KAFKA_CONSUMER_MAX_RETRIES
    MaxPollRecords, \* settings.KAFKA_CONSUMER_MAX_RECORDS
    NoHeartbeat     \* collector_status holds no row yet

Records == QueryEvents \cup Heartbeats \cup Malformed

ASSUME PartitionsAssumption == IsFiniteSet(Partitions) /\ Partitions # {}
ASSUME RecordsAssumption ==
    /\ QueryEvents \cap Heartbeats = {}
    /\ Malformed \cap (QueryEvents \cup Heartbeats) = {}
    /\ NoHeartbeat \notin Heartbeats
    /\ PartitionOf \in [Records -> Partitions]
    \* docker-compose creates the heartbeat topic with one partition
    /\ \A h, g \in Heartbeats : PartitionOf[h] = PartitionOf[g]
ASSUME SettingsAssumption == MaxRetries \in Nat /\ MaxPollRecords \in Nat \ {0}

\* The group has never committed an offset of the partition.
NoOffset == -1

VARIABLES
    log,        \* partition -> records appended so far, offset o is log[p][o]
    committed,  \* partition -> the group's committed offset, or NoOffset
    base,       \* partition -> position this life of the consumer started from
    position,   \* partition -> offset up to which getmany has returned records
    next,       \* partition -> offset up to which the task has stepped
    pc,         \* where the consumer task stands
    cur,        \* the partition whose records of the batch are being processed
    attempt,    \* attempt number of the record being processed
    metrics,    \* query_metrics: the query events a row was inserted for
    status,     \* collector_status: the heartbeat the row shows
    dlqTopic,   \* record -> messages about it on the dead-letter topic
    dlqTable    \* record -> rows about it in dlq_events

kafkaVars == <<log, committed>>
loopVars  == <<base, position, next, pc, cur, attempt>>
dbVars    == <<metrics, status, dlqTable>>
vars == <<log, committed, base, position, next, pc, cur, attempt,
          metrics, status, dlqTopic, dlqTable>>

(* "off": no task; "poll": in getmany; "lag": in end_offsets/position of   *)
(* the partition cur; "attempt": about to run one ingestion attempt;       *)
(* "backoff": in asyncio.sleep; "publish": in send_and_wait to the DLQ;    *)
(* "record": DLQ message acknowledged, local row not written; "dead": the  *)
(* task ended with an exception; "leaked": start-up ended with one after   *)
(* the Kafka consumer was opened, which nothing closes then.               *)
Awaiting == {"poll", "lag", "backoff", "publish"}
InBatch  == {"lag", "attempt", "backoff", "publish", "record"}
Gone     == {"off", "dead", "leaked"}
Places   == {"poll"} \cup InBatch \cup Gone

TypeOK ==
    /\ log \in [Partitions -> Seq(Records)]
    /\ committed \in [Partitions -> Nat \cup {NoOffset}]
    /\ base \in [Partitions -> Nat]
    /\ position \in [Partitions -> Nat]
    /\ next \in [Partitions -> Nat]
    /\ pc \in Places
    /\ cur \in Partitions
    /\ attempt \in 0..MaxRetries
    /\ metrics \subseteq QueryEvents
    /\ status \in Heartbeats \cup {NoHeartbeat}
    /\ dlqTopic \in [Records -> Nat]
    /\ dlqTable \in [Records -> Nat]

Init ==
    /\ log = [p \in Partitions |-> <<>>]
    /\ committed = [p \in Partitions |-> NoOffset]
    /\ base = [p \in Partitions |-> 0]
    /\ position = [p \in Partitions |-> 0]
    /\ next = [p \in Partitions |-> 0]
    /\ pc = "off"
    /\ cur \in Partitions
    /\ attempt = 0
    /\ metrics = {}
    /\ status = NoHeartbeat
    /\ dlqTopic = [r \in Records |-> 0]
    /\ dlqTable = [r \in Records |-> 0]

-----------------------------------------------------------------------------
(* Records and places in the log.                                          *)

\* Places after lo[p] and up to hi[p], over all partitions.
Span(lo, hi) == UNION {{p} \X ((lo[p] + 1)..hi[p]) : p \in Partitions}

\* The record being processed.
Current == log[cur][next[cur] + 1]

\* A query_metrics row carries the event id of r: the unique index holds it.
IdStored(r) == \E m \in metrics : EventId[m] = EventId[r]

\* Mutant of IsDuplicate: the check is dropped, the index alone is left.
IsDuplicate_NoCheck(r) == FALSE

\* The duplicate check at the top of ingest_query_event.
IsDuplicate(r) == IdStored(r)

\* One attempt parses, ingests and commits unless the record cannot be
\* parsed or the insert meets the unique index on event_id.
Ingestible(r) ==
    /\ r \notin Malformed
    /\ r \in QueryEvents /\ ~IsDuplicate(r) => ~IdStored(r)

\* What a transaction that commits leaves in the database.
Persist(r) ==
    /\ metrics' = IF r \in QueryEvents /\ ~IsDuplicate(r)
                  THEN metrics \cup {r} ELSE metrics
    /\ status' = IF r \in Heartbeats THEN r ELSE status

-----------------------------------------------------------------------------
(* The log, the commit routine and the start of the task.                  *)

\* A message of a topic is appended to the partition its key picks.
Produce(r) ==
    LET p == PartitionOf[r]
    IN  /\ \A o \in 1..Len(log[p]) : log[p][o] # r
        /\ log' = [log EXCEPT ![p] = Append(@, r)]
        /\ UNCHANGED <<committed, loopVars, dbVars, dlqTopic>>

\* Mutant of StartOffset: every start is at the end of the log.
StartOffset_Latest(p) == Len(log[p])

\* Where a consumer of the group starts: the committed offset, else "latest".
StartOffset(p) == IF committed[p] = NoOffset THEN Len(log[p]) ELSE committed[p]

ResolvePositions ==
    /\ position' = [p \in Partitions |-> StartOffset(p)]
    /\ next' = position'
    /\ base' = position'
    /\ attempt' = 0

\* start(): the task opens the consumer and the producer.
Start ==
    /\ pc = "off"
    /\ pc' = "poll"
    /\ ResolvePositions
    /\ UNCHANGED <<kafkaVars, cur, dbVars, dlqTopic>>

\* consumer.start() raises: the task ends before anything is opened.
ConsumerStartFails ==
    /\ pc = "off"
    /\ pc' = "dead"
    /\ UNCHANGED <<kafkaVars, base, position, next, cur, attempt, dbVars, dlqTopic>>

\* producer.start() raises outside the try block: the opened Kafka consumer
\* is never stopped and goes on committing the positions it resolved.
ProducerStartFails ==
    /\ pc = "off"
    /\ pc' = "leaked"
    /\ ResolvePositions
    /\ UNCHANGED <<kafkaVars, cur, dbVars, dlqTopic>>

\* Mutant of AutoCommit: the end offsets of the lag lookup are committed.
AutoCommit_EndOffsets ==
    /\ pc \in Awaiting \cup {"leaked"}
    /\ committed' = [p \in Partitions |-> Len(log[p])]
    /\ UNCHANGED <<log, loopVars, dbVars, dlqTopic>>

\* The background commit of every polled position.
AutoCommit ==
    /\ pc \in Awaiting \cup {"leaked"}
    /\ committed' = position
    /\ UNCHANGED <<log, loopVars, dbVars, dlqTopic>>

\* consumer.stop() commits the positions once more; the attempt may fail.
LastCommit == committed' \in {committed, position}

-----------------------------------------------------------------------------
(* The consumer task.                                                      *)

\* getmany returns a batch; its records are processed partition by partition.
Poll ==
    /\ pc = "poll"
    /\ \E end \in [Partitions -> UNION {0..Len(log[p]) : p \in Partitions}] :
         /\ \A p \in Partitions : position[p] <= end[p] /\ end[p] <= Len(log[p])
         /\ Span(position, end) # {}
         /\ Cardinality(Span(position, end)) <= MaxPollRecords
         /\ position' = end
         /\ cur' \in {p \in Partitions : position[p] < end[p]}
    /\ pc' = "lag"
    /\ UNCHANGED <<kafkaVars, base, next, attempt, dbVars, dlqTopic>>

\* The lag lookup returns or raises an Exception that is swallowed.
LagChecked ==
    /\ pc = "lag"
    /\ pc' = "attempt"
    /\ attempt' = 0
    /\ UNCHANGED <<kafkaVars, base, position, next, cur, dbVars, dlqTopic>>

\* Mutant of Advance: the batch ends with its first partition.
Advance_OnePartition ==
    /\ next' = [next EXCEPT ![cur] = @ + 1]
    /\ attempt' = 0
    /\ cur' = cur
    /\ pc' = IF next'[cur] < position[cur] THEN "attempt" ELSE "poll"
    /\ UNCHANGED <<base, position>>

\* The loop steps past the current record: to the next record of the
\* partition, to another partition of the batch, or back to getmany.
Advance ==
    /\ next' = [next EXCEPT ![cur] = @ + 1]
    /\ attempt' = 0
    /\ LET left == {p \in Partitions : next'[p] < position[p]}
       IN  \/ cur \in left /\ pc' = "attempt" /\ cur' = cur
           \/ cur \notin left /\ left # {} /\ pc' = "lag" /\ cur' \in left
           \/ left = {} /\ pc' = "poll" /\ cur' = cur
    /\ UNCHANGED <<base, position>>

\* The attempt commits: a row, a duplicate that is skipped, or a status.
Ingest ==
    /\ pc = "attempt"
    /\ Ingestible(Current)
    /\ Persist(Current)
    /\ Advance
    /\ UNCHANGED <<kafkaVars, dlqTable, dlqTopic>>

\* Mutant of Except: one retry too many.
Except_OffByOne ==
    /\ pc' = IF attempt <= MaxRetries THEN "backoff" ELSE "publish"
    /\ UNCHANGED <<base, position, next, cur, attempt>>

\* The except branch: sleep and try again, or publish to the DLQ.
Except ==
    /\ pc' = IF attempt < MaxRetries THEN "backoff" ELSE "publish"
    /\ UNCHANGED <<base, position, next, cur, attempt>>

\* An attempt raises and is rolled back.
AttemptFails ==
    /\ pc = "attempt"
    /\ Except
    /\ UNCHANGED <<kafkaVars, dbVars, dlqTopic>>

\* The database applied the commit and the acknowledgement was lost, so
\* session.commit() raises although the transaction is durable.
CommitUnacknowledged ==
    /\ pc = "attempt"
    /\ Ingestible(Current)
    /\ Persist(Current)
    /\ Except
    /\ UNCHANGED <<kafkaVars, dlqTable, dlqTopic>>

\* Mutant of BackoffElapsed: the attempt is repeated and not counted.
BackoffElapsed_SameAttempt ==
    /\ pc = "backoff"
    /\ pc' = "attempt"
    /\ UNCHANGED <<kafkaVars, base, position, next, cur, attempt, dbVars, dlqTopic>>

BackoffElapsed ==
    /\ pc = "backoff"
    /\ pc' = "attempt"
    /\ attempt' = attempt + 1
    /\ UNCHANGED <<kafkaVars, base, position, next, cur, dbVars, dlqTopic>>

AddOne(f, r) == [f EXCEPT ![r] = @ + 1]

\* Mutant of PublishDlq: send without waiting for the broker's answer.
PublishDlq_NoWait ==
    /\ pc = "publish"
    /\ dlqTopic' \in {dlqTopic, AddOne(dlqTopic, Current)}
    /\ pc' = "record"
    /\ UNCHANGED <<kafkaVars, base, position, next, cur, attempt, dbVars>>

\* send_and_wait returns: the broker holds the dead-letter message.
PublishDlq ==
    /\ pc = "publish"
    /\ dlqTopic' = AddOne(dlqTopic, Current)
    /\ pc' = "record"
    /\ UNCHANGED <<kafkaVars, base, position, next, cur, attempt, dbVars>>

\* Mutant of PublishFails: the error is logged and the loop goes on.
PublishFails_Swallowed ==
    /\ pc = "publish"
    /\ dlqTopic' \in {dlqTopic, AddOne(dlqTopic, Current)}
    /\ Advance
    /\ UNCHANGED <<kafkaVars, dbVars>>

\* send_and_wait raises inside the except branch: nothing catches it, the
\* task closes its clients and ends.  The broker may hold the message.
PublishFails ==
    /\ pc = "publish"
    /\ dlqTopic' \in {dlqTopic, AddOne(dlqTopic, Current)}
    /\ pc' = "dead"
    /\ LastCommit
    /\ UNCHANGED <<log, base, position, next, cur, attempt, dbVars>>

\* The local dlq_events row commits and the record is done.
RecordDlq ==
    /\ pc = "record"
    /\ dlqTable' = AddOne(dlqTable, Current)
    /\ Advance
    /\ UNCHANGED <<kafkaVars, metrics, status, dlqTopic>>

\* Writing the dlq_events row raises: the task ends as in PublishFails.
RecordFails ==
    /\ pc = "record"
    /\ dlqTable' \in {dlqTable, AddOne(dlqTable, Current)}
    /\ pc' = "dead"
    /\ LastCommit
    /\ UNCHANGED <<log, base, position, next, cur, attempt, metrics, status, dlqTopic>>

-----------------------------------------------------------------------------
(* The end of the process.                                                 *)

\* stop() cancels the task at its await and the finally block closes the
\* clients; a cancelled send_and_wait may have reached the broker.
Stop ==
    /\ pc \in Awaiting
    /\ dlqTopic' \in {dlqTopic} \cup
                     IF pc = "publish" THEN {AddOne(dlqTopic, Current)} ELSE {}
    /\ pc' = "off"
    /\ LastCommit
    /\ UNCHANGED <<log, base, position, next, cur, attempt, dbVars>>

\* The process exits with no task to close, or is killed at any point.
Crash ==
    /\ pc # "off"
    /\ pc' = "off"
    /\ UNCHANGED <<kafkaVars, base, position, next, cur, attempt, dbVars, dlqTopic>>

-----------------------------------------------------------------------------
StartUp == Start \/ ConsumerStartFails \/ ProducerStartFails

\* The steps the event loop takes for the task.
Attempt == Ingest \/ AttemptFails \/ CommitUnacknowledged
Publish == PublishDlq \/ PublishFails
Record  == RecordDlq \/ RecordFails

Next ==
    \/ \E r \in Records : Produce(r)
    \/ StartUp \/ AutoCommit
    \/ Poll \/ LagChecked \/ Attempt \/ BackoffElapsed \/ Publish \/ Record
    \/ Stop \/ Crash

Spec == Init /\ [][Next]_vars

(* Fairness: the event loop always gives the task its next step once its   *)
(* await is over; database calls return or raise, and so do the lag lookup *)
(* and send_and_wait, which have client timeouts.  Nothing is assumed of   *)
(* producers, of restarts, or of when faults, commits and crashes happen.  *)
TaskStep == Poll \/ LagChecked \/ Attempt \/ BackoffElapsed \/ Publish \/ Record

FairSpec == Spec /\ WF_vars(TaskStep)

-----------------------------------------------------------------------------
(* Properties.                                                             *)

\* The record at offset o of p has left its mark: it was dead-lettered, its
\* event id is stored, or collector_status shows it or a later heartbeat.
Settled(p, o) ==
    LET r == log[p][o]
    IN  \/ dlqTopic[r] > 0
        \/ r \in QueryEvents /\ IdStored(r)
        \/ r \in Heartbeats /\ \E l \in o..Len(log[p]) : status = log[p][l]

\* Since it started, the task has stepped past no record that is neither
\* persisted nor dead-lettered, whatever failed on the way: a final failure
\* is routed to the DLQ (test_final_failure_routes_to_dlq) or ends the task.
SettledBehindLoop ==
    \A p \in Partitions : \A o \in (base[p] + 1)..next[p] :
        o <= Len(log[p]) /\ Settled(p, o)

\* Records that the group's committed offset has passed and the task has not:
\* a restart does not poll them again.
AtRisk == Span(next, committed)

\* The background commit exposes at most the batch that is in process: a
\* crash or a stop never loses more records than one getmany returned.
AtMostOneBatchAtRisk == Cardinality(AtRisk) <= MaxPollRecords

\* dlq_events holds no row about a message that the dead-letter topic does
\* not hold as often, across crashes, redeliveries and repeated failures.
DlqRowHasMessage == \A r \in Records : dlqTable[r] <= dlqTopic[r]

\* A batch never wedges the loop: it is finished, or the task is gone.
BatchCompletes == pc = "lag" ~> pc \in {"poll"} \cup Gone

\* While the task lives, a record after its starting position is settled in
\* the end: no partition of a batch is left behind.
EventuallySettled ==
    \A r \in Records :
        LET p == PartitionOf[r]
            Waiting == \E o \in (base[p] + 1)..Len(log[p]) : log[p][o] = r
            Done    == \E o \in 1..Len(log[p]) : log[p][o] = r /\ Settled(p, o)
        IN  (pc \notin Gone /\ Waiting) ~> (Done \/ pc \in Gone)

-----------------------------------------------------------------------------
(* The abstract promise.                                                   *)

OffsetKnown == \E p \in Partitions : committed[p] # NoOffset

Delivery == INSTANCE BoundedLossDelivery
    WITH cursor <- next, remembered <- OffsetKnown,
         stored <- metrics, shown <- status, letters <- dlqTopic,
         Events <- QueryEvents, Beats <- Heartbeats, NoBeat <- NoHeartbeat,
         Messages <- Records, MaxLost <- MaxPollRecords

\* The consumer implements BoundedLossDelivery: whatever fails in between, it
\* passes no message without an account of it, stores an event id once, and a
\* restart of a group that has committed leaves out one batch at most.
ImplementsDelivery == Delivery!Spec

-----------------------------------------------------------------------------
(* The inductive invariant of the proofs (TelemetryConsumerProofs).        *)

Unprocessed == Span(next, position)

\* The offsets of a partition are ordered; a record is in its own partition.
OffsetsOrdered ==
    \A p \in Partitions :
        /\ base[p] <= next[p] /\ next[p] <= position[p]
        /\ position[p] <= Len(log[p])
        /\ committed[p] <= position[p]
        /\ \A o \in 1..Len(log[p]) : PartitionOf[log[p][o]] = p

\* What holds where the task stands: between batches nothing is left over,
\* within one there is a current record, a sleeping attempt is not the last,
\* and a DLQ row is written only after a DLQ message that has none yet.
TaskPlace ==
    /\ pc = "poll" => \A p \in Partitions : next[p] = position[p]
    /\ pc \in InBatch => next[cur] < position[cur]
    /\ pc = "backoff" => attempt < MaxRetries
    /\ pc = "record" => dlqTable[Current] < dlqTopic[Current]

\* No more records are unprocessed than one getmany may return.
OneBatchUnprocessed == Cardinality(Unprocessed) <= MaxPollRecords

IInv ==
    /\ TypeOK
    /\ OffsetsOrdered
    /\ TaskPlace
    /\ OneBatchUnprocessed
    /\ DlqRowHasMessage
    /\ SettledBehindLoop

=============================================================================
