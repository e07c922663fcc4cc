\* Safety and liveness of the consumer: two query events of one event id,
\* one malformed message and a heartbeat on two partitions.
CONSTANTS
    q1 = q1
    q2 = q2
    bad = bad
    h1 = h1
    pq = pq
    ph = ph
    NoHeartbeat = NoHeartbeat
    Partitions = {pq, ph}
    QueryEvents <- TwoQueries
    Heartbeats <- OneBeat
    Malformed = {bad}
    PartitionOf <- Keys
    EventId <- IdsOfTwo
    MaxRetries = 1
    MaxPollRecords = 2
    MaxAttemptFaults = 2
    MaxOutages = 1
    MaxRestarts = 1
SPECIFICATION MCFairSpec
INVARIANTS
    TypeOK
    SettledBehindLoop
    AtMostOneBatchAtRisk
    DlqRowHasMessage
    NoSpuriousDeadLetter
PROPERTIES
    ImplementsDelivery
    BatchCompletes
    EventuallySettled
CHECK_DEADLOCK FALSE
