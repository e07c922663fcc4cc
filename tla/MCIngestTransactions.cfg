\* Safety of concurrent ingestion: two workers, two collection runs.
CONSTANTS
    w1 = w1
    w2 = w2
    c1 = c1
    c2 = c2
    e1 = e1
    e2 = e2
    f1 = f1
    f2 = f2
    NoEvent = NoEvent
    Workers = {w1, w2}
    Runs = {c1, c2}
    Events = {e1, e2}
    Fingerprints = {f1, f2}
    FpOf <- Fps
    StatRows <- Snapshots
    Mortal = TRUE
    MaxRetries = 2
    MaxDeliveries = 3
    MaxRuns = 2
    MaxFaults = 1
SPECIFICATION MCSpec
INVARIANTS
    TypeOK
    RacesBounded
    WorkersNeverDeadlock
PROPERTIES
    ImplementsStore
SYMMETRY Symmetric
CHECK_DEADLOCK FALSE
