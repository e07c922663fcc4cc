\* Liveness of concurrent ingestion: nobody waits forever.
CONSTANTS
    w1 = w1
    w2 = w2
    c1 = c1
    c2 = c2
    e1 = e1
    e2 = e2
    f1 = f1
    f2 = f2
    NoEvent = NoEvent
    Workers = {w1, w2}
    Runs = {c1, c2}
    Events = {e1, e2}
    Fingerprints = {f1, f2}
    FpOf <- Fps
    StatRows <- OppositeOrders
    Mortal = TRUE
    MaxRetries = 1
    MaxDeliveries = 2
    MaxRuns = 2
    MaxFaults = 0
SPECIFICATION MCFairSpec
PROPERTIES
    WritersFinish
CHECK_DEADLOCK FALSE
