CONSTANTS
    Unknown = Unknown
    NoMetric = NoMetric
    NoPlan = NoPlan
    LatencyRatioMedium = 2
    LatencyRatioHigh = 5
    RowEstimateRatio = 10
    TempBlksDelta = 1000
    CallRatio = 2
    CostRatio = 2
    HnswSeverity = "critical"
    Streams = {s1}
    Runs = {c1}
    Captures <- MCCaptures
    QueryTexts <- MCTexts
    MaxLate = 1
    MaxTransactions = 3
    MaxSiblings = 1
    DiagnosesShown = 4
    Requests = {r1}
SPECIFICATION Spec
INVARIANTS
    TypeOK
    RulesAgree
    RegressionsCoverShown
    DiagnosesCoverShown
    QuietWhenStoredQuiet
    AdviceAgrees
    ComparedWithNewest
CHECK_DEADLOCK FALSE
