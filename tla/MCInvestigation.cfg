CONSTANTS
    Names <- MCNames
    NoPlan = NoPlan
    NoFocus = NoFocus
    Unknown = Unknown
    Requests = {r1}
    Query <- PlainText
    Captures <- MCCaptures
    MaxCaptures = 2
    Supplied <- MCSupplied
    Answers <- MCAnswers
    SettingsInPlay <- MCSettings
SPECIFICATION FairSpec
INVARIANTS
    TypeOK
    CitationsGrounded
    AnswersWouldPass
    SourceTruthful
    EnoughEvidenceIsUsed
    HeuristicsGetFullMarks
PROPERTIES
    RequestsAnswered
    AnswersAreGrounded
CHECK_DEADLOCK FALSE
