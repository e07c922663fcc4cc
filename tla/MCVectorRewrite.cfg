CONSTANTS
    Names <- MCNames
    NoPlan = NoPlan
    NoFocus = NoFocus
    Unknown = Unknown
    Requests = {r1}
    Query <- PlainText
    Captures <- MCCaptures
    MaxCaptures = 2
    Supplied <- MCSupplied
    Answers <- MCAnswers
    SettingsInPlay <- MCSettings
SPECIFICATION Spec
INVARIANT VectorRewriteFits
CHECK_DEADLOCK FALSE
