\* Reports: two requests at once, two providers and the template.
CONSTANTS
    r1 = r1
    r2 = r2
    openai = openai
    ollama = ollama
    Template = Template
    Requests = {r1, r2}
    Providers <- TwoProviders
    MaxBegun = 5
    MaxFailures = 2
SPECIFICATION MCFairSpec
INVARIANTS
    TypeOK
    DuplicatesBounded
PROPERTIES
    ReportsKept
    RequestsFinish
CHECK_DEADLOCK FALSE
