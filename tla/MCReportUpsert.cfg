\* Two overlapping requests against the upsert of api/reports.py.
CONSTANTS
    r1 = r1
    r2 = r2
    openai = openai
    ollama = ollama
    Template = Template
    Requests = {r1, r2}
    Providers <- NoProviders
    MaxBegun = 3
    MaxFailures = 0
SPECIFICATION MCSpec
INVARIANTS
    AtMostOneReport
CHECK_DEADLOCK FALSE
