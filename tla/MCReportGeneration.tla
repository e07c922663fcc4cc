------------------------- MODULE MCReportGeneration -------------------------
(***************************************************************************)
(* Small instances of ReportGeneration for TLC: a bound on the requests    *)
(* that begin and on the failures.                                         *)
(***************************************************************************)
EXTENDS ReportGeneration

CONSTANTS
    r1, r2,         \* requests
    openai, ollama, \* providers
    MaxBegun,       \* transactions begun
    MaxFailures     \* failed requests

VARIABLE failures

mcVars == <<vars, failures>>

TwoProviders == <<openai, ollama>>
NoProviders == <<>>

MCInit == Init /\ failures = 0

MCStep == \E r \in Requests : RequestStep(r)

MCNext ==
    \/ /\ clock < MaxBegun
       /\ \E r \in Requests : Begin(r)
       /\ UNCHANGED failures
    \/ MCStep /\ UNCHANGED failures
    \/ /\ failures < MaxFailures
       /\ \E r \in Requests : Fail(r)
       /\ failures' = failures + 1

MCSpec == MCInit /\ [][MCNext]_mcVars

MCFairSpec ==
    MCSpec /\ \A r \in Requests : WF_mcVars(RequestStep(r) /\ UNCHANGED failures)
=============================================================================
