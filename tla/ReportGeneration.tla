-------------------------- MODULE ReportGeneration --------------------------
(***************************************************************************)
(* POST /api/reports/{fid}/generate and GET /api/reports/{fid} for one     *)
(* fingerprint (api/reports.py, core/report_generator.py).  A request      *)
(* reads the evidence, asks the configured providers one after the other   *)
(* for the text (a template if none answers), deletes the reports of the   *)
(* fingerprint and inserts its own, all in one transaction that stays open *)
(* while the providers are asked.                                          *)
(*                                                                         *)
(* PostgreSQL at READ COMMITTED: DELETE picks the rows committed when it   *)
(* starts; a row another open transaction has deleted is waited for, and   *)
(* skipped if that transaction commits.  created_at is now(), the time at  *)
(* which the transaction began.  query_reports has no unique key besides   *)
(* its id.                                                                 *)
(***************************************************************************)
EXTENDS Integers, Sequences, FiniteSets

CONSTANTS
    Requests,   \* requests that may be in progress at once
    Providers,  \* _provider_candidates(), in order
    Template    \* the deterministic text of _template, and the absent model

ASSUME RequestsAssumption == IsFiniteSet(Requests)
Authors == {Providers[i] : i \in 1..Len(Providers)} \cup {Template}

ASSUME ProvidersAssumption ==
    /\ Providers \in Seq(Authors)
    /\ \A i \in 1..Len(Providers) : Providers[i] # Template

VARIABLES
    reports,    \* committed query_reports rows
    clock,      \* transactions begun so far
    pc,         \* request -> where it stands
    began,      \* request -> when its transaction began
    asked,      \* request -> providers asked so far
    text,       \* request -> who wrote the generated text
    target,     \* request -> rows its DELETE has picked
    deleted     \* request -> rows its open transaction has deleted

vars == <<reports, clock, pc, began, asked, text, target, deleted>>

Rows == [by : Requests, at : Nat, text : Authors, model : Authors]

Places == {"idle", "evidence", "ask", "replace", "delete", "insert"}

TypeOK ==
    /\ reports \subseteq Rows
    /\ clock \in Nat
    /\ pc \in [Requests -> Places]
    /\ \A r \in Requests : pc[r] = "ask" => asked[r] < Len(Providers)
    /\ began \in [Requests -> Nat]
    /\ asked \in [Requests -> Nat]
    /\ text \in [Requests -> Authors]
    /\ target \in [Requests -> SUBSET Rows]
    /\ deleted \in [Requests -> SUBSET Rows]

Init ==
    /\ reports = {}
    /\ clock = 0
    /\ pc = [r \in Requests |-> "idle"]
    /\ began = [r \in Requests |-> 0]
    /\ asked = [r \in Requests |-> 0]
    /\ text = [r \in Requests |-> Template]
    /\ target = [r \in Requests |-> {}]
    /\ deleted = [r \in Requests |-> {}]

Goto(r, place) == pc' = [pc EXCEPT ![r] = place]

-----------------------------------------------------------------------------
\* _get_fp_or_404 is the first statement: the transaction begins.
Begin(r) ==
    /\ pc[r] = "idle"
    /\ clock' = clock + 1
    /\ began' = [began EXCEPT ![r] = clock + 1]
    /\ Goto(r, "evidence")
    /\ UNCHANGED <<reports, asked, text, target, deleted>>

\* Latest metric, plan and regressions are read, build_findings runs.
ReadEvidence(r) ==
    /\ pc[r] = "evidence"
    /\ Goto(r, IF Providers = <<>> THEN "replace" ELSE "ask")
    /\ asked' = [asked EXCEPT ![r] = 0]
    /\ text' = [text EXCEPT ![r] = Template]
    /\ UNCHANGED <<reports, clock, began, target, deleted>>

\* The next provider answers in time.
ProviderAnswers(r) ==
    /\ pc[r] = "ask"
    /\ text' = [text EXCEPT ![r] = Providers[asked[r] + 1]]
    /\ Goto(r, "replace")
    /\ UNCHANGED <<reports, clock, began, asked, target, deleted>>

\* Mutant of ProviderFails: after the last provider the first is asked again.
ProviderFails_WrapsAround(r) ==
    /\ pc[r] = "ask"
    /\ asked' = [asked EXCEPT ![r] = (@ + 1) % Len(Providers)]
    /\ UNCHANGED <<reports, clock, pc, began, text, target, deleted>>

\* Mutant of ProviderFails: one provider too many is asked.
ProviderFails_OneTooMany(r) ==
    /\ pc[r] = "ask"
    /\ asked' = [asked EXCEPT ![r] = @ + 1]
    /\ Goto(r, IF asked'[r] > Len(Providers) THEN "replace" ELSE "ask")
    /\ UNCHANGED <<reports, clock, began, text, target, deleted>>

\* It raises, or answers after 15 s; leaving the executor block joins the
\* worker, so the next provider is asked only when this call has ended.
ProviderFails(r) ==
    /\ pc[r] = "ask"
    /\ asked' = [asked EXCEPT ![r] = @ + 1]
    /\ Goto(r, IF asked'[r] = Len(Providers) THEN "replace" ELSE "ask")
    /\ UNCHANGED <<reports, clock, began, text, target, deleted>>

\* The model name render_report returns: that of the preferred provider,
\* OpenAI before Gemini before Ollama, whoever wrote the text.
ModelName == IF Providers = <<>> THEN Template ELSE Providers[1]

\* Mutant of StartDelete: only the newest report is replaced.
StartDelete_NewestOnly(r) ==
    /\ pc[r] = "replace"
    /\ target' = [target EXCEPT ![r] =
                    {x \in reports : \A y \in reports : y.at <= x.at}]
    /\ Goto(r, "delete")
    /\ UNCHANGED <<reports, clock, began, asked, text, deleted>>

\* DELETE starts: it picks the committed reports of the fingerprint.
StartDelete(r) ==
    /\ pc[r] = "replace"
    /\ target' = [target EXCEPT ![r] = reports]
    /\ Goto(r, "delete")
    /\ UNCHANGED <<reports, clock, began, asked, text, deleted>>

\* Another open transaction has deleted a row that r has picked.
Blocked(r) == \E s \in Requests \ {r} : deleted[s] \cap target[r] # {}

\* DELETE ends: picked rows that are gone by now are skipped.
Delete(r) ==
    /\ pc[r] = "delete"
    /\ ~Blocked(r)
    /\ deleted' = [deleted EXCEPT ![r] = target[r] \cap reports]
    /\ Goto(r, "insert")
    /\ UNCHANGED <<reports, clock, began, asked, text, target>>

NewReport(r) == [by |-> r, at |-> began[r], text |-> text[r], model |-> ModelName]

\* The transaction of r is over.
Close(r) ==
    /\ target' = [target EXCEPT ![r] = {}]
    /\ deleted' = [deleted EXCEPT ![r] = {}]
    /\ Goto(r, "idle")
    /\ UNCHANGED <<clock, began, asked, text>>

\* INSERT and COMMIT: deletion and insertion take effect together.
Commit(r) ==
    /\ pc[r] = "insert"
    /\ reports' = (reports \ deleted[r]) \cup {NewReport(r)}
    /\ Close(r)

\* Mutant of Fail: the deletion was committed before the insertion failed.
Fail_DeletionStays(r) ==
    /\ pc[r] # "idle"
    /\ reports' = reports \ deleted[r]
    /\ Close(r)

\* A statement or the rendering raises, or the process ends: the session is
\* closed and nothing of the transaction remains.
Fail(r) ==
    /\ pc[r] # "idle"
    /\ Close(r)
    /\ UNCHANGED reports

RequestStep(r) ==
    \/ ReadEvidence(r) \/ ProviderAnswers(r) \/ ProviderFails(r)
    \/ StartDelete(r) \/ Delete(r) \/ Commit(r)

Next == \E r \in Requests : Begin(r) \/ RequestStep(r) \/ Fail(r)

Spec == Init /\ [][Next]_vars

(* Fairness: provider calls end and statements return.  Nothing is assumed *)
(* of clients and failures.                                                *)
FairSpec == Spec /\ \A r \in Requests : WF_vars(RequestStep(r))

-----------------------------------------------------------------------------
(* Properties.                                                             *)

\* Two reports never come from the same place in the pool of requests: what
\* one request leaves beside its own report was stored while it ran.
DistinctWriters ==
    \A x, y \in reports : x.by = y.by => x = y

\* Requests that overlap leave duplicates, never more of them than requests
\* ran at once: a request removes every report that was there before it.
DuplicatesBounded == Cardinality(reports) <= Cardinality(Requests)

\* Once a report has been generated GET finds one, whatever fails later: the
\* old report goes when the new one comes and not before.
ReportsKept == [][reports # {} => reports' # {}]_vars

\* A request always ends: it waits only for transactions that end.
RequestsFinish == \A r \in Requests : pc[r] # "idle" ~> pc[r] = "idle"

\* "upsert: delete old report for this fingerprint, insert new"
\* (api/reports.py): there is one report per fingerprint.
AtMostOneReport == Cardinality(reports) <= 1
-----------------------------------------------------------------------------
(* The inductive invariant of the proofs (ReportGenerationProofs).         *)

\* Every earlier report of r is picked by its DELETE and will be gone.
OwnReportsGo(r) ==
    \A x \in reports : x.by = r =>
        /\ pc[r] = "delete" => x \in target[r]
        /\ pc[r] = "insert" => x \in deleted[r]

IInv ==
    /\ TypeOK
    /\ IsFiniteSet(reports)
    /\ \A r \in Requests : OwnReportsGo(r)
    /\ DistinctWriters
=============================================================================
