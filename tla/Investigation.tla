--------------------------- MODULE Investigation ---------------------------
(***************************************************************************)
(* Investigation requests (ai/service.py, api/ai.py) about one query while *)
(* captures of that query commit.  A request reads metrics, plans,         *)
(* diagnostics and regressions with one statement each, every statement on *)
(* its own READ COMMITTED snapshot, then asks the configured providers in  *)
(* turn, falls back to the heuristics, checks the grounding and responds.  *)
(*                                                                         *)
(* db: the rows of the query, metrics and plans oldest first, diagnostics  *)
(* and regressions newest first (the order of their reads; rows of one     *)
(* transaction tie, their order is the one the capture lists).             *)
(***************************************************************************)
EXTENDS InvestigationReport

CONSTANTS
    Requests,
    Query,          \* the query's text, an element of Queries
    Captures,       \* what one capture transaction may add
    MaxCaptures,    \* bound on the captures that commit
    Supplied,       \* bundles handed to investigate_bundle by scripts
    Answers,        \* reports a provider may answer with
    SettingsInPlay  \* values of the AI_* settings

ASSUME InvestigationAssumption ==
    /\ Query \in Queries
    /\ Captures \subseteq [mean : Nat, plan : Plans \cup {NoPlan},
                           diagnostics : Seq(Rows), regressions : Seq(Rows)]
    /\ MaxCaptures \in Nat
    /\ Supplied \subseteq Bundles
    /\ \A b \in Supplied : b.latest = NoPlan => b.previous = NoPlan
    /\ Answers \subseteq Reports
    /\ SettingsInPlay \subseteq
        [provider : {"auto", "openai", "gemini", "ollama", "disabled"},
         openaiKey : BOOLEAN, geminiKey : BOOLEAN, fallbackModel : BOOLEAN]

VARIABLES
    db,         \* committed rows about the query
    providers,  \* the service's providers, fixed when it is built
    pc,         \* request -> what it does next
    available,  \* request -> pieces of evidence committed when it started
    bundle,     \* request -> the evidence read so far
    turn,       \* request -> index of the provider to ask
    blamed,     \* request -> the last error text holds a forbidden phrase
    reply       \* request -> report, source, provider and grounded flag

vars == <<db, providers, pc, available, bundle, turn, blamed, reply>>

ProviderNames == {"openai", "gemini", "ollama"}

\* A key adds its provider whatever AI_PROVIDER says, Ollama is opt-in only.
DefaultProviders(s) ==
    LET ollama == s.provider \in {"auto", "ollama"} IN
    When(s.openaiKey, "openai") \o When(s.geminiKey, "gemini")
    \o When(ollama, "ollama") \o When(ollama /\ s.fallbackModel, "ollama")

EmptyBundle ==
    [means |-> <<>>, latest |-> NoPlan, previous |-> NoPlan, diagnostics |-> <<>>,
     regressions |-> <<>>, focus |-> NoFocus, query |-> Query]

Places == {"new", "metrics", "plans", "diagnostics", "regressions", "ask",
           "check", "respond", "answered", "failed"}

Replies == [report : Reports, source : {"none", "llm", "heuristic", "insufficient"},
            provider : ProviderNames \cup {"none", "disabled", "heuristic"},
            grounded : BOOLEAN]

NoReply ==
    [report |-> [evidence |-> {}, citations |-> {}, confidence |-> 0, risk |-> "low",
                 priority |-> "p2", index |-> "none", rewrite |-> "none",
                 insufficient |-> FALSE, banned |-> FALSE],
     source |-> "none", provider |-> "none", grounded |-> FALSE]

TypeOK ==
    /\ db \in [means : Seq(Nat), plans : Seq(Plans), diagnostics : Seq(Rows),
               regressions : Seq(Rows)]
    /\ providers \in Seq(ProviderNames)
    /\ pc \in [Requests -> Places]
    /\ available \in [Requests -> Nat]
    /\ bundle \in [Requests -> Bundles]
    /\ turn \in [Requests -> Nat \ {0}]
    /\ blamed \in [Requests -> BOOLEAN]
    /\ reply \in [Requests -> Replies]

Init ==
    /\ db = [means |-> <<>>, plans |-> <<>>, diagnostics |-> <<>>, regressions |-> <<>>]
    /\ \E s \in SettingsInPlay : providers = DefaultProviders(s)
    /\ pc = [r \in Requests |-> "new"]
    /\ available = [r \in Requests |-> 0]
    /\ bundle = [r \in Requests |-> EmptyBundle]
    /\ turn = [r \in Requests |-> 1]
    /\ blamed = [r \in Requests |-> FALSE]
    /\ reply = [r \in Requests |-> NoReply]

-----------------------------------------------------------------------------
(* The database.                                                           *)

\* The rows of one capture transaction become visible together.
CaptureCommits(c) ==
    /\ Len(db.means) < MaxCaptures
    /\ db' = [means |-> Append(db.means, c.mean),
              plans |-> IF c.plan = NoPlan THEN db.plans ELSE Append(db.plans, c.plan),
              diagnostics |-> c.diagnostics \o db.diagnostics,
              regressions |-> c.regressions \o db.regressions]
    /\ UNCHANGED <<providers, pc, available, bundle, turn, blamed, reply>>

NewestMeans == SubSeq(db.means, IF Len(db.means) > 6 THEN Len(db.means) - 5 ELSE 1,
                      Len(db.means))
NewestPlan(k) ==
    IF Len(db.plans) < k THEN NoPlan ELSE db.plans[Len(db.plans) - k + 1]
FirstRows(rows) == SubSeq(rows, 1, AtMost(Len(rows), 8))

\* The bundle a request would read now if no capture came between.
BundleNow ==
    [EmptyBundle EXCEPT !.means = NewestMeans, !.latest = NewestPlan(1),
        !.previous = NewestPlan(2), !.diagnostics = FirstRows(db.diagnostics),
        !.regressions = FirstRows(db.regressions)]

-----------------------------------------------------------------------------
(* collect_query_evidence.                                                 *)

\* The fingerprint row comes with its first metric.  f: the type of the
\* regression the request names, NoFocus when it names the query.
Begin(r, f) ==
    /\ pc[r] = "new"
    /\ db.means # <<>>
    /\ f \in TypesOf(db.regressions) \cup {NoFocus}
    /\ pc' = [pc EXCEPT ![r] = "metrics"]
    /\ available' = [available EXCEPT ![r] = EvidenceCount(BundleNow)]
    /\ bundle' = [bundle EXCEPT ![r].focus = f]
    /\ UNCHANGED <<db, providers, turn, blamed, reply>>

\* An unknown query or regression: a LookupError, which no handler catches.
LookupFails(r) ==
    /\ pc[r] = "new"
    /\ pc' = [pc EXCEPT ![r] = "failed"]
    /\ UNCHANGED <<db, providers, available, bundle, turn, blamed, reply>>

\* investigate_bundle with a bundle: nothing is read.
InvestigateBundle(r, b) ==
    /\ pc[r] = "new"
    /\ pc' = [pc EXCEPT ![r] = "ask"]
    /\ available' = [available EXCEPT ![r] = EvidenceCount(b)]
    /\ bundle' = [bundle EXCEPT ![r] = b]
    /\ UNCHANGED <<db, providers, turn, blamed, reply>>

\* One statement of build_evidence_bundle.
Reads(r, place, next, read) ==
    /\ pc[r] = place
    /\ bundle' = [bundle EXCEPT ![r] = read]
    /\ pc' = [pc EXCEPT ![r] = next]
    /\ UNCHANGED <<db, providers, available, turn, blamed, reply>>

ReadMetrics(r) ==
    Reads(r, "metrics", "plans", [bundle[r] EXCEPT !.means = NewestMeans])

ReadPlans(r) ==
    Reads(r, "plans", "diagnostics",
        [bundle[r] EXCEPT !.latest = NewestPlan(1), !.previous = NewestPlan(2)])

ReadDiagnostics(r) ==
    Reads(r, "diagnostics", "regressions",
        [bundle[r] EXCEPT !.diagnostics = FirstRows(db.diagnostics)])

ReadRegressions(r) ==
    Reads(r, "regressions", "ask",
        [bundle[r] EXCEPT !.regressions = FirstRows(db.regressions)])

-----------------------------------------------------------------------------
(* run_llm_investigation.                                                  *)

Heuristics(r, reasonBanned, name) ==
    [report |-> HeuristicReport(bundle[r], reasonBanned),
     source |-> IF IsThin(bundle[r]) THEN "insufficient" ELSE "heuristic",
     provider |-> name, grounded |-> TRUE]

Skipped(r) == providers = <<>> \/ IsThin(bundle[r])

\* No provider is configured, or the bundle is too thin to ask one.
SkipModel(r) ==
    /\ pc[r] = "ask"
    /\ Skipped(r)
    /\ reply' = [reply EXCEPT ![r] =
        Heuristics(r, FALSE, IF providers = <<>> THEN "disabled" ELSE "heuristic")]
    /\ pc' = [pc EXCEPT ![r] = "check"]
    /\ UNCHANGED <<db, providers, available, bundle, turn, blamed>>

Asking(r) == pc[r] = "ask" /\ ~Skipped(r) /\ turn[r] <= Len(providers)

\* The provider's text parses as a report.
ProviderAnswers(r, rep) ==
    /\ Asking(r)
    /\ reply' = [reply EXCEPT ![r] =
        [report |-> rep, source |-> "llm", provider |-> providers[turn[r]],
         grounded |-> FALSE]]
    /\ pc' = [pc EXCEPT ![r] = "check"]
    /\ UNCHANGED <<db, providers, available, bundle, turn, blamed>>

ProviderFails_SameProvider(r, quotesBanned) ==
    /\ Asking(r)
    /\ blamed' = [blamed EXCEPT ![r] = quotesBanned]
    /\ UNCHANGED <<db, providers, pc, available, bundle, turn, reply>>

\* The call raises, times out, or its text does not parse; a parse error
\* quotes the text.
ProviderFails(r, quotesBanned) ==
    /\ Asking(r)
    /\ turn' = [turn EXCEPT ![r] = @ + 1]
    /\ blamed' = [blamed EXCEPT ![r] = quotesBanned]
    /\ UNCHANGED <<db, providers, pc, available, bundle, reply>>

\* Every provider failed: the heuristics, under the first provider's name.
AllFailed(r) ==
    /\ pc[r] = "ask"
    /\ ~Skipped(r)
    /\ turn[r] > Len(providers)
    /\ reply' = [reply EXCEPT ![r] = Heuristics(r, blamed[r], providers[1])]
    /\ pc' = [pc EXCEPT ![r] = "check"]
    /\ UNCHANGED <<db, providers, available, bundle, turn, blamed>>

-----------------------------------------------------------------------------
(* check_evidence_grounding and persist_or_return_report.                  *)

Accept(r) ==
    /\ pc[r] = "check"
    /\ ~Rejected(reply[r].report, bundle[r])
    /\ reply' = [reply EXCEPT ![r].grounded = TRUE]
    /\ pc' = [pc EXCEPT ![r] = "respond"]
    /\ UNCHANGED <<db, providers, available, bundle, turn, blamed>>

Reject_QuotesError(r) ==
    /\ pc[r] = "check"
    /\ Rejected(reply[r].report, bundle[r])
    /\ reply' = [reply EXCEPT ![r] =
        Heuristics(r, reply[r].report.banned, reply[r].provider)]
    /\ pc' = [pc EXCEPT ![r] = "respond"]
    /\ UNCHANGED <<db, providers, available, bundle, turn, blamed>>

Reject_KeepsReport(r) ==
    /\ pc[r] = "check"
    /\ Rejected(reply[r].report, bundle[r])
    /\ pc' = [pc EXCEPT ![r] = "respond"]
    /\ UNCHANGED <<db, providers, available, bundle, turn, blamed, reply>>

\* The fallback is not checked again and keeps the provider's name.
Reject(r) ==
    /\ pc[r] = "check"
    /\ Rejected(reply[r].report, bundle[r])
    /\ reply' = [reply EXCEPT ![r] = Heuristics(r, FALSE, reply[r].provider)]
    /\ pc' = [pc EXCEPT ![r] = "respond"]
    /\ UNCHANGED <<db, providers, available, bundle, turn, blamed>>

Respond_AsIs(r) ==
    /\ pc[r] = "respond"
    /\ pc' = [pc EXCEPT ![r] = "answered"]
    /\ UNCHANGED <<db, providers, available, bundle, turn, blamed, reply>>

Respond(r) ==
    /\ pc[r] = "respond"
    /\ reply' = [reply EXCEPT ![r].source =
        IF reply[r].report.insufficient /\ @ = "llm" THEN "insufficient" ELSE @]
    /\ pc' = [pc EXCEPT ![r] = "answered"]
    /\ UNCHANGED <<db, providers, available, bundle, turn, blamed>>

-----------------------------------------------------------------------------
\* A test double of the suite answers with the heuristic report itself.
PossibleAnswers(r) == Answers \cup {HeuristicReport(bundle[r], FALSE)}

Starts(r) ==
    \/ \E f \in TypesOf(db.regressions) \cup {NoFocus} : Begin(r, f)
    \/ LookupFails(r)
    \/ \E b \in Supplied : InvestigateBundle(r, b)

Continues(r) ==
    \/ ReadMetrics(r) \/ ReadPlans(r) \/ ReadDiagnostics(r) \/ ReadRegressions(r)
    \/ SkipModel(r) \/ AllFailed(r)
    \/ \E rep \in PossibleAnswers(r) : ProviderAnswers(r, rep)
    \/ \E quotesBanned \in BOOLEAN : ProviderFails(r, quotesBanned)
    \/ Accept(r) \/ Reject(r) \/ Respond(r)

Next ==
    \/ \E c \in Captures : CaptureCommits(c)
    \/ \E r \in Requests : Starts(r) \/ Continues(r)

Spec == Init /\ [][Next]_vars

\* A handler thread runs on, and a provider call ends with an answer or an
\* error; captures and requests may stop coming.
FairSpec == Spec /\ \A r \in Requests : WF_vars(Continues(r))

-----------------------------------------------------------------------------
(* Properties.                                                             *)

Answered(r) == pc[r] = "answered"

\* Every signal of a served report, in its evidence and in its citations, is
\* in the inventory of the bundle the request read, whichever of the four
\* paths (model, no provider, all failed, rejected) produced the report, and
\* the response says so (service.py:332).
CitationsGrounded ==
    \A r \in Requests : Answered(r) =>
        Grounded(reply[r].report, bundle[r]) /\ reply[r].grounded

\* The report that replaces a rejected one is served unchecked
\* (service.py:364): it would pass the check all the same, unless the query
\* itself holds a forbidden phrase.  So a phrase that a provider's error text
\* brought into a heuristic report never reaches the client.
AnswersWouldPass ==
    \A r \in Requests : Answered(r) =>
        bundle[r].query.banned \/ ~Rejected(reply[r].report, bundle[r])

\* The source of a response tells the truth: "llm" is a provider's own
\* report, "heuristic" is what the heuristics make of the bundle, and
\* "insufficient" is said exactly of the reports that say it themselves, so a
\* thin bundle never yields a confident source.
SourceTruthful ==
    \A r \in Requests : Answered(r) =>
        LET rep == reply[r].report IN
        /\ reply[r].source = "insufficient" <=> rep.insufficient
        /\ reply[r].source = "llm" => ~IsThin(bundle[r]) /\ rep \in PossibleAnswers(r)
        /\ reply[r].source = "heuristic" =>
            \E quoted \in BOOLEAN : rep = HeuristicReport(bundle[r], quoted)

\* The four reads are four snapshots, but evidence that was committed when
\* the request began is not lost between them: the heuristics call the
\* evidence insufficient only if less than two pieces were there to be read.
EnoughEvidenceIsUsed ==
    \A r \in Requests :
        Answered(r) /\ available[r] >= 2 => ~IsThin(bundle[r])

\* A served report that no provider wrote gets full marks in the suite of
\* evaluate_query_investigator.py, which claims them for its golden bundles
\* (README.md:107): about any bundle, the golden ones among them, and by any of
\* the paths that end in the heuristics, all of its evidence is known, it
\* recommends something, and it is "insufficient" exactly for a thin bundle.
HeuristicsGetFullMarks ==
    \A r \in Requests :
        Answered(r) /\ reply[r].report \notin Answers
        => FullMarks(bundle[r], reply[r].report)

\* A request that a handler has begun is answered or fails, whatever the
\* providers do with it.
RequestsAnswered ==
    \A r \in Requests : pc[r] # "new" ~> pc[r] \in {"answered", "failed"}

-----------------------------------------------------------------------------
(* The abstract promise.                                                   *)

Reading(r) == pc[r] \in {"new", "metrics", "plans", "diagnostics", "regressions"}

stateBar == [r \in Requests |->
    IF Answered(r) THEN "answered" ELSE IF pc[r] = "failed" THEN "refused"
    ELSE IF Reading(r) THEN "new" ELSE "open"]
knownBar == [r \in Requests |->
    IF Reading(r) \/ pc[r] = "failed" THEN {} ELSE SignalInventory(bundle[r])]
citedBar == [r \in Requests |->
    IF Answered(r) THEN reply[r].report.evidence \cup reply[r].report.citations ELSE {}]

Promise == INSTANCE GroundedAnswers
    WITH state <- stateBar, known <- knownBar, cited <- citedBar

\* The service implements GroundedAnswers: an answer cites only what its
\* request had read, is given once and never changes, and evidence that
\* commits after the reads changes nothing.
AnswersAreGrounded == Promise!Spec
=============================================================================
