--------------------------- MODULE QueryInsights ---------------------------
(***************************************************************************)
(* What PlanTrace records about a query and what its API says of it:       *)
(* captures that compare themselves with the newest snapshot               *)
(* (streaming/ingest.py, core/collector.py) and requests that read metric, *)
(* plan, regression and diagnosis with one statement each                  *)
(* (api/queries.py, api/regressions.py), all on READ COMMITTED.            *)
(*                                                                         *)
(* The model is about one query: every statement selects by fingerprint.   *)
(* A capture is one row: a metric and what its transaction stores with it. *)
(* at is its captured_at, stamp the begin of its transaction, which is the *)
(* created_at of the regressions and diagnostics.                          *)
(***************************************************************************)
EXTENDS PlanRules

CONSTANTS
    Streams,            \* consumer workers: one event a transaction
    Runs,               \* collection runs: the statements of a snapshot
    Captures,           \* what a capture may measure: a metric and a plan tree
    QueryTexts,         \* the texts the query may have
    MaxLate,            \* bound on the age of an event
    MaxTransactions,    \* bound on the transactions that are opened
    MaxSiblings,        \* bound on the statements of a run that share the fingerprint
    DiagnosesShown,     \* most stored diagnoses a response lists: 50 in the code
    Requests

ASSUME InsightsAssumption ==
    /\ Streams \cap Runs = {}
    /\ QueryTexts \subseteq Texts
    /\ \A c \in Captures : c.metric \in Metrics /\ c.tree \in Seq(Nodes) \cup {NoPlan}
    /\ {MaxLate, MaxTransactions, MaxSiblings} \subseteq Nat
    /\ DiagnosesShown \in Nat \ {0}

Writers == Streams \cup Runs

VARIABLES
    text,       \* normalized_query
    db,         \* committed rows, in the order they became visible
    clock,      \* transactions opened so far
    open,       \* writer -> its transaction
    kind,       \* request -> the endpoint it calls, "none" before
    todo,       \* request -> the statements it has still to execute
    seen        \* request -> what its statements returned

vars == <<text, db, clock, open, kind, todo, seen>>

CaptureRows ==
    [at : Nat, stamp : Nat, metric : Metrics, plan : Plans \cup {NoPlan},
     tree : Seq(Nodes), regressions : Seq(Findings), diagnoses : Seq(Findings),
     saw : Nat]      \* rows its transaction could see, for the properties

NoTransaction == [stamp |-> 0, rows |-> <<>>, looked |-> FALSE, metric |-> NoMetric]
NothingSeen ==
    [metric |-> 0, plan |-> 0, previous |-> 0, stored |-> {},
     regression |-> "none", regressedAt |-> 0, count |-> 0, began |-> 0, ended |-> 0]

\* The rows of query_regressions and of query_diagnostics: what the captures stored.
Regressed(rows) == UNION {{i} \X DOMAIN rows[i].regressions : i \in DOMAIN rows}
Diagnosed(rows) == UNION {{i} \X DOMAIN rows[i].diagnoses : i \in DOMAIN rows}

Responses ==
    [metric : Nat, plan : Nat, previous : Nat, stored : SUBSET (Nat \X Nat),
     regression : RegressionTypes \cup DiagnosisTypes \cup {"none"}, regressedAt : Nat,
     count : Nat, began : Nat, ended : Nat]

StatementNames == {"page", "metric", "plan", "previous", "stored", "count", "regression",
    "one regression"}
Endpoints == {"list", "detail", "diagnostics", "recommendations", "regression advice"}

TypeOK ==
    /\ text \in QueryTexts
    /\ db \in Seq(CaptureRows)
    /\ clock \in 0..MaxTransactions
    /\ open \in [Writers -> [stamp : Nat, rows : Seq(CaptureRows), looked : BOOLEAN,
                             metric : Metrics \cup {NoMetric}]]
    /\ kind \in [Requests -> Endpoints \cup {"none"}]
    /\ todo \in [Requests -> Seq(StatementNames)]
    /\ seen \in [Requests -> Responses]
    /\ \A r \in Requests :
        /\ {seen[r].metric, seen[r].plan, seen[r].previous} \subseteq {0} \cup DOMAIN db
        /\ seen[r].stored \subseteq Diagnosed(db)
        /\ Cardinality(seen[r].stored) <= DiagnosesShown

Init ==
    /\ text \in QueryTexts
    /\ db = <<>>
    /\ clock = 0
    /\ open = [w \in Writers |-> NoTransaction]
    /\ kind = [r \in Requests |-> "none"]
    /\ todo = [r \in Requests |-> <<>>]
    /\ seen = [r \in Requests |-> NothingSeen]

-----------------------------------------------------------------------------
(* ORDER BY captured_at DESC over rows: rows that tie come in any order.   *)

Newest_LastStored(rows, among) == {i \in among : \A j \in among : j <= i}

Newest(rows, among) == {i \in among : \A j \in among : rows[j].at <= rows[i].at}

\* What OFFSET 1 returns: the second in some such order.
SecondNewest(rows, among) ==
    UNION {Newest(rows, among \ {i}) : i \in Newest(rows, among)}

OrNone(indices) == IF indices = {} THEN {0} ELSE indices

Planned(rows) == {i \in DOMAIN rows : rows[i].plan # NoPlan}
PlanAt(rows, i) == IF i = 0 THEN NoPlan ELSE rows[i].plan
MetricAt(rows, i) == IF i = 0 THEN NoMetric ELSE rows[i].metric

-----------------------------------------------------------------------------
(* Captures.                                                               *)

Begin(w) ==
    /\ open[w] = NoTransaction
    /\ clock < MaxTransactions
    /\ clock' = clock + 1
    /\ open' = [open EXCEPT ![w].stamp = clock + 1]
    /\ UNCHANGED <<text, db, kind, todo, seen>>

\* A transaction sees the committed rows and its own.
Visible(w) == db \o open[w].rows

LatestMetric(w) ==
    /\ open[w].stamp > 0
    /\ ~open[w].looked
    /\ Len(open[w].rows) < (IF w \in Runs THEN MaxSiblings ELSE 1)
    /\ \E i \in OrNone(Newest(Visible(w), DOMAIN Visible(w))) :
        open' = [open EXCEPT ![w].looked = TRUE, ![w].metric = MetricAt(Visible(w), i)]
    /\ UNCHANGED <<text, db, clock, kind, todo, seen>>

\* Reads the latest plan, stores the metric and the plan, compares, diagnoses.
\* A run dates its rows by its own begin, an event carries its date; only
\* events say that the query is a vector query.
Capture(w, c, at) ==
    /\ open[w].looked
    /\ w \in Runs => at = open[w].stamp
    /\ \E i \in OrNone(Newest(Visible(w), Planned(Visible(w)))) :
        LET previous == PlanAt(Visible(w), i)
            tree == IF c.tree = NoPlan THEN <<>> ELSE c.tree
            plan == IF c.tree = NoPlan THEN NoPlan ELSE ParseExplain(c.tree)
            row == [at |-> at, stamp |-> open[w].stamp, metric |-> c.metric,
                    plan |-> plan, tree |-> tree,
                    regressions |-> DetectRegressions(open[w].metric, c.metric, previous,
                                        plan, w \in Streams /\ text.operator),
                    diagnoses |-> DiagnoseQuery(text, c.metric, plan, previous, tree),
                    saw |-> Len(Visible(w))]
        IN open' = [open EXCEPT ![w].rows = Append(@, row), ![w].looked = FALSE,
                                ![w].metric = NoMetric]
    /\ UNCHANGED <<text, db, clock, kind, todo, seen>>

Ended(w) == open' = [open EXCEPT ![w] = NoTransaction]

Commit(w) ==
    /\ open[w].rows # <<>>
    /\ ~open[w].looked
    /\ db' = Visible(w)
    /\ Ended(w)
    /\ UNCHANGED <<text, clock, kind, todo, seen>>

Rollback(w) ==
    /\ open[w].stamp > 0
    /\ Ended(w)
    /\ UNCHANGED <<text, db, clock, kind, todo, seen>>

-----------------------------------------------------------------------------
(* Requests.                                                               *)

Statements_CountFirst ==
    [e \in Endpoints |->
        CASE e = "list" -> <<"page">>
          [] e = "detail" -> <<"count", "metric", "plan">>
          [] e = "diagnostics" -> <<"metric", "plan", "previous", "stored">>
          [] e = "recommendations" -> <<"metric", "plan", "regression">>
          [] e = "regression advice" -> <<"one regression", "metric", "plan">>]

\* The statements of an endpoint after the lookup of the fingerprint.
\* get_query_recommendations and get_query_agent_report read alike.
Statements ==
    [e \in Endpoints |->
        CASE e = "list" -> <<"page">>
          [] e = "detail" -> <<"metric", "plan", "count">>
          [] e = "diagnostics" -> <<"metric", "plan", "previous", "stored">>
          [] e = "recommendations" -> <<"metric", "plan", "regression">>
          [] e = "regression advice" -> <<"one regression", "metric", "plan">>]

Call(r, e) ==
    /\ kind[r] = "none"
    /\ db # <<>>
    /\ e = "regression advice" => \E i \in DOMAIN db : db[i].regressions # <<>>
    /\ kind' = [kind EXCEPT ![r] = e]
    /\ todo' = [todo EXCEPT ![r] = Statements[e]]
    /\ seen' = [seen EXCEPT ![r].began = Len(db)]
    /\ UNCHANGED <<text, db, clock, open>>

\* The next statement of r is s and what it returns is put in its place.
Executes(r, s, result) ==
    /\ todo[r] # <<>> /\ Head(todo[r]) = s
    /\ todo' = [todo EXCEPT ![r] = Tail(@)]
    /\ seen' = [seen EXCEPT ![r] = result]
    /\ UNCHANGED <<text, db, clock, open, kind>>

ReadMetric(r) == \E i \in Newest(db, DOMAIN db) :
    Executes(r, "metric", [seen[r] EXCEPT !.metric = i])

ReadPlan(r) == \E i \in OrNone(Newest(db, Planned(db))) :
    Executes(r, "plan", [seen[r] EXCEPT !.plan = i])

ReadPreviousPlan_NoOffset(r) == \E i \in OrNone(Newest(db, Planned(db))) :
    Executes(r, "previous", [seen[r] EXCEPT !.previous = i])

ReadPreviousPlan(r) == \E i \in OrNone(SecondNewest(db, Planned(db))) :
    Executes(r, "previous", [seen[r] EXCEPT !.previous = i])

RegressionsOf(rows) == Cardinality(Regressed(rows))

CountRegressions(r) ==
    Executes(r, "count", [seen[r] EXCEPT !.count = RegressionsOf(db)])

\* Any of the regressions that were created last.
ReadRegression(r) ==
    LET regressed == {i \in DOMAIN db : db[i].regressions # <<>>}
        last == {i \in regressed : \A j \in regressed : db[j].stamp <= db[i].stamp}
    IN IF last = {} THEN Executes(r, "regression", seen[r])
       ELSE \E i \in last : \E k \in DOMAIN db[i].regressions :
            Executes(r, "regression", [seen[r] EXCEPT
                !.regression = db[i].regressions[k].type, !.regressedAt = db[i].stamp])

\* The regression the client names.
ReadOneRegression(r) == \E i \in DOMAIN db : \E k \in DOMAIN db[i].regressions :
    Executes(r, "one regression", [seen[r] EXCEPT
        !.regression = db[i].regressions[k].type, !.regressedAt = db[i].stamp])

\* ORDER BY created_at DESC LIMIT: rows that tie come in any order.
NewestDiagnoses(rows) ==
    LET all == Diagnosed(rows)
        Newer(d) == {e \in all : rows[e[1]].stamp > rows[d[1]].stamp}
        fitting == {d \in all : Cardinality(Newer(d)) < DiagnosesShown}
    IN {shown \in SUBSET fitting :
        /\ Cardinality(shown) = Min({DiagnosesShown, Cardinality(all)})
        /\ \A d \in shown, e \in all \ shown : rows[e[1]].stamp <= rows[d[1]].stamp}

ReadDiagnoses(r) == \E shown \in NewestDiagnoses(db) :
    Executes(r, "stored", [seen[r] EXCEPT !.stored = shown, !.ended = Len(db)])

\* One line of the list for each metric of the greatest captured_at.
ListedMetrics(rows) == Newest(rows, DOMAIN rows)

ReadPage(r) == \E i \in ListedMetrics(db) :
    Executes(r, "page", [seen[r] EXCEPT !.metric = i, !.count = RegressionsOf(db)])

-----------------------------------------------------------------------------
(* Responses.                                                              *)

Responded(r, e) == kind[r] = e /\ todo[r] = <<>>

\* The API diagnoses itself only when nothing is stored.
OwnDiagnoses(r) ==
    DiagnoseQuery(text, MetricAt(db, seen[r].metric), PlanAt(db, seen[r].plan),
        PlanAt(db, seen[r].previous), IF seen[r].plan = 0 THEN <<>> ELSE db[seen[r].plan].tree)

StoredDiagnoses(r) == {db[d[1]].diagnoses[d[2]] : d \in seen[r].stored}

Diagnoses_OwnOnly(r) == Range(OwnDiagnoses(r))

Diagnoses(r) == IF seen[r].stored # {} THEN StoredDiagnoses(r) ELSE Range(OwnDiagnoses(r))

Advice(r) ==
    RecommendForQuery(text, MetricAt(db, seen[r].metric), PlanAt(db, seen[r].plan),
                      seen[r].regression)

Report(r) ==
    AgentReport(text, MetricAt(db, seen[r].metric), PlanAt(db, seen[r].plan),
                seen[r].regression)

-----------------------------------------------------------------------------
Writes(w) ==
    \/ Begin(w) \/ LatestMetric(w) \/ Commit(w) \/ Rollback(w)
    \/ \E c \in Captures : \E late \in 0..MaxLate :
        late < open[w].stamp /\ Capture(w, c, open[w].stamp - late)

Reads(r) ==
    \/ \E e \in Endpoints : Call(r, e)
    \/ ReadMetric(r) \/ ReadPlan(r) \/ ReadPreviousPlan(r) \/ CountRegressions(r)
    \/ ReadRegression(r) \/ ReadOneRegression(r) \/ ReadDiagnoses(r) \/ ReadPage(r)

Next == (\E w \in Writers : Writes(w)) \/ (\E r \in Requests : Reads(r))

Spec == Init /\ [][Next]_vars

-----------------------------------------------------------------------------
(* Properties.                                                             *)

Types(found) == {f.type : f \in Range(found)}

\* The detector and the diagnoser are two rule sets, the one configurable, the
\* other not.  In every row a transaction is about to commit, however the
\* writers overlapped, a lost index scan is found by both or by neither.  So is
\* a bypassed vector index if an event captured it; a run never tells the
\* detector that a query is a vector query (collector.py:274), so what it
\* captures is diagnosed as critical (diagnostics.py:216) but never raised as a
\* regression.  The estimates they call off differ only as the configured ratio
\* does.
RulesAgree ==
    \A w \in Writers : \A i \in DOMAIN open[w].rows :
        LET regressed == Types(open[w].rows[i].regressions)
            diagnosed == Types(open[w].rows[i].diagnoses)
        IN /\ "index_scan_to_seq_scan" \in regressed <=> "seq_scan_fallback" \in diagnosed
           /\ "vector_hnsw_index_bypass" \in regressed
                <=> w \in Streams /\ "vector_hnsw_bypass" \in diagnosed
           /\ RowEstimateRatio >= 10 /\ "row_estimate_mismatch" \in regressed
                => "row_estimate_mismatch" \in diagnosed
           /\ RowEstimateRatio <= 10 /\ "row_estimate_mismatch" \in diagnosed
                => "row_estimate_mismatch" \in regressed

\* The statements of a response are separate snapshots.  Still, what a
\* response says about regressions never lags behind the metric it shows: the
\* count covers every regression committed up to that metric, and the newest
\* regression is not older than those found with it.
RegressionsCoverShown ==
    \A r \in Requests :
        /\ Responded(r, "list") \/ Responded(r, "detail") =>
            seen[r].count >= RegressionsOf(SubSeq(db, 1, seen[r].metric))
        /\ Responded(r, "recommendations") /\ db[seen[r].metric].regressions # <<>> =>
            seen[r].regressedAt >= db[seen[r].metric].stamp

\* The plan a diagnostics response shows may be older or newer than the
\* diagnoses it lists, but what was found in that plan is in the list, unless
\* the list is full of diagnoses that are not older.
DiagnosesCoverShown ==
    \A r \in Requests :
        Responded(r, "diagnostics") /\ seen[r].plan # 0 =>
            \/ Range(db[seen[r].plan].diagnoses) \subseteq Diagnoses(r)
            \/ /\ Cardinality(seen[r].stored) = DiagnosesShown
               /\ \A d \in seen[r].stored : db[d[1]].stamp >= db[seen[r].plan].stamp

\* Every capture up to the n-th compared itself with the one before it.
InSequence(n) ==
    \A i \in 1..n :
        /\ db[i].saw = i - 1
        /\ db[i].plan # NoPlan
        /\ \A j \in 1..(i - 1) : db[j].at < db[i].at

\* Where the API diagnoses for itself it repeats the work of the last writer:
\* if the captures came one after the other and none committed meanwhile, it
\* raises no alarm that the writer did not.
QuietWhenStoredQuiet ==
    \A r \in Requests :
        /\ Responded(r, "diagnostics")
        /\ seen[r].stored = {}
        /\ seen[r].began = seen[r].ended
        /\ InSequence(seen[r].ended)
        => OwnDiagnoses(r) = <<>>

\* A late event is itself compared with a newer snapshot, but it does not become
\* the one that later captures are compared with: a capture that is newer than
\* all before it has lost an index scan only against the newest plan, not
\* against the plan that was stored last.
ComparedWithNewest ==
    \A i \in DOMAIN db :
        LET before == SubSeq(db, 1, i - 1) IN
        /\ db[i].saw = i - 1
        /\ \A j \in DOMAIN before : before[j].at < db[i].at
        /\ "index_scan_to_seq_scan" \in Types(db[i].regressions)
        => \E j \in Planned(before) :
            before[j].plan.idx /\ \A k \in Planned(before) : before[k].at <= before[j].at

\* Advice is worked out anew from what a request reads, by a third set of
\* rules.  It agrees with what the captures recorded: statistics are called
\* stale exactly where the shown plan's capture diagnosed its estimate as off and
\* the estimate was not 0, which recommendations.py:77 takes for a missing one and
\* diagnostics.py:107 for 1.  An index is advised only where that capture missed
\* one (if the metric shown is its own), and where the agent report is without a
\* recommendation that capture found no estimate off, but for an estimate of 0.
AdviceAgrees ==
    \A r \in Requests :
        Responded(r, "recommendations") /\ seen[r].plan # 0 =>
            LET row == db[seen[r].plan]
                advised == Range(Advice(r))
                misestimated == "row_estimate_mismatch" \in Types(row.diagnoses)
            IN /\ "stale-statistics" \in advised <=> misestimated /\ row.plan.est # 0
               /\ seen[r].metric = seen[r].plan /\ "seq-scan-index-suggestion" \in advised
                    => "missing_index_candidate" \in Types(row.diagnoses)
               /\ Report(r).recommendation = "none" /\ misestimated => row.plan.est = 0

\* The list has the latest metric of a fingerprint (queries.py:51), one line.
ListedOnce == Cardinality(ListedMetrics(db)) <= 1

=============================================================================
