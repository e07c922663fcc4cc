# PlanTrace in TLA+

This directory specifies the parts of PlanTrace whose correctness depends on
order, concurrency, failure or long sequences of steps: the Kafka consumer, the
transactions that write to PostgreSQL, the rules and endpoints that compare
snapshots, reports and AI investigations, the placement simulator and the
benchmark driver. TLC checks small instances, TLAPS proves the main safety results for
every value of the constants. Source paths are relative to the repository root.

## 1. Inventory

| Component | State | Operations | Modelled in |
|---|---|---|---|
| Kafka consumer, `backend/app/streaming/consumer.py` | group offsets, polled positions, current record, attempt | start, poll, lag lookup, attempt, backoff, dead-letter, background commit, stop, crash | `TelemetryConsumer` |
| Event ingestion, `streaming/ingest.py` | rows keyed by `event_id` and `fingerprint_hash`, regression rows, counters | duplicate check, fingerprint upsert, metric insert, detection, commit | `IngestTransactions`, `IdempotentStore` |
| Collection run, `core/collector.py`, `api/collect.py` | one transaction over a `pg_stat_statements` snapshot | per row: find, touch or insert the fingerprint, compare, store; one commit | `IngestTransactions` (locks), `QueryInsights` (what is compared) |
| Reports, `api/reports.py`, `core/report_generator.py` | `query_reports` rows | read evidence, ask providers, delete, insert, commit | `ReportGeneration` |
| Placement simulator, `core/placement.py` | tenants and used resources of every node | assign, local search, annealing | `Placement` |
| Regression rules, `core/regression_detector.py`, `diagnostics.py`, `explain_parser.py`, `recommendations.py`, `performance_agent.py` | none (pure) | snapshots and plan trees to regressions, diagnoses, advice | `PlanRules`, `RegressionScenarios` |
| Query API, `api/queries.py`, `regressions.py`, `collector_status.py` | none | several reads a response, each on its own snapshot | `QueryInsights` |
| AI investigation, `ai/service.py`, `evidence.py`, `heuristics.py`, `providers.py`, `api/ai.py` | none kept between requests | evidence bundle, provider chain, grounding check, heuristic report | `InvestigationReport`, `Investigation`, `GroundedAnswers`, `InvestigationCases` |
| Benchmark driver, `bench/telemetry_benchmark.py` | advisory lock, benchmark rows | lock, clean, produce, poll, read, release | `BenchmarkRun` |
| C++ collector, `collector/src/` | producer queue | produce, poll, flush, exit | only the append to the topic (`Produce`) |
| Fingerprinting, demo data, frontend | none the backend depends on | text rewriting, seeding, presentation | not modelled |

How they interact. The collector appends messages to two Kafka topics. The
consumer is one asyncio task inside the API process; it calls ingestion
synchronously with a new database session per attempt, so nothing else of that
process runs during an attempt, but other consumers and collection runs write
the same tables. Report, query and investigation requests run in the thread pool
of FastAPI and read what ingestion and collection wrote, one statement after the
other, while these go on writing. The benchmark produces to the consumer's topic and
deletes rows. The placement simulator shares nothing with the rest.

What is hard, and what must hold:

* **Consumer.** aiokafka commits polled positions in the background, also those of
  records still in process; the process may stop or die at any await; a record
  may fail, be dead-lettered, be redelivered. Nothing may be stepped past that is
  neither stored nor dead-lettered, a crash may lose one batch at most, dead
  letters must be real, a batch must come to its end.
* **Writers.** Look-up and insert are two statements, so unique indexes decide
  races. An event must be stored once and together with its fingerprint and its
  regressions, lost races must not exhaust the retries, and nobody may wait for
  ever although row locks are taken in any order.
* **Reports.** Overlapping requests must not lose the report; they may duplicate it.
* **Snapshots and rules.** Events arrive late, writers overlap, a response is put
  together from several snapshots, and three rule sets look for the same thing
  with thresholds of their own. A response may not hide what belongs to the
  metric or plan it shows, and the rule sets may not contradict each other.
* **Investigations.** The evidence is read while captures commit, providers fail or
  make things up. An answer may cite only what its request has read, must say
  truly who wrote it, and must come.
* **Benchmark.** Two runs must not delete each other's rows.
* **Placement.** No tenant may be lost, copied or moved out of its region, and
  rebalancing may not create an overload.

`PROJECT.json` lists every hazard at its line with the properties aimed at it.

## 2. Modules

```
BoundedLossDelivery <- TelemetryConsumer (INSTANCE WITH)     MCTelemetryConsumer
                       TelemetryConsumerProofs
IdempotentStore     <- IngestTransactions (INSTANCE WITH)    MCIngestTransactions
                       IngestTransactionsProofs
PlanRules           <- QueryInsights, RegressionScenarios    MCQueryInsights
                       QueryInsightsProofs
InvestigationReport <- Investigation, InvestigationCases     MCInvestigation
GroundedAnswers     <- Investigation (INSTANCE WITH)
                       InvestigationProofs
ReportGeneration    <- ReportGenerationProofs                MCReportGeneration
Placement           <- PlacementProofs                       MCPlacement
FiniteSums          <- PlacementProofs, QueryInsightsProofs
BenchmarkRun
```

An `MC...` module gives the constants their values, adds budgets (how often each
kind of trouble happens) and the properties that speak of either; the steps are
those of the component. A definition named
`Action_Something` is a plausible bug of `Action`, kept next to it; no
specification uses it, it shows that the properties notice the bug.

### TelemetryConsumer and BoundedLossDelivery

`log` and `committed` are the broker's; `position` is what getmany has
returned, `next` is the number of records `_run` has stepped past, `base` where
this life of the task began. `pc` names the await or synchronous section the
task stands in. `Poll`, `LagChecked`, `Ingest`, `AttemptFails`,
`CommitUnacknowledged`, `BackoffElapsed`, `PublishDlq`, `PublishFails`,
`RecordDlq`, `RecordFails` are the code between two awaits of `_run` and
`_process_with_retry`. `AutoCommit` and `Stop` happen only where the task
awaits, since all three share one event loop; `Crash` happens anywhere.
`ProducerStartFails` is `producer.start()` raising before the `try`: the opened
consumer is left behind and keeps committing ("leaked").

Abstractions: an empty getmany changes nothing and is a stuttering step; the
positions of all partitions are resolved in one step; a background commit that is
in flight has the effect of one at an earlier moment; the dead-letter topic and
table are counted per record; `collector_status` shows one collector service,
whose heartbeats are on one partition. Log retention, group rebalancing and the
lag gauge are left out.

`BoundedLossDelivery` is the promise without batches, offsets and retries: a
cursor moves along each partition and steps past a message only when the message
is accounted for (a row with its event id, its heartbeat on show, or a dead
letter); work on the message at the cursor may be repeated, but stores an event
id once. A restart may take the cursor back, and ahead over at most `MaxLost`
messages; until a first offset is known it takes it to the end of the log, since
`auto_offset_reset` is "latest". `ImplementsDelivery` maps the consumer onto it:
`next` is the cursor, and `MaxLost` is the batch size.

Properties: `SettledBehindLoop`, `AtMostOneBatchAtRisk`, `DlqRowHasMessage`,
`NoSpuriousDeadLetter` (in the MC module, since it speaks of the failures the
budget counts), `ImplementsDelivery`, `BatchCompletes`, `EventuallySettled`.

### IngestTransactions and IdempotentStore

Every writer has an open transaction: `held` are the keys it has inserted,
`touched` the fingerprint rows it has updated. Of a run, `todo` are the rows of the
snapshot still to store, `written` those it has stored in its open transaction,
and `captured` the `query_metrics` rows its last transaction has committed. One action is one SQL statement
of `ingest_query_event` or `run_collection`. An insert waits while another open
transaction holds the key, then succeeds or fails with a unique violation; an
update waits for another update. `DeadlockVictim` is PostgreSQL failing one
transaction of a cycle of waits. `Fail` is the except branch of
`_process_with_retry`; a run is never retried.

Abstractions: READ COMMITTED statements are atomic; a regression is one row per
event, present or not; `Detect` stands for plan, regression and diagnostic rows,
which have no unique key; regression rows of collection runs are not counted;
the KEY SHARE lock of a foreign key does not conflict with an update of
`last_seen_at`. Dead-lettering is the business of `TelemetryConsumer`: here an
exhausted delivery just ends.

`IdempotentStore` is the promise: an event is stored once, in one step with its
fingerprint and regression; a collection run is asked to store a snapshot
(`StoreAsk`) and then stores, in one step, every row of it in order and all their
fingerprints (`StoreRun`), or nothing (`StoreNothing`). `ImplementsStore` (an
INSTANCE WITH the committed tables, and `written \o todo` for what the run was
asked) says that `IngestTransactions` implements it. A run that committed row by
row, or a prefix of its snapshot, would not. The other properties: `RacesBounded`,
`WorkersNeverDeadlock`, `WritersFinish`, and the violated
`RegressionCounterExact`.

### ReportGeneration

One action is one statement of `generate_report`; between `ReadEvidence` and
`StartDelete` the provider chain of `_llm` runs. DELETE is two steps: it picks
committed rows, waits for transactions that have deleted one of them, and skips
the rows that are gone. A GET changes nothing. The requests are the places of the
pool in which requests run. Abstraction: the rows a DELETE has picked are locked in
one step at its end, so two DELETEs with the same target never deadlock (they
meet the rows in the same order).

Properties: `DuplicatesBounded`, `ReportsKept`, `RequestsFinish`, and the
violated `AtMostOneReport`.

### PlanRules and RegressionScenarios

`ParseExplain`, `DetectRegressions`, `DiagnoseQuery`, `RecommendForQuery` and
`AgentReport` are the functions of the source with their thresholds, order and
severity sort. The seven `REGRESSION_` settings of `config.py:42-48` are
constants; the other thresholds are fixed in the code and here. Times, costs
and ratios are natural numbers where the code has floats, and the severity of a
vector bypass is one of the four levels the sort knows, although the setting may
be any text. A plan tree is the sequence of its nodes in pre-order with parent
indices, which makes the recursive walks of the source quantifiers. Of a query's text the
model keeps which of the looked-for words it holds. Ratios are cross-multiplied,
so nothing is rounded. `RegressionScenarios` are the labelled scenarios of
`scripts/evaluate_regression_detection.py`; that all of them are detected
(`README.md:108`) is an ASSUME which TLC evaluates.

### QueryInsights

The rows and requests of one query; every statement of the source selects by
fingerprint. A writer begins a transaction (`Begin`), reads the latest metric, and
`Capture` reads the latest plan, compares, diagnoses and adds one row to the transaction; `Commit`
makes the rows visible, `Rollback` drops them. An event carries its own
`captured_at`, at most `MaxLate` older than its transaction; a collection run
dates all its rows by its begin. A request executes the statements of its
endpoint (`Statements`) one by one, each on its own snapshot. Where the ORDER BY
of the source leaves ties, any row may come first; of the stored diagnoses a
response lists the `DiagnosesShown` newest.

Abstractions: a row holds metric, plan, regressions and diagnoses of one
capture; the `try` around `diagnose_query` in `streaming/ingest.py:179-189` and
`core/collector.py:289-299`, which stores the regressions without diagnoses when
it raises, is left out; the text of an event is that of its fingerprint, and its
`is_vector_query`, which the C++ collector sets when it finds an operator
(`collector/src/main.cpp`), is true exactly if that text has one; a request that fails in the rules is left out (the rules do not
raise on the rows that are stored); `get_query_recommendations` and
`get_query_agent_report` read alike and are one kind of request.

Properties: `RulesAgree`, `RegressionsCoverShown`, `DiagnosesCoverShown`,
`QuietWhenStoredQuiet`, `AdviceAgrees`, `ComparedWithNewest`, and the violated
`ListedOnce`. Two disagreements of the rules are part of the
properties, not left out of them. `RulesAgree`, which looks at the rows
of open transactions, where it is known who captured them: a vector bypass that a run captures is
diagnosed and never raised (section 6). `AdviceAgrees`: an estimate of 0 rows counts
as 1 in `core/diagnostics.py:107` and as none in `core/recommendations.py:77`, so a
misestimate of 0 rows is diagnosed and gets no advice to refresh the statistics.

### InvestigationReport, Investigation, GroundedAnswers, InvestigationCases

`InvestigationReport` holds the pure part: the evidence bundle with its signal
inventory, the heuristic report (which evidence is kept, confidence, risk,
priority, index and rewrite advice) and the grounding check `Rejected`. A signal is a pair
of family and name; of a text only whether it holds a forbidden phrase is kept,
and whether the query uses a vector operator or placement words. The query and
the quoted reason stand for all texts the heuristic report repeats: titles of
stored diagnostics, messages of regressions and names of plan nodes are in the
searched text too, but are PlanTrace's or PostgreSQL's own words and taken to hold
no forbidden phrase. Evidence and citations of a model are sets, where
`_check_evidence_grounding` counts list items, so a model that repeats one item
passes the code's count of two and not the model's; signals are compared as they
are, without the code's lower-casing.

`Investigation` is the service: captures commit (`CaptureCommits`) between the
four reads of `build_evidence_bundle`; the providers are asked in turn, each may
answer with any of `Answers` or fail with a text that may quote a forbidden
phrase; `Accept` and `Reject` are the grounding check; `Respond` adjusts the
source. `InvestigateBundle` is the entry the evaluation script uses.
`GroundedAnswers` is the promise: a request is answered at most once and cites
only what it has read. `AnswersAreGrounded` maps the service onto it.

Abstractions: the steps of the workflow graph that change nothing the properties
see (signal summary, schema validation of a report that already has the schema)
are part of their neighbours; a provider call that times out is a failed call;
the provider's own name is kept, the model's is not.

Properties: `CitationsGrounded`, `AnswersWouldPass`, `SourceTruthful`,
`EnoughEvidenceIsUsed`, `HeuristicsGetFullMarks` (what
`scripts/evaluate_query_investigator.py` finds for its golden bundles, asked of
every answer that no provider wrote), `RequestsAnswered`,
`AnswersAreGrounded`, and the violated `VectorRewriteFits`.

### BenchmarkRun

One action per helper of `main`, a `Fail` anywhere in its `try` block, and the
consumer as the environment. The lock belongs to the session of the engine that
took it. Property: the violated `MeasuresAlone`.

### Placement

`Init` draws a scenario (as `build_scenario` does from its seed) and an
algorithm; `Assign` places the next tenant; `SearchMove` is one iteration of the
`while` of `_local_search`, `AnnealRound` one of the 60 rounds of
`_simulated_annealing`. `tenants` and `used` are kept apart, as in
`NodeCapacity`. Resources are exact integers, and overload scores are scaled by
`Unit`, a multiple of every capacity, so that comparisons are exact; the
tolerance `1e-6` is then nothing. Which node has the best weighted score is
data: a best node may be any eligible one. The order of a node's tenant list,
which picks one of several improving moves, is left open too. Latency and the
comparison figures are left out.

Properties: `PlacedOnce`, `UsedIsSum`, `RegionKept`, `NoCandidateWorsens`,
`NoNewOverload`, `OverloadFalls`, `Returns`.

## 3. Runs

| Run | Instance | Shows |
|---|---|---|
| `consumer` | 2 partitions, 2 query events of one id, a malformed message, a heartbeat; batches of 2, 1 retry; 2 failed attempts, 1 outage, 1 end of the process | the four safety properties under every order of commits, faults, stops, crashes and restarts; refinement of `BoundedLossDelivery`; a batch never wedges the loop; every record after the starting position is settled while the task lives |
| `ingest_safety` | 2 workers, 2 runs, 2 events, 2 fingerprints, snapshots in either order or with one query twice; 3 deliveries, 2 runs, 1 fault, 2 retries | refinement of `IdempotentStore` (an event once, a run's snapshot as a whole or not at all), at most two lost races per delivery, workers never in a deadlock |
| `ingest_liveness` | 2 deliveries, 2 runs with opposite orders, no other fault | every delivery and run ends although runs deadlock |
| `regression_counter` (violated) | 2 workers, 1 failed statement | a failed commit and its retry count one regression twice |
| `reports` | 2 requests at once, 5 in all, 2 providers, 2 failures | duplicates never exceed the overlap, a report is never lost, every request ends |
| `report_upsert` (violated) | 2 requests | two overlapping requests leave two reports |
| `insights` | an event stream, a collection run, 3 transactions, events up to one transaction late, 4 kinds of capture, a plain and a vector query, 1 request | the rule sets agree but for the two cases named in section 2, both of which occur, and responses put together from several snapshots hide nothing |
| `listed_twice` (violated) | 1 transaction of a run with two statements of one fingerprint | the list shows a query twice |
| `investigation` | 1 request, 2 captures of 3 kinds, the golden bundles of the evaluation script and 4 more, 3 settings, 7 answers | grounding, honest source, enough evidence is used, heuristic answers get full marks, every request is answered, refinement of `GroundedAnswers` |
| `vector_rewrite` (violated) | the same | the heuristics advise a vector rewrite of a query without a vector operator |
| `placement` | 3 nodes in 2 regions, 4 tenants of 3 sizes, 3 regions to prefer, all algorithms, 3 annealing rounds | all placement properties over all scenarios of that size |
| `benchmark_lock` (violated) | 2 runs of 1 event | a second benchmark deletes the rows of the first |

Why the bounds are enough. In the consumer an offset can be at risk only while a
batch is in process; batches of two over two partitions contain every split of a
batch, one end of the process allows a loss or a redelivery, and
two failed attempts exhaust one retry. For writers, a race needs two parties, a
deadlock two runs and two rows, a duplicate two deliveries, and the third
delivery follows a completed one. Two overlapping reports show one DELETE waiting
for another, and five in all let a place of the pool be used again; any number
is proved. A capture compares itself with one earlier row, so three transactions
contain every order of a row, its predecessor and a late one, and a request sees
at most these. With siblings the insights run would only repeat what
`listed_twice` shows, so `MaxSiblings` is 1 there and 2 here. Investigations
share no state, so one request shows what any number does (which is proved);
two captures are what the two newest plans and a torn bundle take. The windows of
six metrics and eight rows are in the model but not reached. A response lists
fifty stored diagnoses; the runs set `DiagnosesShown` to 4, so that the limit does
cut, and the proofs leave it open. Four tenants fill two nodes of a region, overload one and
leave something to move. Symmetry is used only in `ingest_safety`, with
permutations that leave every other constant as it is, and never with liveness.

`CHECK_DEADLOCK FALSE` stands where a budget or the algorithm itself ends.

## 4. Fairness

* Consumer: weak fairness of the task's own step. The event loop resumes a task
  whose await is over; database calls return or raise; getmany, the lag lookup
  and `send_and_wait` have client timeouts. Nothing is assumed of producers, of
  background commits, faults, stops, crashes or restarts. `Poll` is fair because
  getmany returns records that are there.
* Writers: weak fairness of each writer's next statement, which is disabled while
  it waits, and of PostgreSQL's deadlock detector. Nothing of deliveries,
  collection requests and failures.
* Reports: weak fairness of each request's next step: provider calls end. That is
  what the code relies on too, because leaving the executor block joins the
  worker thread, also after the 15 s timeout.
* Investigations: weak fairness of each request's steps after its first one, on the
  same ground. Captures and new requests may stop at any time.
* Placement: the sequential program goes on until it returns.

## 5. Proofs

Each proof module shows `Init => IInv`, one lemma per action or group of actions
for `IInv /\ [Next]_vars => IInv'`, and derives the properties. Assumptions are
the named ASSUMEs of the modules: finitely many partitions or requests, disjoint
sets of records, writers and keys, at least one record per poll, at least one
node, at least one diagnosis listed, natural resource vectors, names for the fixed signals. Set sizes, retry limits, logs, snapshots,
rows, thresholds, provider chains and scenarios are arbitrary. Every invariant, action
property and refinement that a passing run checks is a theorem.

* **TelemetryConsumer** (`TypeCorrect`, `NothingSkippedInALife`, `BoundedLoss`,
  `DlqTableSound`). `IInv` adds the order of the offsets (`base <= next <= position`,
  `committed <= position`), what holds where the task stands (nothing left over
  between batches, a current record within one), and that no more records are
  unprocessed than one getmany may return. `AtMostOneBatchAtRisk` follows since the
  committed offset never passes the position. `SettledBehindLoop` must be part of
  `IInv`: a later heartbeat replaces an earlier one, and that it is still
  settled depends on the order of the log.
  `Refinement` (of `BoundedLossDelivery`) shows each step of the task to be work on
  the record at the cursor, a step past it, a restart or nothing. Besides
  `IInv` it needs `CommitsTogether`: the commits are of all partitions at once,
  hence either every partition has an offset, and a restart leaves out no more
  than the unprocessed records (`BoundedLoss` once more), or none has.
  `DeadLettersEarned` is about `MCSpec`, whose counter of failed
  attempts the property mentions; its budgets only take steps away
  (`BudgetedSteps`), so `IInv` carries over. `FailuresCounted` adds that the failures
  counted so far cover the attempts of the record in process.
* **IngestTransactions** (`TypeCorrect`, `RacesAreFew`, `NoWorkerDeadlock`,
  `Refinement`). `IInv` says that a key is committed or held by one transaction,
  never both (`LocksExclusive`), what a worker holds at each statement
  (`WorkerPlace`), that a lost race leaves a committed row which the next attempt
  finds (`RacePlace`), and that an event is stored after its fingerprint
  (`StoredTogether`). `RunPlace` says of a run that it sees the fingerprint of every
  row it has stored, and that at its COMMIT no row of the snapshot is left. A worker that waits for a fingerprint holds nothing
  that another could wait for, and one that waits for its event waits for a worker
  that has all its locks, so no cycle goes through a worker. A step of the detailed specification is
  `StoreEvent`, `StoreAsk`, `StoreRun`, `StoreNothing` or a stutter: between the two
  ends of a run only rows move from `todo` to `written` (`AskedKept`, `RowMoved`), which
  nobody else sees.
* **ReportGeneration** (`TypeCorrect`, `DuplicatesAreBounded`, `ReportsStay`). A
  request's earlier report is among the rows its DELETE picks (`OwnReportsGo`), so
  two reports never come from one place of the pool; the map from reports to
  their writers is injective, which bounds the number of reports.
* **QueryInsights** (`TypeCorrect`, `SameFindings`, `RegressionsCovered`,
  `DiagnosesCovered`, `QuietAsWriter`, `AdviceSound`, `NewestCompared`). The first
  half are lemmas about the rules: which findings `DetectRegressions`,
  `DiagnoseQuery` and `RecommendForQuery` return, and when (`DetectedTypes`,
  `DiagnosedTypes`, `Recommended`). The rest is what a row and a request know of
  a past state of the table. `RowsCompared` says of every row that its
  findings come from comparing it with a newest plan of some rows, namely of all rows before
  it if none committed in between; `OpenCompared` says the same of the rows
  of open transactions, relative to a prefix of the table. `RequestsKnown`
  goes along the statements of each endpoint: what each one returned was
  newest in a prefix no shorter than the table at the request's begin. The table only
  grows, so a newest plan of a prefix whose length lies between begin and end is
  determined when nothing commits (`QuietAsWriter`), and a
  count that is taken after the metric covers what was stored up to it
  (`RegressionsCovered`). `SameFindings` and `AdviceSound` hold because every
  stored finding comes from the rules and the rules' conditions agree, for all
  settings; where they do not agree, the theorems say by how much: the vector rule
  on the run path, and the estimate of 0 rows. `RulesAgree` is inductive with the
  types, for each capture appends a row that meets it (`RulesMeet`).
* **Investigation** (`TypeCorrect`, `HeuristicPasses`, `Grounding`, `Passing`,
  `Truth`, `EvidenceUsed`, `FullMarksEverywhere`, `Refinement`). The key is a lemma about the operators: what the heuristics make
  of any bundle is grounded, has two pieces of evidence unless it is called insufficient, and is
  never over-confident on thin evidence (`HeuristicPasses`). `IInv` then says, place by
  place, where the report at hand comes from; a report that is replaced is
  replaced by one that passes. For `EvidenceUsed` it also says that no evidence
  gets lost (`EvidenceKept`): what was available when the request began is at most
  what it has read, kind by kind, plus what the reads still to come would find now.
  A commit only adds to the latter (`AtMostGrows`: also through a window), and a read
  turns its share of the latter into the former.
* **Placement** (`TypeCorrect`, `TenantsPlacedOnce`, `UseIsAccounted`, `TenantsStayInRegion`,
  `RebalancingIsSafe`, `RebalancingDescends`, `AnnealingNeverClimbs`). A candidate has room for the
  tenant, so its score is zero before and after the move, and the score of the
  source can only fall, resource by resource. That the running totals are the sums
  (`UseIsAccounted`) needs that taking one element out of a set takes its
  term out of the sum, whichever element the definition of the sum picks first.
  `RebalancingDescends` is the safety half of `Returns`: each move of the search
  lowers the sum of all scores, a natural number, so there are finitely many.
* **FiniteSums** proves that of `SumFunctionOnSet` of the community modules
  (`SumTakesOut`). The induction theorems of the library take an operator as a
  parameter, which the provers cannot instantiate; here the induction is
  over a set of numbers (`AllNaturals`: one that holds 0 and the successor of each
  member holds all), which follows from the library's theorem on the smallest
  element of a set. The recursive definition inside the sum gets its value
  from an existence and a uniqueness lemma (`SumsExist`, `SumsAgree`). `AllSubsets`
  is the same induction over the subsets of a finite set; with it follow `SumsOfSame`
  and `SumOfNaturals`.

Model-checked only: the liveness properties (`BatchCompletes`,
`EventuallySettled`, `WritersFinish`, `RequestsFinish`, `RequestsAnswered`,
`Returns`), which are outside the prover's reach, and the five violated
properties, which are false. The evaluation's labelled scenarios and the golden
bundles are finite data that TLC evaluates.

## 6. Findings

1. `regression_counter`: `streaming/ingest.py:176` raises
   `plantrace_regression_events_total` while the row is only pending. A failed
   commit rolls the row back and the retry counts it again, against "Regression
   events created" (`observability/metrics.py:28-31`).
2. `report_upsert`: "upsert: delete old report for this fingerprint, insert new"
   (`api/reports.py:50`) is not an upsert. The DELETE of the second of two
   overlapping requests does not see the first one's new row.
3. `vector_rewrite`: every index recommendation has an `operator_class`, so the test
   in `ai/heuristics.py:342` is true for the btree one too, and a plain query on
   a sequential scan is told to rewrite itself as a vector search, against "Return
   rewrite and index guidance only when the bundle supports it"
   (`ai/service.py:132`).
4. `listed_twice`: the subquery "latest metric per fingerprint"
   (`api/queries.py:51`) has two rows if two metrics share the greatest
   `captured_at`, as two statements of one collection run do; the query is listed and
   counted twice.
5. `benchmark_lock`: `acquire_benchmark_lock` disposes of the engine whose session
   holds the advisory lock, so the lock is gone when the benchmark starts and
   nothing refuses a second one
   (`bench/telemetry_benchmark.py:91-93`).

One more disagreement has no run of its own, because the passing run `insights` and
the theorem `SameFindings` state it as the code has it: `core/collector.py:274` does
not pass `is_vector_query`, so for what a collection run captures the detector's
vector rule is dead, while `core/diagnostics.py:216` diagnoses the same row as
critical. "Detects deterministic regressions: ... pgvector / HNSW bypass"
(`README.md:33-39`) is true of events only.

Not findings, but worth knowing. The random acceptance of the annealing never has
an effect (`NoCandidateWorsens`). A consumer whose start-up fails in
`producer.start()` leaves an open consumer that commits offsets. The loss of up
to one batch at a crash is what `enable_auto_commit` means; the specification
makes the bound exact. `model_name` of a report names the preferred provider, whoever wrote
the text. A late event is compared with a newer snapshot. An estimate of 0
rows, which PostgreSQL gives only where it expects none at all, is diagnosed as
off when rows come, but `recommend_for_query` takes it for missing and does not
advise ANALYZE (`core/recommendations.py:77`). If a capture commits
between the two plan statements of the diagnostics endpoint, the latest plan can be
its own predecessor (`QuietWhenStoredQuiet` excludes just that).

## 7. Not modelled, and what could follow

Not modelled:

* Fingerprinting (`core/fingerprint.py`, the collector's normaliser): rewriting of
  text by regular expressions, which a model would only repeat.
* `_run_explain`: it yields a plan tree or none. Its savepoints and prepared
  statements leave traces in a session that nothing else modelled here reads.
* The connection pool: requests keep a connection while they ask a model. Its
  effect, an attempt that fails, is part of `TelemetryConsumer`.
* The collector's local queue and flush timeout: what is dropped there never reaches
  the topic, where `TelemetryConsumer` begins. Likewise several collector
  services whose heartbeats arrive out of order.
* Endpoints of a single stateless read (`get_metrics`, `get_plans`,
  `get_latest_plan`, lists of regressions and collectors), demo data, workload
  generator, frontend, metric declarations, routing.
* The wording of reports, prompts and messages, and Kafka's group rebalancing.

What could follow, in this order: the pool composed with the consumer, where a
checkout timeout is a failed attempt; `_run_explain` inside the transaction of a
collection run; several collector services and consumers, whose heartbeats
overwrite each other out of order; a lock that survives the benchmark, with mutual
exclusion as a theorem. Left to prove: more about the pure rules (the confidence
and risk of heuristic reports as functions of their evidence, the monotonicity of
the detector in its thresholds).
