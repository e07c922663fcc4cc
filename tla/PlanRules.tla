----------------------------- MODULE PlanRules -----------------------------
(***************************************************************************)
(* The rules PlanTrace applies to metrics and plans, as operators: parsing *)
(* an EXPLAIN tree (core/explain_parser.py), regressions against the       *)
(* previous snapshot (core/regression_detector.py), diagnoses              *)
(* (core/diagnostics.py), recommendations (core/recommendations.py) and    *)
(* the deterministic agent report (core/performance_agent.py).             *)
(*                                                                         *)
(* A plan tree is the sequence of its nodes in pre-order, every node with  *)
(* the index of its parent; <<>> is the absent plan.  Of the query's text  *)
(* the model keeps which of the looked-for words it holds.  Confidences    *)
(* are hundredths.                                                         *)
(***************************************************************************)
EXTENDS Integers, Sequences, FiniteSets, FiniteSetsExt

CONSTANTS
    Unknown, NoMetric, NoPlan,  \* the Nones of numbers, metrics and plans
    \* The REGRESSION_ settings.
    LatencyRatioMedium, LatencyRatioHigh, RowEstimateRatio, TempBlksDelta,
    CallRatio, CostRatio, HnswSeverity

Severities == {"critical", "high", "medium", "low"}

ASSUME RulesAssumption ==
    /\ {LatencyRatioMedium, LatencyRatioHigh, RowEstimateRatio, TempBlksDelta,
        CallRatio, CostRatio} \subseteq Nat
    /\ HnswSeverity \in Severities

Texts == {t \in [operator : BOOLEAN,    \* <->, <#> or <=>
                 where : BOOLEAN,       \* " where "
                 shape : BOOLEAN,       \* where, join, like or ilike
                 vector : BOOLEAN] :    \* the word "vector"
            t.where => t.shape}

Figures == Nat \cup {Unknown}
Metrics == [calls : Nat, mean : Nat, rows : Nat, temp : Nat]
Nodes == [type : STRING, act : Figures, est : Figures, cost : Figures,
          temp : Nat, sort : Nat, batches : Nat, parent : Nat]
Plans == [top : STRING \cup {Unknown}, seq : BOOLEAN, idx : BOOLEAN,
          cost : Figures, act : Figures, est : Figures]

RegressionTypes == {"vector_hnsw_index_bypass", "severe_latency_spike",
    "index_scan_to_seq_scan", "latency_spike", "row_estimate_mismatch", "temp_spill",
    "cost_spike", "call_spike"}
DiagnosisTypes == {"row_estimate_mismatch", "seq_scan_fallback", "missing_index_candidate",
    "nested_loop_explosion", "temp_sort_hash_spill", "vector_hnsw_bypass"}
Findings == [type : RegressionTypes \cup DiagnosisTypes,
             severity : Severities]

When(condition, x) == IF condition THEN <<x>> ELSE <<>>
Known(x) == x # Unknown
OrZero(x) == IF Known(x) THEN x ELSE 0

-----------------------------------------------------------------------------
(* parse_explain.                                                          *)

IndexNodeTypes == {"Index Scan", "Index Only Scan", "Bitmap Index Scan"}

ParseExplain(tree) ==
    IF tree = <<>>
    THEN [top |-> Unknown, seq |-> FALSE, idx |-> FALSE, cost |-> Unknown,
          act |-> Unknown, est |-> Unknown]
    ELSE LET types == {tree[i].type : i \in DOMAIN tree} IN
         [top |-> tree[1].type, seq |-> "Seq Scan" \in types,
          idx |-> types \cap IndexNodeTypes # {}, cost |-> tree[1].cost,
          act |-> tree[1].act, est |-> tree[1].est]

-----------------------------------------------------------------------------
(* detect_regressions.                                                     *)

\* new is at least ratio times old, and there is an old value to compare with.
Grew(old, new, ratio) == old > 0 /\ new >= ratio * old

\* actual is at least ratio times estimated, which counts as one if it is less.
OffBy(actual, estimated, ratio) ==
    /\ Known(actual) /\ Known(estimated)
    /\ actual >= ratio * (IF estimated < 1 THEN 1 ELSE estimated)

CostGrew(prev, new) ==
    OrZero(new.cost) > 0 /\ Grew(OrZero(prev.cost), OrZero(new.cost), CostRatio)

Finding(type, severity) == [type |-> type, severity |-> severity]

\* The rules as the closing stable sort by severity leaves them, gravest first:
\* the severity of a finding depends on its type alone, that of a bypass on the
\* settings.
DetectRegressions(prevM, newM, prevP, newP, isVector) ==
    LET compared == prevM # NoMetric
        planned == prevP # NoPlan /\ newP # NoPlan
        severe == compared /\ Grew(prevM.mean, newM.mean, LatencyRatioHigh)
        slower == compared /\ ~severe /\ Grew(prevM.mean, newM.mean, LatencyRatioMedium)
        spilled == compared /\ newM.temp - prevM.temp >= TempBlksDelta
        busier == compared /\ ~severe /\ Grew(prevM.calls, newM.calls, CallRatio)
        bypassed == isVector /\ planned /\ prevP.idx /\ newP.seq
        Bypass(level) == When(bypassed /\ HnswSeverity = level,
                              Finding("vector_hnsw_index_bypass", level))
    IN    Bypass("critical")
       \o When(severe, Finding("severe_latency_spike", "high"))
       \o When(planned /\ prevP.idx /\ newP.seq /\ ~newP.idx,
               Finding("index_scan_to_seq_scan", "high"))
       \o Bypass("high")
       \o When(slower, Finding("latency_spike", "medium"))
       \o Bypass("medium")
       \o When(newP # NoPlan /\ OffBy(newP.act, newP.est, RowEstimateRatio),
               Finding("row_estimate_mismatch", "medium"))
       \o When(spilled, Finding("temp_spill", "medium"))
       \o When(planned /\ CostGrew(prevP, newP), Finding("cost_spike", "medium"))
       \o Bypass("low")
       \o When(busier, Finding("call_spike", "low"))

-----------------------------------------------------------------------------
(* diagnose_query.                                                         *)

Misestimated(plan) == plan # NoPlan /\ OffBy(plan.act, plan.est, 10)

FellBack_MixedPlan(previous, plan) ==
    previous # NoPlan /\ plan # NoPlan /\ previous.idx /\ plan.seq

FellBack(previous, plan) ==
    previous # NoPlan /\ plan # NoPlan /\ previous.idx /\ plan.seq /\ ~plan.idx

\* A zero in "Actual Rows" is falsy: the estimate stands in for it.
RowsOf(node) == IF OrZero(node.act) > 0 THEN node.act ELSE OrZero(node.est)

Exploded(tree) ==
    \E i \in DOMAIN tree : \E child \in DOMAIN tree :
        /\ tree[i].type = "Nested Loop"
        /\ tree[child].parent = i
        /\ RowsOf(tree[child]) >= 1000
        /\ RowsOf(tree[child]) >= 5 * (IF RowsOf(tree[i]) < 1 THEN 1 ELSE RowsOf(tree[i]))

Spilled(tree) ==
    \/ \E i \in DOMAIN tree : tree[i].temp >= 1 \/ tree[i].batches > 1
    \/ MapThenSumSet(LAMBDA i : tree[i].sort, DOMAIN tree) >= 1024

ManyRows(metric, plan) ==
    \/ metric # NoMetric /\ metric.rows >= 1000
    \/ OrZero(plan.act) >= 1000
    \/ OrZero(plan.est) >= 1000

DiagnoseQuery_OtherScale(text, metric, plan, previous, tree) ==
    When(Spilled(tree), Finding("temp_sort_hash_spill", "warning"))

\* Each type is reported once, so the order is that of the types.
DiagnoseQuery(text, metric, plan, previous, tree) ==
       When(Misestimated(plan), Finding("row_estimate_mismatch", "medium"))
    \o When(FellBack(previous, plan), Finding("seq_scan_fallback", "high"))
    \o When(plan # NoPlan /\ plan.seq /\ text.shape /\ ManyRows(metric, plan),
            Finding("missing_index_candidate", "medium"))
    \o When(Exploded(tree), Finding("nested_loop_explosion", "high"))
    \o When(Spilled(tree), Finding("temp_sort_hash_spill", "medium"))
    \o When(plan # NoPlan /\ text.operator /\ plan.seq /\ previous # NoPlan
            /\ previous.idx, Finding("vector_hnsw_bypass", "critical"))

-----------------------------------------------------------------------------
(* recommend_for_query and build_performance_agent_report.                 *)

\* regression: the type of the regression to advise on, "none" without one.
RecommendForQuery_FarEstimate(text, metric, plan, regression) ==
    LET seq == plan # NoPlan /\ plan.seq
        measured == metric # NoMetric
    IN    When(seq /\ text.where /\ measured /\ metric.rows >= 1000,
               "seq-scan-index-suggestion")
       \o When(measured /\ metric.temp > 0, "temp-spill-memory-tuning")
       \o When(regression = "vector_hnsw_index_bypass" \/ (seq /\ text.vector),
               "vector-index-compatibility")
       \o When(plan # NoPlan /\ OrZero(plan.est) > 0 /\ OffBy(plan.act, plan.est, 100),
               "stale-statistics")
       \o When(measured /\ plan # NoPlan /\ regression = "latency_spike",
               "latency-spike-investigation")

RecommendForQuery(text, metric, plan, regression) ==
    LET seq == plan # NoPlan /\ plan.seq
        measured == metric # NoMetric
    IN    When(seq /\ text.where /\ measured /\ metric.rows >= 1000,
               "seq-scan-index-suggestion")
       \o When(measured /\ metric.temp > 0, "temp-spill-memory-tuning")
       \o When(regression = "vector_hnsw_index_bypass" \/ (seq /\ text.vector),
               "vector-index-compatibility")
       \o When(plan # NoPlan /\ OrZero(plan.est) > 0 /\ OffBy(plan.act, plan.est, 10),
               "stale-statistics")
       \o When(measured /\ plan # NoPlan /\ regression = "latency_spike",
               "latency-spike-investigation")

BaseConfidence(id) ==
    CASE id = "vector-index-compatibility" -> 90
      [] id = "latency-spike-investigation" -> 50
      [] id = "none" -> 25
      [] OTHER -> 70

AgentReport(text, metric, plan, regression) ==
    LET recs == RecommendForQuery(text, metric, plan, regression)
        top == IF recs = <<>> THEN "none" ELSE recs[1]
        warned == plan = NoPlan \/ metric = NoMetric \/ recs = <<>>
    IN [recommendation |-> top, warned |-> warned,
        confidence |-> IF warned THEN Min({BaseConfidence(top), 55})
                       ELSE BaseConfidence(top)]
=============================================================================
