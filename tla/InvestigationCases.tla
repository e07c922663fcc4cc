------------------------ MODULE InvestigationCases -------------------------
(***************************************************************************)
(* The golden bundles of scripts/evaluate_query_investigator.py.           *)
(***************************************************************************)
EXTENDS InvestigationReport

Plan(seq, idx, actual, estimated, node) ==
    [seq |-> seq, idx |-> idx, top |-> node, act |-> actual, est |-> estimated]

Row(type, severity) == [type |-> type, severity |-> severity]

PlainQuery == [operator |-> FALSE, placement |-> FALSE, banned |-> FALSE]
TenantQuery == [PlainQuery EXCEPT !.placement = TRUE]
VectorQuery == [PlainQuery EXCEPT !.operator = TRUE]

\* What the cases share: three samples, two plans, a diagnostic, a regression.
Case(query, means, latest, previous, diagnostic, regression) ==
    [means |-> means, latest |-> latest, previous |-> previous,
     diagnostics |-> <<diagnostic>>, regressions |-> <<regression>>,
     focus |-> NoFocus, query |-> query]

Thin ==
    [means |-> <<>>, latest |-> NoPlan, previous |-> NoPlan, diagnostics |-> <<>>,
     regressions |-> <<>>, focus |-> NoFocus, query |-> PlainQuery]

RowEstimate == Case(PlainQuery, <<1200, 2000, 7200>>,
    Plan(TRUE, FALSE, 2200, 140, "Seq Scan"), Plan(FALSE, TRUE, 220, 180, "Index Scan"),
    Row("row_estimate_mismatch", "medium"), Row("latency_spike", "high"))

PlacementCase == Case(TenantQuery, <<1000, 1800, 5800>>,
    Plan(TRUE, FALSE, 1800, 140, "Seq Scan"), Plan(FALSE, TRUE, 220, 180, "Index Scan"),
    Row("row_estimate_mismatch", "medium"), Row("latency_spike", "high"))

TempSpill == Case(TenantQuery, <<2200, 5400, 14600>>,
    Plan(TRUE, FALSE, 3400, 220, "HashAggregate"), Plan(FALSE, TRUE, 340, 210, "Index Scan"),
    Row("temp_sort_hash_spill", "high"), Row("temp_spill", "high"))

NestedLoop == Case(PlainQuery, <<3100, 9500, 22800>>,
    Plan(TRUE, FALSE, 18000, 280, "Nested Loop"), Plan(FALSE, TRUE, 1600, 220, "Hash Join"),
    Row("nested_loop_explosion", "critical"), Row("nested_loop_explosion", "critical"))

VectorBypass == Case(VectorQuery, <<1400, 2800, 8900>>,
    Plan(TRUE, FALSE, 2200, 90, "Seq Scan"), Plan(FALSE, TRUE, 140, 80, "Index Scan"),
    Row("vector_hnsw_bypass", "high"), Row("vector_hnsw_bypass", "high"))

IndexToSeq == Case(PlainQuery, <<1000, 2100, 6800>>,
    Plan(TRUE, FALSE, 4400, 300, "Seq Scan"), Plan(FALSE, TRUE, 520, 260, "Index Scan"),
    Row("seq_scan_fallback", "medium"), Row("index_to_seq", "high"))

CallSpike == Case(TenantQuery, <<900, 1100, 1500>>,
    Plan(FALSE, TRUE, 340, 300, "Index Scan"), Plan(FALSE, TRUE, 320, 280, "Index Scan"),
    Row("call_spike", "medium"), Row("call_spike", "medium"))

CostSpike == Case(PlainQuery, <<1600, 3700, 11200>>,
    Plan(TRUE, FALSE, 3800, 260, "Sort"), Plan(FALSE, TRUE, 180, 220, "Index Scan"),
    Row("cost_spike", "medium"), Row("cost_spike", "high"))

MissingIndexCandidate == Case(PlainQuery, <<1400, 2900, 8400>>,
    Plan(TRUE, FALSE, 2600, 180, "Seq Scan"), Plan(FALSE, TRUE, 180, 160, "Index Scan"),
    Row("missing_index_candidate", "medium"), Row("missing_index_candidate", "high"))

BadVectorOperator == Case(VectorQuery, <<1100, 2000, 6200>>,
    Plan(TRUE, FALSE, 1200, 70, "Seq Scan"), Plan(FALSE, TRUE, 90, 80, "Index Scan"),
    Row("vector_operator_mismatch", "high"), Row("vector_operator_mismatch", "high"))

Latency == Case(PlainQuery, <<1200, 2000, 7200>>,
    Plan(TRUE, FALSE, 2200, 140, "Seq Scan"), Plan(FALSE, TRUE, 220, 180, "Index Scan"),
    Row("row_estimate_mismatch", "medium"), Row("latency_spike", "high"))

GoldenBundles == {Thin, PlacementCase, Latency, RowEstimate, TempSpill, NestedLoop,
    VectorBypass, IndexToSeq, CallSpike, CostSpike, MissingIndexCandidate,
    BadVectorOperator}
=============================================================================
