------------------------ MODULE RegressionScenarios ------------------------
(***************************************************************************)
(* The labelled scenarios of scripts/evaluate_regression_detection.py.     *)
(***************************************************************************)
EXTENDS PlanRules

Measured(mean, calls, temp) == [mean |-> mean, calls |-> calls, rows |-> calls, temp |-> temp]
Steady == Measured(10, 100, 0)

Scanned(seq, cost, actual, est) ==
    [seq |-> seq, idx |-> ~seq, cost |-> cost, act |-> actual, est |-> est,
     top |-> IF seq THEN "Seq Scan" ELSE "Index Scan"]
OnIndex == Scanned(FALSE, 10, 10, 10)
OnTable == Scanned(TRUE, 10, 10, 10)

Scenario(expected, prevM, newM, prevP, newP, isVector) ==
    [expected |-> expected,
     found |-> DetectRegressions(prevM, newM, prevP, newP, isVector)]

Scenarios == {
    Scenario("none", Steady, Steady, OnIndex, OnIndex, FALSE),
    Scenario("index_scan_to_seq_scan", Steady, Measured(12, 100, 0), OnIndex, OnTable, FALSE),
    Scenario("vector_hnsw_index_bypass", Steady, Measured(12, 100, 0), OnIndex, OnTable, TRUE),
    Scenario("severe_latency_spike", Steady, Measured(55, 100, 0), OnIndex, OnIndex, FALSE),
    Scenario("latency_spike", Steady, Measured(25, 100, 0), OnIndex, OnIndex, FALSE),
    Scenario("row_estimate_mismatch", Steady, Steady, OnIndex, Scanned(FALSE, 10, 2000, 50), FALSE),
    Scenario("temp_spill", Measured(10, 100, 100), Measured(10, 100, 2200), OnIndex, OnIndex, FALSE),
    Scenario("cost_spike", Steady, Steady, Scanned(FALSE, 100, 10, 10),
             Scanned(FALSE, 250, 10, 10), FALSE),
    Scenario("call_spike", Measured(10, 10, 0), Measured(10, 30, 0), OnIndex, OnIndex, FALSE)}

Detected(s) == IF s.found = <<>> THEN "none" ELSE s.found[1].type

\* Precision and recall of the evaluation are 1.
Perfect == \A s \in Scenarios : Detected(s) = s.expected
=============================================================================
