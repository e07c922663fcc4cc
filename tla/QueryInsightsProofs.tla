------------------------- MODULE QueryInsightsProofs -------------------------
(***************************************************************************)
(* Proofs about QueryInsights for every number of writers and requests and *)
(* every set of captures: what the two rule sets find agrees, and what a   *)
(* response shows covers what was recorded with it, although every one of  *)
(* its statements reads a snapshot of its own.                             *)
(***************************************************************************)
EXTENDS QueryInsights, FiniteSums, SequenceTheorems

-----------------------------------------------------------------------------
(* What the rules find.                                                    *)

\* A rule adds the type of its finding if its condition holds.
LEMMA FirstFinding ==
    ASSUME NEW c,
           NEW t \in RegressionTypes \cup DiagnosisTypes,
           NEW severity \in {"critical", "high", "medium", "low"}
    PROVE  /\ When(c, Finding(t, severity)) \in Seq(Findings)
           /\ Types(When(c, Finding(t, severity))) = IF c THEN {t} ELSE {}
<1> DEFINE f == Finding(t, severity)
           w == When(c, f)
<1>1. f \in Findings /\ f.type = t
  BY DEF Finding, Findings, Severities
<1> HIDE DEF f
<1>2. w \in Seq(Findings) /\ Range(w) = IF c THEN {f} ELSE {}
  BY <1>1 DEF When, Range
<1>3. Types(w) = IF c THEN {t} ELSE {}
  BY <1>1, <1>2 DEF Types
<1> QED BY <1>2, <1>3 DEF w, f

\* One more finding, when its condition holds.
LEMMA AddFinding ==
    ASSUME NEW s \in Seq(Findings), NEW c,
           NEW t \in RegressionTypes \cup DiagnosisTypes,
           NEW severity \in {"critical", "high", "medium", "low"}
    PROVE  /\ s \o When(c, Finding(t, severity)) \in Seq(Findings)
           /\ Types(s \o When(c, Finding(t, severity))) = Types(s) \cup (IF c THEN {t} ELSE {})
<1> DEFINE w == When(c, Finding(t, severity))
<1>1. w \in Seq(Findings) /\ Types(w) = IF c THEN {t} ELSE {}
  BY FirstFinding
<1> HIDE DEF w
<1>2. s \o w \in Seq(Findings)
  BY <1>1, ConcatProperties
<1>3. Range(s \o w) = Range(s) \cup Range(w)
  BY <1>1, RangeConcatenation
<1>4. Types(s \o w) = Types(s) \cup Types(w)
  BY <1>3 DEF Types
<1> QED BY <1>1, <1>2, <1>4 DEF w

\* The same for a rule that advises.
LEMMA AddAdvice ==
    ASSUME NEW S, NEW s \in Seq(S), NEW c, NEW x \in S
    PROVE  /\ When(c, x) \in Seq(S)
           /\ Range(When(c, x)) = IF c THEN {x} ELSE {}
           /\ s \o When(c, x) \in Seq(S)
           /\ Range(s \o When(c, x)) = Range(s) \cup (IF c THEN {x} ELSE {})
<1>1. When(c, x) \in Seq(S) /\ Range(When(c, x)) = IF c THEN {x} ELSE {}
  BY DEF When, Range
<1>2. s \o When(c, x) \in Seq(S)
  BY <1>1, ConcatProperties
<1>3. Range(s \o When(c, x)) = Range(s) \cup Range(When(c, x))
  BY <1>1, RangeConcatenation
<1> QED BY <1>1, <1>2, <1>3

\* What detect_regressions finds of the types that others look for as well.
LEMMA DetectedTypes ==
    ASSUME NEW prevM, NEW newM, NEW prevP, NEW newP, NEW isVector
    PROVE  LET found == DetectRegressions(prevM, newM, prevP, newP, isVector)
               planned == prevP # NoPlan /\ newP # NoPlan
           IN /\ found \in Seq(Findings)
              /\ "index_scan_to_seq_scan" \in Types(found)
                   <=> planned /\ prevP.idx /\ newP.seq /\ ~newP.idx
              /\ "vector_hnsw_index_bypass" \in Types(found)
                   <=> isVector /\ planned /\ prevP.idx /\ newP.seq
              /\ "row_estimate_mismatch" \in Types(found)
                   <=> newP # NoPlan /\ OffBy(newP.act, newP.est, RowEstimateRatio)
<1> DEFINE planned == prevP # NoPlan /\ newP # NoPlan
           compared == prevM # NoMetric
           severe == compared /\ Grew(prevM.mean, newM.mean, LatencyRatioHigh)
           bypassed == isVector /\ planned /\ prevP.idx /\ newP.seq
           c3 == planned /\ prevP.idx /\ newP.seq /\ ~newP.idx
           c4 == compared /\ ~severe /\ Grew(prevM.mean, newM.mean, LatencyRatioMedium)
           c5 == newP # NoPlan /\ OffBy(newP.act, newP.est, RowEstimateRatio)
           c6 == compared /\ newM.temp - prevM.temp >= TempBlksDelta
           c7 == planned /\ CostGrew(prevP, newP)
           c8 == compared /\ ~severe /\ Grew(prevM.calls, newM.calls, CallRatio)
           at(level) == bypassed /\ HnswSeverity = level
           Bypass(level) == When(at(level), Finding("vector_hnsw_index_bypass", level))
           s1 == Bypass("critical")
           s2 == s1 \o When(severe, Finding("severe_latency_spike", "high"))
           s3 == s2 \o When(c3, Finding("index_scan_to_seq_scan", "high"))
           s4 == s3 \o Bypass("high")
           s5 == s4 \o When(c4, Finding("latency_spike", "medium"))
           s6 == s5 \o Bypass("medium")
           s7 == s6 \o When(c5, Finding("row_estimate_mismatch", "medium"))
           s8 == s7 \o When(c6, Finding("temp_spill", "medium"))
           s9 == s8 \o When(c7, Finding("cost_spike", "medium"))
           s10 == s9 \o Bypass("low")
           s11 == s10 \o When(c8, Finding("call_spike", "low"))
<1>1. DetectRegressions(prevM, newM, prevP, newP, isVector) = s11
  BY DEF DetectRegressions
<1>2. bypassed \in BOOLEAN /\ c3 \in BOOLEAN /\ c5 \in BOOLEAN
  OBVIOUS
<1>3. at("critical") \/ at("high") \/ at("medium") \/ at("low") <=> bypassed
  BY RulesAssumption DEF Severities
<1> HIDE DEF bypassed, at, severe, c3, c4, c5, c6, c7, c8
<1>4. /\ <<>> \in Seq(Findings)
      /\ "vector_hnsw_index_bypass" \in RegressionTypes \cup DiagnosisTypes
      /\ "severe_latency_spike" \in RegressionTypes \cup DiagnosisTypes
      /\ "index_scan_to_seq_scan" \in RegressionTypes \cup DiagnosisTypes
      /\ "latency_spike" \in RegressionTypes \cup DiagnosisTypes
      /\ "row_estimate_mismatch" \in RegressionTypes \cup DiagnosisTypes
      /\ "temp_spill" \in RegressionTypes \cup DiagnosisTypes
      /\ "cost_spike" \in RegressionTypes \cup DiagnosisTypes
      /\ "call_spike" \in RegressionTypes \cup DiagnosisTypes
  BY DEF RegressionTypes
<1>5. /\ s1 \in Seq(Findings)
      /\ Types(s1) = IF at("critical") THEN {"vector_hnsw_index_bypass"} ELSE {}
  BY <1>4, FirstFinding
<1> HIDE DEF s1
<1>6. /\ s2 \in Seq(Findings)
      /\ Types(s2) = Types(s1) \cup IF severe THEN {"severe_latency_spike"} ELSE {}
  BY <1>4, <1>5, AddFinding
<1> HIDE DEF s2
<1>7. /\ s3 \in Seq(Findings)
      /\ Types(s3) = Types(s2) \cup IF c3 THEN {"index_scan_to_seq_scan"} ELSE {}
  BY <1>4, <1>6, AddFinding
<1> HIDE DEF s3
<1>8. /\ s4 \in Seq(Findings)
      /\ Types(s4) = Types(s3) \cup IF at("high") THEN {"vector_hnsw_index_bypass"} ELSE {}
  BY <1>4, <1>7, AddFinding
<1> HIDE DEF s4
<1>9. /\ s5 \in Seq(Findings)
      /\ Types(s5) = Types(s4) \cup IF c4 THEN {"latency_spike"} ELSE {}
  BY <1>4, <1>8, AddFinding
<1> HIDE DEF s5
<1>10. /\ s6 \in Seq(Findings)
      /\ Types(s6) = Types(s5) \cup IF at("medium") THEN {"vector_hnsw_index_bypass"} ELSE {}
  BY <1>4, <1>9, AddFinding
<1> HIDE DEF s6
<1>11. /\ s7 \in Seq(Findings)
      /\ Types(s7) = Types(s6) \cup IF c5 THEN {"row_estimate_mismatch"} ELSE {}
  BY <1>4, <1>10, AddFinding
<1> HIDE DEF s7
<1>12. /\ s8 \in Seq(Findings)
      /\ Types(s8) = Types(s7) \cup IF c6 THEN {"temp_spill"} ELSE {}
  BY <1>4, <1>11, AddFinding
<1> HIDE DEF s8
<1>13. /\ s9 \in Seq(Findings)
      /\ Types(s9) = Types(s8) \cup IF c7 THEN {"cost_spike"} ELSE {}
  BY <1>4, <1>12, AddFinding
<1> HIDE DEF s9
<1>14. /\ s10 \in Seq(Findings)
      /\ Types(s10) = Types(s9) \cup IF at("low") THEN {"vector_hnsw_index_bypass"} ELSE {}
  BY <1>4, <1>13, AddFinding
<1> HIDE DEF s10
<1>15. /\ s11 \in Seq(Findings)
      /\ Types(s11) = Types(s10) \cup IF c8 THEN {"call_spike"} ELSE {}
  BY <1>4, <1>14, AddFinding
<1> HIDE DEF s11
<1>16. /\ "index_scan_to_seq_scan" \in Types(s11) <=> c3
       /\ "vector_hnsw_index_bypass" \in Types(s11)
            <=> at("critical") \/ at("high") \/ at("medium") \/ at("low")
       /\ "row_estimate_mismatch" \in Types(s11) <=> c5
  BY <1>2, <1>5, <1>6, <1>7, <1>8, <1>9, <1>10, <1>11, <1>12, <1>13, <1>14, <1>15
<1>17. "vector_hnsw_index_bypass" \in Types(s11) <=> bypassed
  BY <1>3, <1>16
<1> QED BY <1>1, <1>15, <1>16, <1>17 DEF bypassed, c3, c5

\* The six rules of diagnose_query, whatever their conditions.
LEMMA SixRules ==
    ASSUME NEW c1 \in BOOLEAN, NEW c2 \in BOOLEAN, NEW c3 \in BOOLEAN,
           NEW c4 \in BOOLEAN, NEW c5 \in BOOLEAN, NEW c6 \in BOOLEAN
    PROVE  LET found == When(c1, Finding("row_estimate_mismatch", "medium"))
                     \o When(c2, Finding("seq_scan_fallback", "high"))
                     \o When(c3, Finding("missing_index_candidate", "medium"))
                     \o When(c4, Finding("nested_loop_explosion", "high"))
                     \o When(c5, Finding("temp_sort_hash_spill", "medium"))
                     \o When(c6, Finding("vector_hnsw_bypass", "critical"))
           IN /\ found \in Seq(Findings)
              /\ "row_estimate_mismatch" \in Types(found) <=> c1
              /\ "seq_scan_fallback" \in Types(found) <=> c2
              /\ "missing_index_candidate" \in Types(found) <=> c3
              /\ "vector_hnsw_bypass" \in Types(found) <=> c6
<1> DEFINE s1 == When(c1, Finding("row_estimate_mismatch", "medium"))
           s2 == s1 \o When(c2, Finding("seq_scan_fallback", "high"))
           s3 == s2 \o When(c3, Finding("missing_index_candidate", "medium"))
           s4 == s3 \o When(c4, Finding("nested_loop_explosion", "high"))
           s5 == s4 \o When(c5, Finding("temp_sort_hash_spill", "medium"))
           s6 == s5 \o When(c6, Finding("vector_hnsw_bypass", "critical"))
<1>1. /\ <<>> \in Seq(Findings)
      /\ "row_estimate_mismatch" \in RegressionTypes \cup DiagnosisTypes
      /\ "seq_scan_fallback" \in RegressionTypes \cup DiagnosisTypes
      /\ "missing_index_candidate" \in RegressionTypes \cup DiagnosisTypes
      /\ "nested_loop_explosion" \in RegressionTypes \cup DiagnosisTypes
      /\ "temp_sort_hash_spill" \in RegressionTypes \cup DiagnosisTypes
      /\ "vector_hnsw_bypass" \in RegressionTypes \cup DiagnosisTypes
  BY DEF DiagnosisTypes
<1>2. s1 \in Seq(Findings) /\ Types(s1) = IF c1 THEN {"row_estimate_mismatch"} ELSE {}
  BY <1>1, FirstFinding
<1> HIDE DEF s1
<1>3. /\ s2 \in Seq(Findings)
      /\ Types(s2) = Types(s1) \cup IF c2 THEN {"seq_scan_fallback"} ELSE {}
  BY <1>1, <1>2, AddFinding
<1> HIDE DEF s2
<1>4. /\ s3 \in Seq(Findings)
      /\ Types(s3) = Types(s2) \cup IF c3 THEN {"missing_index_candidate"} ELSE {}
  BY <1>1, <1>3, AddFinding
<1> HIDE DEF s3
<1>5. /\ s4 \in Seq(Findings)
      /\ Types(s4) = Types(s3) \cup IF c4 THEN {"nested_loop_explosion"} ELSE {}
  BY <1>1, <1>4, AddFinding
<1> HIDE DEF s4
<1>6. /\ s5 \in Seq(Findings)
      /\ Types(s5) = Types(s4) \cup IF c5 THEN {"temp_sort_hash_spill"} ELSE {}
  BY <1>1, <1>5, AddFinding
<1> HIDE DEF s5
<1>7. /\ s6 \in Seq(Findings)
      /\ Types(s6) = Types(s5) \cup IF c6 THEN {"vector_hnsw_bypass"} ELSE {}
  BY <1>1, <1>6, AddFinding
<1> HIDE DEF s6
<1>8. /\ "row_estimate_mismatch" \in Types(s6) <=> c1
      /\ "seq_scan_fallback" \in Types(s6) <=> c2
      /\ "missing_index_candidate" \in Types(s6) <=> c3
      /\ "vector_hnsw_bypass" \in Types(s6) <=> c6
  BY <1>2, <1>3, <1>4, <1>5, <1>6, <1>7
<1> QED BY <1>7, <1>8 DEF s1, s2, s3, s4, s5, s6

\* What the writer's diagnosis of one query finds, and when.
LEMMA DiagnosedTypes ==
    ASSUME NEW q, NEW metric, NEW plan, NEW previous, NEW tree
    PROVE  LET found == DiagnoseQuery(q, metric, plan, previous, tree)
           IN /\ found \in Seq(Findings)
              /\ "seq_scan_fallback" \in Types(found) <=> FellBack(previous, plan)
              /\ "row_estimate_mismatch" \in Types(found) <=> Misestimated(plan)
              /\ "vector_hnsw_bypass" \in Types(found)
                   <=> plan # NoPlan /\ q.operator /\ plan.seq /\ previous # NoPlan /\ previous.idx
              /\ "missing_index_candidate" \in Types(found)
                   <=> plan # NoPlan /\ plan.seq /\ q.shape /\ ManyRows(metric, plan)
<1> DEFINE c1 == Misestimated(plan)
           c2 == FellBack(previous, plan)
           c3 == plan # NoPlan /\ plan.seq /\ q.shape /\ ManyRows(metric, plan)
           c4 == Exploded(tree)
           c5 == Spilled(tree)
           c6 == plan # NoPlan /\ q.operator /\ plan.seq /\ previous # NoPlan /\ previous.idx
           found == When(c1, Finding("row_estimate_mismatch", "medium"))
                 \o When(c2, Finding("seq_scan_fallback", "high"))
                 \o When(c3, Finding("missing_index_candidate", "medium"))
                 \o When(c4, Finding("nested_loop_explosion", "high"))
                 \o When(c5, Finding("temp_sort_hash_spill", "medium"))
                 \o When(c6, Finding("vector_hnsw_bypass", "critical"))
<1>1. DiagnoseQuery(q, metric, plan, previous, tree) = found
  BY DEF DiagnoseQuery
<1>2. /\ c1 \in BOOLEAN /\ c2 \in BOOLEAN /\ c3 \in BOOLEAN
      /\ c4 \in BOOLEAN /\ c5 \in BOOLEAN /\ c6 \in BOOLEAN
  BY DEF Misestimated, FellBack, Exploded, Spilled
<1> HIDE DEF c1, c2, c3, c4, c5, c6
<1>3. /\ found \in Seq(Findings)
      /\ "row_estimate_mismatch" \in Types(found) <=> c1
      /\ "seq_scan_fallback" \in Types(found) <=> c2
      /\ "missing_index_candidate" \in Types(found) <=> c3
      /\ "vector_hnsw_bypass" \in Types(found) <=> c6
  BY <1>2, SixRules
<1> HIDE DEF found
<1> QED BY <1>1, <1>3 DEF c1, c2, c3, c6

Recommendations == {"seq-scan-index-suggestion", "temp-spill-memory-tuning",
                    "vector-index-compatibility", "stale-statistics",
                    "latency-spike-investigation"}

\* The five rules of recommend_for_query, whatever their conditions.
LEMMA FiveRules ==
    ASSUME NEW c1 \in BOOLEAN, NEW c2 \in BOOLEAN, NEW c3 \in BOOLEAN,
           NEW c4 \in BOOLEAN, NEW c5 \in BOOLEAN
    PROVE  LET recs == When(c1, "seq-scan-index-suggestion")
                    \o When(c2, "temp-spill-memory-tuning")
                    \o When(c3, "vector-index-compatibility")
                    \o When(c4, "stale-statistics")
                    \o When(c5, "latency-spike-investigation")
           IN /\ recs \in Seq(Recommendations)
              /\ "seq-scan-index-suggestion" \in Range(recs) <=> c1
              /\ "stale-statistics" \in Range(recs) <=> c4
<1> DEFINE s1 == When(c1, "seq-scan-index-suggestion")
           s2 == s1 \o When(c2, "temp-spill-memory-tuning")
           s3 == s2 \o When(c3, "vector-index-compatibility")
           s4 == s3 \o When(c4, "stale-statistics")
           s5 == s4 \o When(c5, "latency-spike-investigation")
<1>1. /\ <<>> \in Seq(Recommendations)
      /\ "seq-scan-index-suggestion" \in Recommendations
      /\ "temp-spill-memory-tuning" \in Recommendations
      /\ "vector-index-compatibility" \in Recommendations
      /\ "stale-statistics" \in Recommendations
      /\ "latency-spike-investigation" \in Recommendations
  BY DEF Recommendations
<1>2. /\ s1 \in Seq(Recommendations)
      /\ Range(s1) = IF c1 THEN {"seq-scan-index-suggestion"} ELSE {}
  BY <1>1, AddAdvice
<1> HIDE DEF s1
<1>3. /\ s2 \in Seq(Recommendations)
      /\ Range(s2) = Range(s1) \cup IF c2 THEN {"temp-spill-memory-tuning"} ELSE {}
  BY <1>1, <1>2, AddAdvice
<1> HIDE DEF s2
<1>4. /\ s3 \in Seq(Recommendations)
      /\ Range(s3) = Range(s2) \cup IF c3 THEN {"vector-index-compatibility"} ELSE {}
  BY <1>1, <1>3, AddAdvice
<1> HIDE DEF s3
<1>5. /\ s4 \in Seq(Recommendations)
      /\ Range(s4) = Range(s3) \cup IF c4 THEN {"stale-statistics"} ELSE {}
  BY <1>1, <1>4, AddAdvice
<1> HIDE DEF s4
<1>6. /\ s5 \in Seq(Recommendations)
      /\ Range(s5) = Range(s4) \cup IF c5 THEN {"latency-spike-investigation"} ELSE {}
  BY <1>1, <1>5, AddAdvice
<1> HIDE DEF s5
<1>7. /\ "seq-scan-index-suggestion" \in Range(s5) <=> c1
      /\ "stale-statistics" \in Range(s5) <=> c4
  BY <1>2, <1>3, <1>4, <1>5, <1>6
<1> QED BY <1>6, <1>7 DEF s1, s2, s3, s4, s5

\* What the advice about one query says, and when.
LEMMA Recommended ==
    ASSUME NEW q, NEW metric, NEW plan, NEW regression
    PROVE  LET recs == RecommendForQuery(q, metric, plan, regression)
               seq == plan # NoPlan /\ plan.seq
           IN /\ recs \in Seq(Recommendations)
              /\ "seq-scan-index-suggestion" \in Range(recs)
                   <=> seq /\ q.where /\ metric # NoMetric /\ metric.rows >= 1000
              /\ "stale-statistics" \in Range(recs)
                   <=> plan # NoPlan /\ OrZero(plan.est) > 0 /\ OffBy(plan.act, plan.est, 10)
<1> DEFINE seq == plan # NoPlan /\ plan.seq
           measured == metric # NoMetric
           c1 == seq /\ q.where /\ measured /\ metric.rows >= 1000
           c2 == measured /\ metric.temp > 0
           c3 == regression = "vector_hnsw_index_bypass" \/ (seq /\ q.vector)
           c4 == plan # NoPlan /\ OrZero(plan.est) > 0 /\ OffBy(plan.act, plan.est, 10)
           c5 == measured /\ plan # NoPlan /\ regression = "latency_spike"
           recs == When(c1, "seq-scan-index-suggestion")
                \o When(c2, "temp-spill-memory-tuning")
                \o When(c3, "vector-index-compatibility")
                \o When(c4, "stale-statistics")
                \o When(c5, "latency-spike-investigation")
<1>1. RecommendForQuery(q, metric, plan, regression) = recs
  BY DEF RecommendForQuery
<1>2. /\ c1 \in BOOLEAN /\ c2 \in BOOLEAN /\ c3 \in BOOLEAN
      /\ c4 \in BOOLEAN /\ c5 \in BOOLEAN
  OBVIOUS
<1> HIDE DEF c1, c2, c3, c4, c5
<1>3. /\ recs \in Seq(Recommendations)
      /\ "seq-scan-index-suggestion" \in Range(recs) <=> c1
      /\ "stale-statistics" \in Range(recs) <=> c4
  BY <1>2, FiveRules
<1> HIDE DEF recs
<1> QED BY <1>1, <1>3 DEF c1, c4

\* The agent report is without a recommendation only if there is none.
LEMMA ReportedNone ==
    ASSUME NEW q, NEW metric, NEW plan, NEW regression,
           AgentReport(q, metric, plan, regression).recommendation = "none"
    PROVE  RecommendForQuery(q, metric, plan, regression) = <<>>
<1> DEFINE recs == RecommendForQuery(q, metric, plan, regression)
<1>1. recs \in Seq(Recommendations)
  BY Recommended
<1> SUFFICES ASSUME recs # <<>> PROVE FALSE
  OBVIOUS
<1>2. recs[1] = "none"
  BY DEF AgentReport
<1>3. recs[1] \in Recommendations
  BY <1>1, EmptySeq, ElementOfSeq
<1> QED BY <1>2, <1>3 DEF Recommendations

\* A parsed tree is a plan.
LEMMA ParsedTypes ==
    ASSUME NEW tree \in Seq(Nodes)
    PROVE  ParseExplain(tree) \in Plans
<1>1. CASE tree = <<>>
  BY <1>1 DEF ParseExplain, Plans, Figures
<1>2. CASE tree # <<>>
  <2>1. tree[1] \in Nodes
    BY <1>2, EmptySeq, ElementOfSeq
  <2>2. tree[1].type \in STRING /\ tree[1].cost \in Figures /\ tree[1].act \in Figures
        /\ tree[1].est \in Figures
    BY <2>1 DEF Nodes
  <2> QED BY <1>2, <2>2 DEF ParseExplain, Plans
<1> QED BY <1>1, <1>2

\* An actual count that is off by a ratio is off by every smaller one.
LEMMA OffBySmaller ==
    ASSUME NEW plan \in Plans, NEW a \in Nat, NEW b \in Nat, a <= b,
           OffBy(plan.act, plan.est, b)
    PROVE  OffBy(plan.act, plan.est, a)
<1>1. plan.act \in Nat /\ plan.est \in Nat
  BY DEF OffBy, Known, Plans, Figures
<1> DEFINE m == IF plan.est < 1 THEN 1 ELSE plan.est
<1>2. m \in Nat
  BY <1>1
<1>3. plan.act >= b * m
  BY DEF OffBy
<1> HIDE DEF m
<1>4. a * m <= b * m /\ a * m \in Nat /\ b * m \in Nat
  BY <1>2
<1>5. plan.act >= a * m
  BY <1>1, <1>3, <1>4
<1> QED BY <1>5 DEF OffBy, m

\* What RulesAgree says of one row, stored for an event or by a run.
RowAgrees(row, forEvent) ==
    LET regressed == Types(row.regressions)
        diagnosed == Types(row.diagnoses)
    IN /\ "index_scan_to_seq_scan" \in regressed <=> "seq_scan_fallback" \in diagnosed
       /\ "vector_hnsw_index_bypass" \in regressed
            <=> forEvent /\ "vector_hnsw_bypass" \in diagnosed
       /\ RowEstimateRatio >= 10 /\ "row_estimate_mismatch" \in regressed
            => "row_estimate_mismatch" \in diagnosed
       /\ RowEstimateRatio <= 10 /\ "row_estimate_mismatch" \in diagnosed
            => "row_estimate_mismatch" \in regressed

\* It holds of a row that was compared and diagnosed with the same plans.
LEMMA RulesMeet ==
    ASSUME NEW row, NEW q, NEW metric, NEW plan \in Plans \cup {NoPlan}, NEW tree,
           NEW prevM, NEW prevP, NEW isVector, NEW forEvent,
           isVector <=> forEvent /\ q.operator,
           row.regressions = DetectRegressions(prevM, metric, prevP, plan, isVector),
           row.diagnoses = DiagnoseQuery(q, metric, plan, prevP, tree)
    PROVE  RowAgrees(row, forEvent)
<1> DEFINE regressed == Types(row.regressions)
           diagnosed == Types(row.diagnoses)
<1>1. /\ "index_scan_to_seq_scan" \in regressed
           <=> prevP # NoPlan /\ plan # NoPlan /\ prevP.idx /\ plan.seq /\ ~plan.idx
      /\ "vector_hnsw_index_bypass" \in regressed
           <=> isVector /\ prevP # NoPlan /\ plan # NoPlan /\ prevP.idx /\ plan.seq
      /\ "row_estimate_mismatch" \in regressed
           <=> plan # NoPlan /\ OffBy(plan.act, plan.est, RowEstimateRatio)
  BY DetectedTypes
<1>2. /\ "seq_scan_fallback" \in diagnosed <=> FellBack(prevP, plan)
      /\ "row_estimate_mismatch" \in diagnosed <=> Misestimated(plan)
      /\ "vector_hnsw_bypass" \in diagnosed
           <=> plan # NoPlan /\ q.operator /\ plan.seq /\ prevP # NoPlan /\ prevP.idx
  BY DiagnosedTypes
<1> HIDE DEF regressed, diagnosed
<1>3. "index_scan_to_seq_scan" \in regressed <=> "seq_scan_fallback" \in diagnosed
  BY <1>1, <1>2 DEF FellBack
<1>4. "vector_hnsw_index_bypass" \in regressed
        <=> forEvent /\ "vector_hnsw_bypass" \in diagnosed
  BY <1>1, <1>2
<1>5. RowEstimateRatio \in Nat /\ 10 \in Nat
  BY RulesAssumption
<1>6. RowEstimateRatio >= 10 /\ plan # NoPlan /\ OffBy(plan.act, plan.est, RowEstimateRatio)
        => Misestimated(plan)
  BY <1>5, OffBySmaller DEF Misestimated
<1>7. RowEstimateRatio <= 10 /\ Misestimated(plan)
        => plan # NoPlan /\ OffBy(plan.act, plan.est, RowEstimateRatio)
  BY <1>5, OffBySmaller DEF Misestimated
<1> QED BY <1>1, <1>2, <1>3, <1>4, <1>6, <1>7 DEF RowAgrees, regressed, diagnosed

-----------------------------------------------------------------------------
(* Rows.                                                                   *)

\* The first n rows: what a statement saw that ran when there were n.
Prefix(rows, n) == SubSeq(rows, 1, n)

\* Rows are only added, so what a statement saw is there for good.
LEMMA PrefixKept ==
    ASSUME NEW before \in Seq(CaptureRows), NEW rows \in Seq(CaptureRows)
    PROVE  /\ before \o rows \in Seq(CaptureRows)
           /\ Len(before) \in Nat /\ DOMAIN before = 1..Len(before)
           /\ Len(before \o rows) \in Nat /\ DOMAIN (before \o rows) = 1..Len(before \o rows)
           /\ Len(before) <= Len(before \o rows)
           /\ \A i \in DOMAIN before : (before \o rows)[i] = before[i]
           /\ \A n \in 0..Len(before) : SubSeq(before \o rows, 1, n) = SubSeq(before, 1, n)
<1> DEFINE after == before \o rows
<1>1. /\ after \in Seq(CaptureRows) /\ Len(after) = Len(before) + Len(rows)
      /\ Len(before) \in Nat /\ Len(rows) \in Nat
      /\ DOMAIN before = 1..Len(before) /\ DOMAIN after = 1..Len(after)
      /\ \A i \in 1..Len(before) : after[i] = before[i]
  BY ConcatProperties, LenProperties
<1> HIDE DEF after
<1>2. ASSUME NEW n \in 0..Len(before)
      PROVE  SubSeq(after, 1, n) = SubSeq(before, 1, n)
  <2>1. n \in Int /\ 1 \in Int /\ \A i \in 1..n : after[i] = before[i] /\ before[i] \in CaptureRows
    BY <1>1, ElementOfSeq
  <2>2. \A i \in 1..n : after[i] \in CaptureRows
    BY <2>1
  <2>3. /\ SubSeq(after, 1, n) \in Seq(CaptureRows) /\ SubSeq(before, 1, n) \in Seq(CaptureRows)
        /\ Len(SubSeq(after, 1, n)) = n /\ Len(SubSeq(before, 1, n)) = n
        /\ \A i \in 1..n : SubSeq(after, 1, n)[i] = after[i] /\ SubSeq(before, 1, n)[i] = before[i]
    BY <1>1, <2>1, <2>2, SubSeqProperties
  <2> QED BY <2>1, <2>3, SeqEqual
<1> QED BY <1>1, <1>2 DEF after

\* What a prefix of the rows holds.
LEMMA PrefixIs ==
    ASSUME NEW rows \in Seq(CaptureRows), NEW n \in 0..Len(rows)
    PROVE  /\ SubSeq(rows, 1, n) \in Seq(CaptureRows)
           /\ Len(SubSeq(rows, 1, n)) = n
           /\ DOMAIN SubSeq(rows, 1, n) = 1..n
           /\ \A i \in 1..n : SubSeq(rows, 1, n)[i] = rows[i] /\ i \in DOMAIN rows
<1>1. n \in Int /\ 1 \in Int /\ DOMAIN rows = 1..Len(rows) /\ Len(rows) \in Nat
      /\ \A i \in 1..n : rows[i] \in CaptureRows
  BY LenProperties, ElementOfSeq
<1>2. /\ SubSeq(rows, 1, n) \in Seq(CaptureRows) /\ Len(SubSeq(rows, 1, n)) = n
      /\ \A i \in 1..n : SubSeq(rows, 1, n)[i] = rows[i]
  BY <1>1, SubSeqProperties
<1> QED BY <1>1, <1>2, LenProperties

\* The image of a finite set is finite.
LEMMA FiniteImage ==
    ASSUME NEW S, IsFiniteSet(S), NEW f
    PROVE  IsFiniteSet({f[x] : x \in S})
<1> DEFINE g == [x \in S |-> f[x]]
           T == {f[x] : x \in S}
<1>1. g \in Surjection(S, T)
  BY DEF Surjection
<1> QED BY <1>1, FS_Surjection

\* Finitely many regressions and diagnoses are stored; more rows hold more.
LEMMA StoredFinite ==
    ASSUME NEW rows \in Seq(CaptureRows)
    PROVE  IsFiniteSet(Regressed(rows)) /\ IsFiniteSet(Diagnosed(rows))
<1>1. DOMAIN rows = 1..Len(rows) /\ Len(rows) \in Nat
  BY LenProperties
<1>2. \A i \in DOMAIN rows : rows[i].regressions \in Seq(Findings) /\ rows[i].diagnoses \in Seq(Findings)
  <2>1. \A i \in DOMAIN rows : rows[i] \in CaptureRows
    BY <1>1, ElementOfSeq
  <2> QED BY <2>1 DEF CaptureRows
<1>3. ASSUME NEW i \in DOMAIN rows
      PROVE  /\ IsFiniteSet({i} \X DOMAIN rows[i].regressions)
             /\ IsFiniteSet({i} \X DOMAIN rows[i].diagnoses)
  <2>1. \A found \in Seq(Findings) : IsFiniteSet(DOMAIN found)
    BY LenProperties, FS_Interval
  <2>2. IsFiniteSet({i})
    BY FS_Singleton
  <2>3. IsFiniteSet(DOMAIN rows[i].regressions) /\ IsFiniteSet(DOMAIN rows[i].diagnoses)
    BY <1>2, <2>1
  <2> QED BY <2>2, <2>3, FS_Product
<1>4. IsFiniteSet(DOMAIN rows)
  BY <1>1, FS_Interval
<1> DEFINE f == [i \in DOMAIN rows |-> {i} \X DOMAIN rows[i].regressions]
           g == [i \in DOMAIN rows |-> {i} \X DOMAIN rows[i].diagnoses]
<1>5. /\ {{i} \X DOMAIN rows[i].regressions : i \in DOMAIN rows} = {f[i] : i \in DOMAIN rows}
      /\ {{i} \X DOMAIN rows[i].diagnoses : i \in DOMAIN rows} = {g[i] : i \in DOMAIN rows}
  OBVIOUS
<1> HIDE DEF f, g
<1>6. IsFiniteSet({f[i] : i \in DOMAIN rows}) /\ IsFiniteSet({g[i] : i \in DOMAIN rows})
  BY <1>4, FiniteImage
<1> QED BY <1>3, <1>5, <1>6, FS_UNION DEF Regressed, Diagnosed

\* What was stored stays stored when rows are added.
LEMMA StoredGrow ==
    ASSUME NEW before \in Seq(CaptureRows), NEW rows \in Seq(CaptureRows)
    PROVE  /\ Diagnosed(before) \subseteq Diagnosed(before \o rows)
           /\ Regressed(before) \subseteq Regressed(before \o rows)
BY PrefixKept DEF Diagnosed, Regressed

-----------------------------------------------------------------------------
(* The inductive invariant.                                                *)

\* A row was compared with a newest plan of the given rows.
ComparedTo(q, row, rows) ==
    \E p \in OrNone(Newest(rows, Planned(rows))), prevM \in Metrics \cup {NoMetric},
       isVector \in BOOLEAN :
        /\ row.regressions =
              DetectRegressions(prevM, row.metric, PlanAt(rows, p), row.plan, isVector)
        /\ row.diagnoses = DiagnoseQuery(q, row.metric, row.plan, PlanAt(rows, p), row.tree)

\* So was every committed row; with all rows before it if it saw as many.
RowKnown(q, now, rows, i) ==
    /\ rows[i].stamp <= now
    /\ \E before \in Seq(CaptureRows) :
         ComparedTo(q, rows[i], before) /\ (rows[i].saw = i - 1 => before = Prefix(rows, i - 1))

\* The rows of an open transaction were compared with the rows committed at the
\* time and its own before them.
OwnRowKnown(q, now, rows, own, k) ==
    /\ own[k].stamp <= now
    /\ \E n \in 0..Len(rows) :
         /\ own[k].saw = n + k - 1
         /\ ComparedTo(q, own[k], Prefix(rows, n) \o Prefix(own, k - 1))

RowsCompared == \A i \in DOMAIN db : RowKnown(text, clock, db, i)
OpenCompared ==
    \A w \in Writers :
        /\ open[w].stamp <= clock
        /\ \A k \in DOMAIN open[w].rows : OwnRowKnown(text, clock, db, open[w].rows, k)

\* What a statement returned when there were n rows, for an n between the
\* begin of the request and last.
MetricRead(rows, s, last) ==
    \E n \in s.began..last : s.metric \in Newest(Prefix(rows, n), DOMAIN Prefix(rows, n))
PlanRead(rows, s, last) ==
    \E n \in s.began..last :
        s.plan \in OrNone(Newest(Prefix(rows, n), Planned(Prefix(rows, n))))
PreviousRead(rows, s, last) ==
    \E n \in s.began..last :
        s.previous \in OrNone(SecondNewest(Prefix(rows, n), Planned(Prefix(rows, n))))

CountCovers(rows, s) == s.count >= RegressionsOf(Prefix(rows, s.metric))
RegressionCovers(rows, s) ==
    rows[s.metric].regressions # <<>> => s.regressedAt >= rows[s.metric].stamp
StoredRead(rows, s) ==
    s.ended \in s.began..Len(rows) /\ s.stored \in NewestDiagnoses(Prefix(rows, s.ended))

\* A request, endpoint by endpoint: what is known of its answers while it has
\* the rest of its statements to execute.
ListRequest(rows, s, rest) ==
    \/ rest = <<"page">>
    \/ rest = <<>> /\ MetricRead(rows, s, Len(rows)) /\ CountCovers(rows, s)

DetailRequest(rows, s, rest) ==
    \/ rest = <<"metric", "plan", "count">>
    \/ rest = <<"plan", "count">> /\ MetricRead(rows, s, Len(rows))
    \/ rest = <<"count">> /\ MetricRead(rows, s, Len(rows))
    \/ rest = <<>> /\ MetricRead(rows, s, Len(rows)) /\ CountCovers(rows, s)

AdviceRequest(rows, s, rest) ==
    \/ rest = <<"metric", "plan", "regression">>
    \/ rest = <<"plan", "regression">> /\ MetricRead(rows, s, Len(rows))
    \/ rest = <<"regression">> /\ MetricRead(rows, s, Len(rows))
    \/ rest = <<>> /\ MetricRead(rows, s, Len(rows)) /\ RegressionCovers(rows, s)

DiagnosticsRequest(rows, s, rest) ==
    \/ rest = <<"metric", "plan", "previous", "stored">>
    \/ rest = <<"plan", "previous", "stored">> /\ MetricRead(rows, s, Len(rows))
    \/ /\ rest = <<"previous", "stored">>
       /\ MetricRead(rows, s, Len(rows)) /\ PlanRead(rows, s, Len(rows))
    \/ /\ rest = <<"stored">>
       /\ MetricRead(rows, s, Len(rows)) /\ PlanRead(rows, s, Len(rows))
       /\ PreviousRead(rows, s, Len(rows))
    \/ /\ rest = <<>>
       /\ StoredRead(rows, s) /\ MetricRead(rows, s, s.ended) /\ PlanRead(rows, s, s.ended)
       /\ PreviousRead(rows, s, s.ended)

RequestKnown(rows, endpoint, s, rest) ==
    /\ s.began <= Len(rows)
    /\ endpoint = "none" => rest = <<>>
    /\ endpoint = "list" => ListRequest(rows, s, rest)
    /\ endpoint = "detail" => DetailRequest(rows, s, rest)
    /\ endpoint = "recommendations" => AdviceRequest(rows, s, rest)
    /\ endpoint = "diagnostics" => DiagnosticsRequest(rows, s, rest)
    /\ endpoint = "regression advice" =>
        rest \in {<<"one regression", "metric", "plan">>, <<"metric", "plan">>, <<"plan">>, <<>>}

RequestsKnown == \A r \in Requests : RequestKnown(db, kind[r], seen[r], todo[r])

IInv == TypeOK /\ RowsCompared /\ OpenCompared /\ RequestsKnown

-----------------------------------------------------------------------------
(* Types.                                                                  *)

\* What a capture of c stores is a row.
LEMMA RowTypes ==
    ASSUME NEW c \in Captures, NEW at \in Nat, NEW stamp \in Nat, NEW saw \in Nat,
           NEW prevM, NEW prevP, NEW isVector, NEW plan, NEW tree,
           tree = IF c.tree = NoPlan THEN <<>> ELSE c.tree,
           plan = IF c.tree = NoPlan THEN NoPlan ELSE ParseExplain(c.tree)
    PROVE  [at |-> at, stamp |-> stamp, metric |-> c.metric, plan |-> plan, tree |-> tree,
            regressions |-> DetectRegressions(prevM, c.metric, prevP, plan, isVector),
            diagnoses |-> DiagnoseQuery(text, c.metric, plan, prevP, tree),
            saw |-> saw] \in CaptureRows
<1>1. c.metric \in Metrics /\ c.tree \in Seq(Nodes) \cup {NoPlan}
  BY InsightsAssumption
<1>2. tree \in Seq(Nodes) /\ plan \in Plans \cup {NoPlan}
  BY <1>1, ParsedTypes
<1>3. /\ DetectRegressions(prevM, c.metric, prevP, plan, isVector) \in Seq(Findings)
      /\ DiagnoseQuery(text, c.metric, plan, prevP, tree) \in Seq(Findings)
  BY DetectedTypes, DiagnosedTypes
<1> QED BY <1>1, <1>2, <1>3 DEF CaptureRows

\* The visible rows.
LEMMA VisibleTypes ==
    ASSUME TypeOK, NEW w \in Writers
    PROVE  /\ open[w].rows \in Seq(CaptureRows) /\ open[w].stamp \in Nat
           /\ Visible(w) \in Seq(CaptureRows)
           /\ Len(Visible(w)) = Len(db) + Len(open[w].rows)
           /\ Len(db) \in Nat /\ Len(open[w].rows) \in Nat
           /\ DOMAIN db = 1..Len(db) /\ DOMAIN open[w].rows = 1..Len(open[w].rows)
           /\ DOMAIN Visible(w) = 1..Len(Visible(w))
<1>1. open[w].rows \in Seq(CaptureRows) /\ open[w].stamp \in Nat /\ db \in Seq(CaptureRows)
  BY DEF TypeOK
<1> QED BY <1>1, ConcatProperties, LenProperties DEF Visible

\* What a transaction of a writer holds.
Opened == [stamp : Nat, rows : Seq(CaptureRows), looked : BOOLEAN,
           metric : Metrics \cup {NoMetric}]

\* The rows are those before and none or some more.
Extends(after, before) == \E rows \in Seq(CaptureRows) : after = before \o rows

\* Its row is appended by a capture.
LEMMA Captured ==
    ASSUME TypeOK, NEW w \in Writers, NEW c \in Captures, NEW late \in 0..MaxLate,
           late < open[w].stamp, Capture(w, c, open[w].stamp - late)
    PROVE  \E row \in CaptureRows :
             /\ open' = [open EXCEPT ![w].rows = Append(@, row), ![w].looked = FALSE,
                                     ![w].metric = NoMetric]
             /\ row.stamp = open[w].stamp /\ row.saw = Len(Visible(w))
             /\ ComparedTo(text, row, Visible(w))
             /\ RowAgrees(row, w \in Streams)
<1> DEFINE at == open[w].stamp - late
           tree == IF c.tree = NoPlan THEN <<>> ELSE c.tree
           plan == IF c.tree = NoPlan THEN NoPlan ELSE ParseExplain(c.tree)
           isVector == w \in Streams /\ text.operator
           Row(previous) ==
               [at |-> at, stamp |-> open[w].stamp, metric |-> c.metric,
                plan |-> plan, tree |-> tree,
                regressions |-> DetectRegressions(open[w].metric, c.metric, previous,
                                    plan, isVector),
                diagnoses |-> DiagnoseQuery(text, c.metric, plan, previous, tree),
                saw |-> Len(Visible(w))]
<1>1. open \in [Writers -> Opened] /\ open[w] \in Opened /\ text \in Texts
  BY InsightsAssumption DEF TypeOK, Opened
<1>2. at \in Nat /\ open[w].stamp \in Nat /\ Len(Visible(w)) \in Nat
  BY <1>1, VisibleTypes, LenProperties, InsightsAssumption DEF Opened
<1>3. PICK p \in OrNone(Newest(Visible(w), Planned(Visible(w)))) :
        open' = [open EXCEPT ![w].rows = Append(@, Row(PlanAt(Visible(w), p))),
                             ![w].looked = FALSE, ![w].metric = NoMetric]
  BY DEF Capture
<1>4. tree = IF c.tree = NoPlan THEN <<>> ELSE c.tree
  OBVIOUS
<1>5. plan = IF c.tree = NoPlan THEN NoPlan ELSE ParseExplain(c.tree)
  OBVIOUS
<1>6. isVector \in BOOLEAN /\ (isVector <=> w \in Streams /\ text.operator)
  BY <1>1 DEF Texts
<1> HIDE DEF at, tree, plan, isVector
<1>7. Row(PlanAt(Visible(w), p)) \in CaptureRows
  <2> DEFINE prevP == PlanAt(Visible(w), p)
             prevM == open[w].metric
             stamp == open[w].stamp
             saw == Len(Visible(w))
  <2>1. stamp \in Nat /\ saw \in Nat /\ at \in Nat
    BY <1>2
  <2> HIDE DEF prevP, prevM, stamp, saw
  <2>2. [at |-> at, stamp |-> stamp, metric |-> c.metric, plan |-> plan, tree |-> tree,
         regressions |-> DetectRegressions(prevM, c.metric, prevP, plan, isVector),
         diagnoses |-> DiagnoseQuery(text, c.metric, plan, prevP, tree),
         saw |-> saw] \in CaptureRows
    BY <1>4, <1>5, <2>1, RowTypes
  <2> QED BY <2>2 DEF prevP, prevM, stamp, saw
<1>8. /\ Row(PlanAt(Visible(w), p)).stamp = open[w].stamp
      /\ Row(PlanAt(Visible(w), p)).saw = Len(Visible(w))
  OBVIOUS
<1>9. ComparedTo(text, Row(PlanAt(Visible(w), p)), Visible(w))
  <2>1. open[w].metric \in Metrics \cup {NoMetric}
    BY <1>1 DEF Opened
  <2> QED BY <1>3, <1>6, <2>1 DEF ComparedTo
<1>10. RowAgrees(Row(PlanAt(Visible(w), p)), w \in Streams)
  <2> DEFINE row == Row(PlanAt(Visible(w), p))
             prevP == PlanAt(Visible(w), p)
             prevM == open[w].metric
  <2>1. /\ row.regressions = DetectRegressions(prevM, c.metric, prevP, plan, isVector)
        /\ row.diagnoses = DiagnoseQuery(text, c.metric, plan, prevP, tree)
    OBVIOUS
  <2>2. plan \in Plans \cup {NoPlan}
    BY <1>5, ParsedTypes, InsightsAssumption
  <2> HIDE DEF row, prevP, prevM
  <2>3. RowAgrees(row, w \in Streams)
    BY <1>6, <2>1, <2>2, RulesMeet
  <2> QED BY <2>3 DEF row
<1> HIDE DEF Row
<1> QED BY <1>3, <1>7, <1>8, <1>9, <1>10

\* A step of a writer keeps the types and adds rows at most.
LEMMA WriterTypes ==
    ASSUME TypeOK, NEW w \in Writers, Writes(w)
    PROVE  /\ text' = text /\ kind' = kind /\ todo' = todo /\ seen' = seen
           /\ Extends(db', db)
           /\ clock' \in 0..MaxTransactions /\ clock <= clock'
           /\ open' \in [Writers -> Opened]
<1>1. /\ open \in [Writers -> Opened] /\ clock \in 0..MaxTransactions
      /\ db \in Seq(CaptureRows) /\ MaxTransactions \in Nat
  BY InsightsAssumption DEF TypeOK, Opened
<1>2. open[w] \in Opened /\ open[w].rows \in Seq(CaptureRows) /\ Visible(w) \in Seq(CaptureRows)
  BY <1>1, VisibleTypes
<1>3. Extends(db, db) /\ <<>> \in Seq(CaptureRows) /\ clock <= clock
  <2>1. db = db \o <<>> /\ <<>> \in Seq(CaptureRows)
    BY <1>1, ConcatEmptySeq
  <2>2. clock \in Nat
    BY <1>1
  <2>3. Extends(db, db)
    BY ONLY <2>1 DEF Extends
  <2> QED BY <2>1, <2>2, <2>3
<1>4. NoTransaction \in Opened
  BY <1>3 DEF NoTransaction, Opened
<1>5. CASE Begin(w)
  <2>1. clock' = clock + 1 /\ clock' \in 0..MaxTransactions
    BY <1>1, <1>5 DEF Begin
  <2>2. [open[w] EXCEPT !.stamp = clock + 1] \in Opened
    <3>1. clock + 1 \in Nat
      BY <1>1
    <3> QED BY <1>2, <3>1 DEF Opened
  <2>3. open' = [open EXCEPT ![w] = [open[w] EXCEPT !.stamp = clock + 1]]
    BY <1>1, <1>5 DEF Begin
  <2>4. open' \in [Writers -> Opened]
    BY <1>1, <2>2, <2>3
  <2>5. UNCHANGED <<text, db, kind, todo, seen>>
    BY <1>5 DEF Begin
  <2> QED BY <1>1, <1>3, <2>1, <2>4, <2>5
<1>6. CASE LatestMetric(w)
  <2>1. PICK i \in OrNone(Newest(Visible(w), DOMAIN Visible(w))) :
          open' = [open EXCEPT ![w].looked = TRUE, ![w].metric = MetricAt(Visible(w), i)]
    BY <1>6 DEF LatestMetric
  <2>2. i # 0 => i \in DOMAIN Visible(w)
    BY <2>1 DEF OrNone, Newest
  <2>3. i # 0 => Visible(w)[i] \in CaptureRows
    BY <1>2, <2>2, ElementOfSeq, LenProperties
  <2>4. MetricAt(Visible(w), i) \in Metrics \cup {NoMetric}
    BY <2>3 DEF MetricAt, CaptureRows
  <2>5. [open[w] EXCEPT !.looked = TRUE, !.metric = MetricAt(Visible(w), i)] \in Opened
    BY <1>2, <2>4 DEF Opened
  <2>6. open' = [open EXCEPT ![w] =
                   [open[w] EXCEPT !.looked = TRUE, !.metric = MetricAt(Visible(w), i)]]
    BY <1>1, <2>1
  <2>7. open' \in [Writers -> Opened]
    BY <1>1, <2>5, <2>6
  <2>8. UNCHANGED <<text, db, clock, kind, todo, seen>>
    BY <1>6 DEF LatestMetric
  <2> QED BY <1>1, <1>3, <2>7, <2>8
<1>7. ASSUME NEW c \in Captures, NEW late \in 0..MaxLate, late < open[w].stamp,
             Capture(w, c, open[w].stamp - late)
      PROVE  open' \in [Writers -> Opened] /\ UNCHANGED <<text, db, clock, kind, todo, seen>>
  <2>1. PICK row \in CaptureRows :
          open' = [open EXCEPT ![w].rows = Append(@, row), ![w].looked = FALSE,
                               ![w].metric = NoMetric]
    BY <1>7, Captured
  <2>2. Append(open[w].rows, row) \in Seq(CaptureRows)
    BY <1>2, <2>1, AppendProperties
  <2>3. [open[w] EXCEPT !.rows = Append(open[w].rows, row), !.looked = FALSE,
                        !.metric = NoMetric] \in Opened
    BY <1>2, <2>2 DEF Opened
  <2>4. open' = [open EXCEPT ![w] = [open[w] EXCEPT !.rows = Append(open[w].rows, row),
                                                    !.looked = FALSE, !.metric = NoMetric]]
    BY <1>1, <2>1
  <2>5. UNCHANGED <<text, db, clock, kind, todo, seen>>
    BY <1>7 DEF Capture
  <2> QED BY <1>1, <2>3, <2>4, <2>5
<1>8. CASE \E c \in Captures : \E late \in 0..MaxLate :
             late < open[w].stamp /\ Capture(w, c, open[w].stamp - late)
  <2>1. open' \in [Writers -> Opened] /\ UNCHANGED <<text, db, clock, kind, todo, seen>>
    BY <1>7, <1>8
  <2> QED BY <1>1, <1>3, <2>1
<1>9. CASE Commit(w)
  <2>1. db' = db \o open[w].rows /\ UNCHANGED <<text, clock, kind, todo, seen>>
    BY <1>9 DEF Commit, Visible
  <2>2. open' = [open EXCEPT ![w] = NoTransaction]
    BY <1>9 DEF Commit, Ended
  <2>3. open' \in [Writers -> Opened]
    BY <1>1, <1>4, <2>2
  <2>4. Extends(db', db)
    BY <1>2, <2>1 DEF Extends
  <2> QED BY <1>1, <1>3, <2>1, <2>3, <2>4
<1>10. CASE Rollback(w)
  <2>1. open' = [open EXCEPT ![w] = NoTransaction] /\ UNCHANGED <<text, db, clock, kind, todo, seen>>
    BY <1>10 DEF Rollback, Ended
  <2>2. open' \in [Writers -> Opened]
    BY <1>1, <1>4, <2>1
  <2> QED BY <1>1, <1>3, <2>1, <2>2
<1> QED BY <1>5, <1>6, <1>8, <1>9, <1>10 DEF Writes

\* What is typed about the answers of a request.
Answered(s) == /\ s \in Responses
               /\ {s.metric, s.plan, s.previous} \subseteq {0} \cup DOMAIN db
               /\ s.stored \subseteq Diagnosed(db)
               /\ Cardinality(s.stored) <= DiagnosesShown

\* The statements of an endpoint are statements, and so are the rest of them.
LEMMA StatementTypes ==
    /\ \A e \in Endpoints : Statements[e] \in Seq(StatementNames)
    /\ \A rest \in Seq(StatementNames) : rest # <<>> => Tail(rest) \in Seq(StatementNames)
<1>1. /\ <<"page">> \in Seq(StatementNames)
      /\ <<"metric", "plan", "count">> \in Seq(StatementNames)
      /\ <<"metric", "plan", "previous", "stored">> \in Seq(StatementNames)
      /\ <<"metric", "plan", "regression">> \in Seq(StatementNames)
      /\ <<"one regression", "metric", "plan">> \in Seq(StatementNames)
  BY DEF StatementNames
<1>2. \A e \in Endpoints : Statements[e] \in Seq(StatementNames)
  BY <1>1 DEF Endpoints, Statements
<1> QED BY <1>2, HeadTailProperties

\* A statement that returns typed answers keeps the types.
LEMMA ExecutedTypes ==
    ASSUME TypeOK, NEW r \in Requests, NEW s, NEW result, Executes(r, s, result),
           Answered(result)
    PROVE  TypeOK'
<1>1. /\ todo[r] # <<>>
      /\ todo' = [todo EXCEPT ![r] = Tail(todo[r])]
      /\ seen' = [seen EXCEPT ![r] = result]
      /\ UNCHANGED <<text, db, clock, open, kind>>
  BY DEF Executes
<1>2. todo \in [Requests -> Seq(StatementNames)] /\ seen \in [Requests -> Responses]
  BY DEF TypeOK
<1>3. todo' \in [Requests -> Seq(StatementNames)]
  BY <1>1, <1>2, StatementTypes
<1>4. seen' \in [Requests -> Responses]
  BY <1>1, <1>2 DEF Answered
<1>5. \A q \in Requests :
        /\ {seen'[q].metric, seen'[q].plan, seen'[q].previous} \subseteq {0} \cup DOMAIN db
        /\ seen'[q].stored \subseteq Diagnosed(db)
        /\ Cardinality(seen'[q].stored) <= DiagnosesShown
  BY <1>1, <1>2 DEF TypeOK, Answered
<1> QED BY <1>1, <1>3, <1>4, <1>5 DEF TypeOK

\* The smaller of two numbers.
LEMMA MinOfTwo ==
    ASSUME NEW a \in Nat, NEW b \in Nat
    PROVE  Min({a, b}) = IF a <= b THEN a ELSE b
<1>1. CASE a <= b
  <2>1. a \in {a, b} /\ \A y \in {a, b} : a <= y
    BY <1>1
  <2>2. \A x \in {a, b} : (\A y \in {a, b} : x <= y) => x = a
    BY <1>1
  <2> QED BY <1>1, <2>1, <2>2 DEF Min
<1>2. CASE ~(a <= b)
  <2>1. b \in {a, b} /\ \A y \in {a, b} : b <= y
    BY <1>2
  <2>2. \A x \in {a, b} : (\A y \in {a, b} : x <= y) => x = b
    BY <1>2
  <2> QED BY <1>2, <2>1, <2>2 DEF Min
<1> QED BY <1>1, <1>2

\* Diagnoses are numbered pairs.
LEMMA DiagnosedPairs ==
    ASSUME NEW rows \in Seq(CaptureRows)
    PROVE  /\ \A d \in Diagnosed(rows) :
                /\ d \in Nat \X Nat /\ d[1] \in DOMAIN rows
                /\ rows[d[1]].diagnoses \in Seq(Findings)
                /\ d[2] \in DOMAIN rows[d[1]].diagnoses
           /\ \A i \in DOMAIN rows : \A k \in DOMAIN rows[i].diagnoses : <<i, k>> \in Diagnosed(rows)
<1>1. \A i \in DOMAIN rows : i \in Nat /\ rows[i].diagnoses \in Seq(Findings)
  <2>1. DOMAIN rows = 1..Len(rows) /\ Len(rows) \in Nat
    BY LenProperties
  <2>2. \A i \in DOMAIN rows : rows[i] \in CaptureRows
    BY <2>1, ElementOfSeq
  <2>3. \A row \in CaptureRows : row.diagnoses \in Seq(Findings)
    BY DEF CaptureRows
  <2> QED BY <2>1, <2>2, <2>3
<1>2. \A found \in Seq(Findings) : \A k \in DOMAIN found : k \in Nat
  BY LenProperties
<1>3. \A i \in DOMAIN rows : \A k \in DOMAIN rows[i].diagnoses : <<i, k>> \in Diagnosed(rows)
  BY DEF Diagnosed
<1>4. ASSUME NEW d \in Diagnosed(rows)
      PROVE  /\ d \in Nat \X Nat /\ d[1] \in DOMAIN rows
             /\ rows[d[1]].diagnoses \in Seq(Findings)
             /\ d[2] \in DOMAIN rows[d[1]].diagnoses
  <2>1. PICK i \in DOMAIN rows : d \in {i} \X DOMAIN rows[i].diagnoses
    BY DEF Diagnosed
  <2>2. d[1] = i /\ d[2] \in DOMAIN rows[i].diagnoses /\ d = <<d[1], d[2]>>
    BY <2>1
  <2> QED BY <1>1, <1>2, <2>2
<1> QED BY <1>3, <1>4

\* What the answers of each statement are.
LEMMA NewestTypes ==
    ASSUME NEW rows, NEW among, NEW i \in Newest(rows, among)
    PROVE  i \in among
BY DEF Newest

\* A request that reads keeps the types.
LEMMA ReaderTypes ==
    ASSUME TypeOK, NEW r \in Requests, Reads(r)
    PROVE  TypeOK'
<1>1. /\ db \in Seq(CaptureRows) /\ seen \in [Requests -> Responses]
      /\ kind \in [Requests -> Endpoints \cup {"none"}]
      /\ todo \in [Requests -> Seq(StatementNames)]
  BY DEF TypeOK
<1>2. DOMAIN db = 1..Len(db) /\ Len(db) \in Nat /\ DiagnosesShown \in Nat
  BY <1>1, LenProperties, InsightsAssumption
<1>3. Answered(seen[r])
  BY <1>1 DEF TypeOK, Answered
<1>4. \A i \in DOMAIN db : db[i] \in CaptureRows
  BY <1>1, <1>2, ElementOfSeq
<1>5. ASSUME NEW e \in Endpoints, Call(r, e)
      PROVE  TypeOK'
  <2>1. /\ kind' = [kind EXCEPT ![r] = e]
        /\ todo' = [todo EXCEPT ![r] = Statements[e]]
        /\ seen' = [seen EXCEPT ![r].began = Len(db)]
        /\ UNCHANGED <<text, db, clock, open>>
    BY <1>5 DEF Call
  <2>2. kind' \in [Requests -> Endpoints \cup {"none"}] /\ todo' \in [Requests -> Seq(StatementNames)]
    BY <1>1, <2>1, StatementTypes
  <2>3. [seen[r] EXCEPT !.began = Len(db)] \in Responses
    BY <1>1, <1>2 DEF Responses
  <2>4. seen' = [seen EXCEPT ![r] = [seen[r] EXCEPT !.began = Len(db)]]
    BY <2>1
  <2>5. seen' \in [Requests -> Responses]
    BY <1>1, <2>3, <2>4
  <2>6. \A q \in Requests :
          /\ seen'[q].metric = seen[q].metric /\ seen'[q].plan = seen[q].plan
          /\ seen'[q].previous = seen[q].previous /\ seen'[q].stored = seen[q].stored
    BY <1>1, <2>4 DEF Responses
  <2> QED BY <2>1, <2>2, <2>5, <2>6 DEF TypeOK
<1>6. CASE ReadMetric(r)
  <2>1. PICK i \in Newest(db, DOMAIN db) : Executes(r, "metric", [seen[r] EXCEPT !.metric = i])
    BY <1>6 DEF ReadMetric
  <2>2. i \in DOMAIN db
    BY <2>1, NewestTypes
  <2>3. Answered([seen[r] EXCEPT !.metric = i])
    BY <1>2, <1>3, <2>2 DEF Answered, Responses
  <2> QED BY <2>1, <2>3, ExecutedTypes
<1>7. \A i \in OrNone(Newest(db, Planned(db))) : i \in {0} \cup DOMAIN db
  BY NewestTypes DEF OrNone, Planned
<1>8. CASE ReadPlan(r)
  <2>1. PICK i \in OrNone(Newest(db, Planned(db))) :
          Executes(r, "plan", [seen[r] EXCEPT !.plan = i])
    BY <1>8 DEF ReadPlan
  <2>2. Answered([seen[r] EXCEPT !.plan = i])
    BY <1>2, <1>3, <1>7, <2>1 DEF Answered, Responses
  <2> QED BY <2>1, <2>2, ExecutedTypes
<1>9. CASE ReadPreviousPlan(r)
  <2>1. PICK i \in OrNone(SecondNewest(db, Planned(db))) :
          Executes(r, "previous", [seen[r] EXCEPT !.previous = i])
    BY <1>9 DEF ReadPreviousPlan
  <2>2. i \in {0} \cup DOMAIN db
    BY <2>1 DEF OrNone, SecondNewest, Newest, Planned
  <2>3. Answered([seen[r] EXCEPT !.previous = i])
    BY <1>2, <1>3, <2>2 DEF Answered, Responses
  <2> QED BY <2>1, <2>3, ExecutedTypes
<1>10. RegressionsOf(db) \in Nat
  BY <1>1, StoredFinite, FS_CardinalityType DEF RegressionsOf
<1>11. CASE CountRegressions(r)
  <2>1. Answered([seen[r] EXCEPT !.count = RegressionsOf(db)])
    BY <1>3, <1>10 DEF Answered, Responses
  <2> QED BY <1>11, <2>1, ExecutedTypes DEF CountRegressions
<1>12. ASSUME NEW i \in DOMAIN db, NEW k \in DOMAIN db[i].regressions
       PROVE  Answered([seen[r] EXCEPT !.regression = db[i].regressions[k].type,
                                       !.regressedAt = db[i].stamp])
  <2>1. db[i].regressions \in Seq(Findings) /\ db[i].stamp \in Nat
    BY <1>4 DEF CaptureRows
  <2>2. db[i].regressions[k].type \in RegressionTypes \cup DiagnosisTypes
    <3>1. db[i].regressions[k] \in Findings
      BY <2>1, ElementOfSeq, LenProperties
    <3> QED BY <3>1 DEF Findings
  <2> QED BY <1>3, <2>1, <2>2 DEF Answered, Responses
<1>13. CASE ReadRegression(r)
  <2> DEFINE regressed == {i \in DOMAIN db : db[i].regressions # <<>>}
             last == {i \in regressed : \A j \in regressed : db[j].stamp <= db[i].stamp}
  <2>1. CASE last = {}
    BY <1>3, <1>13, <2>1, ExecutedTypes DEF ReadRegression
  <2>2. CASE last # {}
    <3>1. PICK i \in last : \E k \in DOMAIN db[i].regressions :
             Executes(r, "regression", [seen[r] EXCEPT
                 !.regression = db[i].regressions[k].type, !.regressedAt = db[i].stamp])
      BY <1>13, <2>2 DEF ReadRegression
    <3>2. i \in DOMAIN db
      OBVIOUS
    <3> QED BY <1>12, <3>1, <3>2, ExecutedTypes
  <2> QED BY <2>1, <2>2
<1>14. CASE ReadOneRegression(r)
  BY <1>12, <1>14, ExecutedTypes DEF ReadOneRegression
<1>15. CASE ReadDiagnoses(r)
  <2>1. PICK shown \in NewestDiagnoses(db) :
          Executes(r, "stored", [seen[r] EXCEPT !.stored = shown, !.ended = Len(db)])
    BY <1>15 DEF ReadDiagnoses
  <2>2. /\ shown \subseteq Diagnosed(db)
        /\ Cardinality(shown) = Min({DiagnosesShown, Cardinality(Diagnosed(db))})
    BY <2>1 DEF NewestDiagnoses
  <2>3. Cardinality(Diagnosed(db)) \in Nat
    BY <1>1, StoredFinite, FS_CardinalityType
  <2>4. Cardinality(shown) <= DiagnosesShown
    BY <1>2, <2>2, <2>3, MinOfTwo
  <2>5. shown \in SUBSET (Nat \X Nat)
    BY <1>1, <2>2, DiagnosedPairs
  <2>6. Answered([seen[r] EXCEPT !.stored = shown, !.ended = Len(db)])
    BY <1>2, <1>3, <2>2, <2>4, <2>5 DEF Answered, Responses
  <2> QED BY <2>1, <2>6, ExecutedTypes
<1>16. CASE ReadPage(r)
  <2>1. PICK i \in Newest(db, DOMAIN db) :
          Executes(r, "page", [seen[r] EXCEPT !.metric = i, !.count = RegressionsOf(db)])
    BY <1>16 DEF ReadPage, ListedMetrics
  <2>2. i \in DOMAIN db
    BY <2>1, NewestTypes
  <2>3. Answered([seen[r] EXCEPT !.metric = i, !.count = RegressionsOf(db)])
    <3> DEFINE count == RegressionsOf(db)
    <3>1. i \in Nat /\ count \in Nat
      BY <1>2, <1>10, <2>2
    <3> HIDE DEF count
    <3>2. [seen[r] EXCEPT !.metric = i, !.count = count] \in Responses
      BY <1>3, <3>1 DEF Answered, Responses
    <3>3. Answered([seen[r] EXCEPT !.metric = i, !.count = count])
      BY <1>3, <2>2, <3>2 DEF Answered, Responses
    <3> QED BY <3>3 DEF count
  <2> QED BY <2>1, <2>3, ExecutedTypes
<1> QED BY <1>5, <1>6, <1>8, <1>9, <1>11, <1>13, <1>14, <1>15, <1>16 DEF Reads

\* The initial state has the types.
LEMMA TypeInit == Init => TypeOK
<1> SUFFICES ASSUME Init PROVE TypeOK
  OBVIOUS
<1>1. <<>> \in Seq(CaptureRows) /\ <<>> \in Seq(StatementNames)
  OBVIOUS
<1>2. /\ MaxTransactions \in Nat /\ DiagnosesShown \in Nat /\ Cardinality({}) = 0
  BY InsightsAssumption, FS_EmptySet
<1>3. open \in [Writers -> [stamp : Nat, rows : Seq(CaptureRows), looked : BOOLEAN,
                            metric : Metrics \cup {NoMetric}]]
  BY <1>1 DEF Init, NoTransaction
<1>4. NothingSeen \in Responses
  BY DEF NothingSeen, Responses
<1>5. seen \in [Requests -> Responses]
  BY <1>4 DEF Init
<1>6. \A r \in Requests : seen[r].metric = 0 /\ seen[r].plan = 0 /\ seen[r].previous = 0 /\ seen[r].stored = {}
  BY DEF Init, NothingSeen
<1>7. /\ text \in QueryTexts /\ db \in Seq(CaptureRows) /\ clock \in 0..MaxTransactions
      /\ kind \in [Requests -> Endpoints \cup {"none"}]
      /\ todo \in [Requests -> Seq(StatementNames)]
  BY <1>1, <1>2 DEF Init
<1>8. \A r \in Requests :
        /\ {seen[r].metric, seen[r].plan, seen[r].previous} \subseteq {0} \cup DOMAIN db
        /\ seen[r].stored \subseteq Diagnosed(db)
        /\ Cardinality(seen[r].stored) <= DiagnosesShown
  <2>1. Cardinality({}) <= DiagnosesShown
    BY <1>2
  <2> QED BY <1>6, <2>1
<1> QED BY <1>3, <1>5, <1>7, <1>8 DEF TypeOK

\* Every step keeps the types.
LEMMA TypeStep == TypeOK /\ [Next]_vars => TypeOK'
<1> SUFFICES ASSUME TypeOK, [Next]_vars PROVE TypeOK'
  OBVIOUS
<1>1. ASSUME NEW w \in Writers, Writes(w) PROVE TypeOK'
  <2>1. /\ UNCHANGED <<text, kind, todo, seen>> /\ Extends(db', db)
        /\ clock' \in 0..MaxTransactions /\ open' \in [Writers -> Opened]
    BY <1>1, WriterTypes
  <2>2. db \in Seq(CaptureRows)
    BY DEF TypeOK
  <2>3. /\ db' \in Seq(CaptureRows) /\ DOMAIN db \subseteq DOMAIN db'
        /\ Diagnosed(db) \subseteq Diagnosed(db')
    <3>1. PICK rows \in Seq(CaptureRows) : db' = db \o rows
      BY <2>1 DEF Extends
    <3>2. /\ db' \in Seq(CaptureRows) /\ Len(db) \in Nat /\ Len(db') \in Nat
          /\ DOMAIN db = 1..Len(db) /\ DOMAIN db' = 1..Len(db') /\ Len(db) <= Len(db')
          /\ Diagnosed(db) \subseteq Diagnosed(db')
      BY <2>2, <3>1, PrefixKept, StoredGrow
    <3> QED BY <3>2
  <2>4. \A r \in Requests :
          /\ {seen[r].metric, seen[r].plan, seen[r].previous} \subseteq {0} \cup DOMAIN db'
          /\ seen[r].stored \subseteq Diagnosed(db')
          /\ Cardinality(seen[r].stored) <= DiagnosesShown
    BY <2>3 DEF TypeOK
  <2> QED BY <2>1, <2>3, <2>4 DEF TypeOK, Opened
<1>2. ASSUME NEW r \in Requests, Reads(r) PROVE TypeOK'
  BY <1>2, ReaderTypes
<1>3. CASE UNCHANGED vars
  BY <1>3 DEF vars, TypeOK
<1> QED BY <1>1, <1>2, <1>3 DEF Next

\* Every variable keeps its type: what a response shows was recorded, and it
\* lists at most DiagnosesShown diagnoses.
THEOREM TypeCorrect == Spec => []TypeOK
<1> QED BY TypeInit, TypeStep, PTL DEF Spec

-----------------------------------------------------------------------------
(* What every row was compared with.                                       *)

\* A row stays compared when rows are added behind it and time passes.
LEMMA RowGrows ==
    ASSUME NEW q, NEW now \in Nat, NEW later \in Nat, now <= later,
           NEW rows \in Seq(CaptureRows), NEW more \in Seq(CaptureRows),
           NEW i \in DOMAIN rows, RowKnown(q, now, rows, i)
    PROVE  RowKnown(q, later, rows \o more, i)
<1> DEFINE after == rows \o more
<1>1. /\ after[i] = rows[i] /\ i \in 1..Len(rows) /\ Len(rows) \in Nat
      /\ \A n \in 0..Len(rows) : Prefix(after, n) = Prefix(rows, n)
  BY PrefixKept DEF Prefix
<1>2. rows[i].stamp \in Nat
  <2>1. rows[i] \in CaptureRows
    BY <1>1, ElementOfSeq
  <2> QED BY <2>1 DEF CaptureRows
<1> HIDE DEF after
<1>3. Prefix(after, i - 1) = Prefix(rows, i - 1)
  BY <1>1
<1>4. after[i].stamp <= later
  BY <1>1, <1>2 DEF RowKnown
<1>5. RowKnown(q, later, after, i)
  BY <1>1, <1>3, <1>4 DEF RowKnown
<1> QED BY <1>5 DEF after

\* The same for the rows of an open transaction, when others commit.
LEMMA OwnRowGrows ==
    ASSUME NEW q, NEW now \in Nat, NEW later \in Nat, now <= later,
           NEW rows \in Seq(CaptureRows), NEW more \in Seq(CaptureRows),
           NEW own \in Seq(CaptureRows), NEW k \in DOMAIN own,
           OwnRowKnown(q, now, rows, own, k)
    PROVE  OwnRowKnown(q, later, rows \o more, own, k)
<1> DEFINE after == rows \o more
<1>1. /\ Len(rows) \in Nat /\ Len(after) \in Nat /\ Len(rows) <= Len(after)
      /\ \A n \in 0..Len(rows) : Prefix(after, n) = Prefix(rows, n)
  BY PrefixKept DEF Prefix
<1>2. own[k].stamp \in Nat
  <2>1. own[k] \in CaptureRows
    BY LenProperties, ElementOfSeq
  <2> QED BY <2>1 DEF CaptureRows
<1> HIDE DEF after
<1>3. own[k].stamp <= later
  BY <1>2 DEF OwnRowKnown
<1>4. PICK n \in 0..Len(rows) :
         /\ own[k].saw = n + k - 1
         /\ ComparedTo(q, own[k], Prefix(rows, n) \o Prefix(own, k - 1))
  BY DEF OwnRowKnown
<1>5. n \in 0..Len(after) /\ Prefix(after, n) = Prefix(rows, n)
  BY <1>1
<1>6. OwnRowKnown(q, later, after, own, k)
  BY <1>3, <1>4, <1>5 DEF OwnRowKnown
<1> QED BY <1>6 DEF after

\* All rows are the longest prefix.
LEMMA WholePrefix ==
    ASSUME NEW rows \in Seq(CaptureRows)
    PROVE  Prefix(rows, Len(rows)) = rows
<1>1. Len(rows) \in 0..Len(rows) /\ rows \in Seq(CaptureRows)
  BY LenProperties
<1>2. /\ Prefix(rows, Len(rows)) \in Seq(CaptureRows)
      /\ Len(Prefix(rows, Len(rows))) = Len(rows)
      /\ \A i \in 1..Len(rows) : Prefix(rows, Len(rows))[i] = rows[i]
  BY <1>1, PrefixIs DEF Prefix
<1> QED BY <1>2, SeqEqual

\* A capture adds a row of which the same is known.
LEMMA OwnRowAdded ==
    ASSUME NEW q, NEW now \in Nat, NEW rows \in Seq(CaptureRows),
           NEW own \in Seq(CaptureRows), NEW row \in CaptureRows, row.stamp <= now,
           row.saw = Len(rows \o own), ComparedTo(q, row, rows \o own),
           \A k \in DOMAIN own : OwnRowKnown(q, now, rows, own, k)
    PROVE  \A k \in DOMAIN Append(own, row) : OwnRowKnown(q, now, rows, Append(own, row), k)
<1> DEFINE longer == Append(own, row)
<1>1. /\ Len(rows) \in Nat /\ Len(own) \in Nat /\ Len(rows \o own) = Len(rows) + Len(own)
      /\ DOMAIN own = 1..Len(own)
  BY LenProperties, ConcatProperties
<1>2. /\ longer \in Seq(CaptureRows) /\ Len(longer) = Len(own) + 1
      /\ DOMAIN longer = 1..(Len(own) + 1)
      /\ longer[Len(own) + 1] = row /\ \A k \in 1..Len(own) : longer[k] = own[k]
  BY <1>1, AppendProperties, LenProperties
<1>3. /\ longer = own \o <<row>> /\ <<row>> \in Seq(CaptureRows)
  BY AppendIsConcat
<1>4. \A n \in 0..Len(own) : Prefix(longer, n) = Prefix(own, n)
  BY <1>3, PrefixKept DEF Prefix
<1> HIDE DEF longer
<1>5. ASSUME NEW k \in 1..Len(own)
      PROVE  OwnRowKnown(q, now, rows, longer, k)
  <2>1. OwnRowKnown(q, now, rows, own, k)
    BY <1>1
  <2>2. longer[k] = own[k] /\ Prefix(longer, k - 1) = Prefix(own, k - 1)
    BY <1>1, <1>2, <1>4
  <2> QED BY <2>1, <2>2 DEF OwnRowKnown
<1>6. OwnRowKnown(q, now, rows, longer, Len(own) + 1)
  <2> DEFINE k == Len(own) + 1
  <2>1. Prefix(longer, k - 1) = own
    BY <1>1, <1>4, WholePrefix
  <2>2. Prefix(rows, Len(rows)) = rows
    BY WholePrefix
  <2>3. Len(rows) \in 0..Len(rows) /\ row.saw = Len(rows) + k - 1
    BY <1>1
  <2>4. ComparedTo(q, longer[k], Prefix(rows, Len(rows)) \o Prefix(longer, k - 1))
    BY <1>2, <2>1, <2>2
  <2>5. longer[k] = row
    BY <1>2
  <2> HIDE DEF k
  <2>6. OwnRowKnown(q, now, rows, longer, k)
    BY <2>3, <2>4, <2>5 DEF OwnRowKnown
  <2> QED BY <2>6 DEF k
<1>7. \A k \in DOMAIN longer : k \in 1..Len(own) \/ k = Len(own) + 1
  BY <1>1, <1>2
<1>8. \A k \in DOMAIN longer : OwnRowKnown(q, now, rows, longer, k)
  BY <1>5, <1>6, <1>7
<1> QED BY <1>8 DEF longer

\* A commit puts rows behind those that are there.
LEMMA OwnRowsCommitted ==
    ASSUME NEW q, NEW now \in Nat, NEW rows \in Seq(CaptureRows),
           NEW own \in Seq(CaptureRows), NEW k \in DOMAIN own,
           OwnRowKnown(q, now, rows, own, k)
    PROVE  RowKnown(q, now, rows \o own, Len(rows) + k)
<1> DEFINE after == rows \o own
           i == Len(rows) + k
<1>1. /\ Len(rows) \in Nat /\ Len(own) \in Nat /\ DOMAIN own = 1..Len(own)
      /\ after \in Seq(CaptureRows) /\ Len(after) = Len(rows) + Len(own)
      /\ \A n \in 1..Len(rows) : after[n] = rows[n]
      /\ \A n \in (Len(rows) + 1)..(Len(rows) + Len(own)) : after[n] = own[n - Len(rows)]
  BY LenProperties, ConcatProperties
<1>2. k \in 1..Len(own) /\ k \in Nat /\ k - 1 \in 0..Len(own) /\ i - 1 \in 0..Len(after)
      /\ i \in (Len(rows) + 1)..(Len(rows) + Len(own)) /\ i - Len(rows) = k
  BY <1>1
<1>3. after[i] = own[k]
  BY <1>1, <1>2
<1>4. PICK n \in 0..Len(rows) :
         /\ own[k].saw = n + k - 1
         /\ ComparedTo(q, own[k], Prefix(rows, n) \o Prefix(own, k - 1))
  BY DEF OwnRowKnown
<1> DEFINE before == Prefix(rows, n) \o Prefix(own, k - 1)
<1>5. /\ Prefix(own, k - 1) \in Seq(CaptureRows) /\ Len(Prefix(own, k - 1)) = k - 1
      /\ \A j \in 1..(k - 1) : Prefix(own, k - 1)[j] = own[j]
  BY <1>2, PrefixIs DEF Prefix
<1>6. Prefix(rows, n) \in Seq(CaptureRows)
  BY <1>4, PrefixIs DEF Prefix
<1>7. before \in Seq(CaptureRows)
  BY <1>5, <1>6, ConcatProperties
<1>8. /\ Prefix(after, i - 1) \in Seq(CaptureRows) /\ Len(Prefix(after, i - 1)) = i - 1
      /\ \A j \in 1..(i - 1) : Prefix(after, i - 1)[j] = after[j]
  BY <1>1, <1>2, PrefixIs DEF Prefix
<1>9. ASSUME own[k].saw = i - 1
      PROVE  before = Prefix(after, i - 1)
  <2>1. n = Len(rows)
    BY <1>1, <1>2, <1>4, <1>9
  <2>2. before = rows \o Prefix(own, k - 1)
    BY <2>1, WholePrefix
  <2>3. /\ Len(before) = Len(rows) + (k - 1)
        /\ \A j \in 1..Len(rows) : before[j] = rows[j]
        /\ \A j \in (Len(rows) + 1)..(Len(rows) + (k - 1)) : before[j] = Prefix(own, k - 1)[j - Len(rows)]
    BY <1>5, <2>2, ConcatProperties
  <2> HIDE DEF before, after, i
  <2>4. i - 1 = Len(rows) + (k - 1)
    BY <1>1, <1>2 DEF i
  <2>5. ASSUME NEW j \in 1..(i - 1)
        PROVE  before[j] = Prefix(after, i - 1)[j]
    <3>1. CASE j \in 1..Len(rows)
      BY <1>1, <1>8, <2>3, <3>1
    <3>2. CASE j \notin 1..Len(rows)
      <4>1. /\ j \in (Len(rows) + 1)..(Len(rows) + (k - 1))
            /\ j \in (Len(rows) + 1)..(Len(rows) + Len(own))
            /\ j - Len(rows) \in 1..(k - 1)
        BY <1>1, <1>2, <2>4, <2>5, <3>2
      <4> QED BY <1>1, <1>5, <1>8, <2>3, <4>1
    <3> QED BY <3>1, <3>2
  <2> QED BY <1>7, <1>8, <2>3, <2>4, <2>5, SeqEqual
<1>10. own[k].stamp <= now
  BY DEF OwnRowKnown
<1> HIDE DEF before, after, i
<1>11. ComparedTo(q, own[k], before)
  BY <1>4 DEF before
<1>12. RowKnown(q, now, after, i)
  BY <1>3, <1>7, <1>9, <1>10, <1>11 DEF RowKnown
<1> QED BY <1>12 DEF after, i

\* Every step keeps what the rows were compared with.
LEMMA RowsStep ==
    ASSUME TypeOK, RowsCompared, OpenCompared, [Next]_vars
    PROVE  RowsCompared' /\ OpenCompared'
<1>1. /\ db \in Seq(CaptureRows) /\ clock \in Nat /\ open \in [Writers -> Opened]
      /\ \A v \in Writers : /\ open[v].rows \in Seq(CaptureRows) /\ open[v].stamp \in Nat
                            /\ DOMAIN open[v].rows = 1..Len(open[v].rows)
                            /\ Len(open[v].rows) \in Nat
      /\ DOMAIN db = 1..Len(db) /\ Len(db) \in Nat
  <2>1. db \in Seq(CaptureRows) /\ clock \in Nat /\ open \in [Writers -> Opened]
    BY InsightsAssumption DEF TypeOK, Opened
  <2>2. \A v \in Writers : open[v].rows \in Seq(CaptureRows) /\ open[v].stamp \in Nat
    BY <2>1 DEF Opened
  <2> QED BY <2>1, <2>2, LenProperties
<1>2. ASSUME db' = db, text' = text, clock' = clock, open' = open
      PROVE  RowsCompared' /\ OpenCompared'
  BY <1>2 DEF RowsCompared, OpenCompared
<1>3. CASE UNCHANGED vars \/ \E r \in Requests : Reads(r)
  <2>1. ASSUME NEW r \in Requests, Reads(r)
        PROVE  UNCHANGED <<db, text, clock, open>>
    BY <2>1 DEF Reads, Call, ReadMetric, ReadPlan, ReadPreviousPlan, CountRegressions,
                ReadRegression, ReadOneRegression, ReadDiagnoses, ReadPage, Executes
  <2> QED BY <1>2, <1>3, <2>1 DEF vars
<1>4. ASSUME NEW w \in Writers, Writes(w)
      PROVE  RowsCompared' /\ OpenCompared'
  <2>1. PICK more \in Seq(CaptureRows) : db' = db \o more
    BY <1>4, WriterTypes DEF Extends
  <2>2. text' = text /\ clock' \in Nat /\ clock <= clock'
    BY <1>4, WriterTypes, InsightsAssumption DEF TypeOK
  <2>3. \A i \in DOMAIN db : RowKnown(text, clock', db', i)
    BY <1>1, <2>1, <2>2, RowGrows DEF RowsCompared
  <2>4. \A v \in Writers :
          /\ open[v].stamp <= clock'
          /\ \A k \in DOMAIN open[v].rows : OwnRowKnown(text, clock', db', open[v].rows, k)
    <3>1. \A v \in Writers : open[v].stamp <= clock'
      BY <1>1, <2>2 DEF OpenCompared
    <3>2. ASSUME NEW v \in Writers, NEW k \in DOMAIN open[v].rows
          PROVE  OwnRowKnown(text, clock', db', open[v].rows, k)
      <4>1. open[v].rows \in Seq(CaptureRows) /\ OwnRowKnown(text, clock, db, open[v].rows, k)
        BY <1>1 DEF OpenCompared
      <4> QED BY <1>1, <2>1, <2>2, <4>1, OwnRowGrows
    <3> QED BY <3>1, <3>2
  \* The others' transactions; and that of w, unless it changes.
  <2>5. ASSUME \A v \in Writers \ {w} : open'[v] = open[v],
               open'[w].stamp <= clock',
               \A k \in DOMAIN open'[w].rows : OwnRowKnown(text, clock', db', open'[w].rows, k)
        PROVE  OpenCompared'
    <3>1. ASSUME NEW v \in Writers
          PROVE  /\ open'[v].stamp <= clock'
                 /\ \A k \in DOMAIN open'[v].rows : OwnRowKnown(text, clock', db', open'[v].rows, k)
      <4>1. CASE v = w
        BY <2>5, <4>1
      <4>2. CASE v # w
        <5>1. open'[v] = open[v]
          BY <2>5, <4>2
        <5> QED BY <2>4, <5>1
      <4> QED BY <4>1, <4>2
    <3> QED BY <2>2, <3>1 DEF OpenCompared
  <2>6. ASSUME db' = db
        PROVE  RowsCompared'
    BY <2>2, <2>3, <2>6 DEF RowsCompared
  <2>7. ASSUME open' = [open EXCEPT ![w] = NoTransaction]
        PROVE  OpenCompared'
    <3>1. open'[w] = NoTransaction /\ \A v \in Writers \ {w} : open'[v] = open[v]
      BY <1>1, <2>7
    <3>2. open'[w].stamp = 0 /\ open'[w].rows = <<>>
      BY <3>1 DEF NoTransaction
    <3>3. DOMAIN open'[w].rows = {}
      BY <3>2
    <3> QED BY <2>2, <2>5, <3>1, <3>2, <3>3
  <2>8. CASE Begin(w)
    <3>1. /\ db' = db /\ clock' = clock + 1
          /\ open' = [open EXCEPT ![w] = [open[w] EXCEPT !.stamp = clock + 1]]
      BY <1>1, <2>8 DEF Begin
    <3>2. /\ open'[w].stamp = clock + 1 /\ open'[w].rows = open[w].rows
          /\ \A v \in Writers \ {w} : open'[v] = open[v]
      BY <1>1, <3>1 DEF Opened
    <3> QED BY <1>1, <2>4, <2>5, <2>6, <3>1, <3>2
  <2>9. CASE LatestMetric(w)
    <3>1. PICK metric : open' = [open EXCEPT ![w] =
                                   [open[w] EXCEPT !.looked = TRUE, !.metric = metric]]
      BY <1>1, <2>9 DEF LatestMetric
    <3>2. /\ open'[w].stamp = open[w].stamp /\ open'[w].rows = open[w].rows
          /\ \A v \in Writers \ {w} : open'[v] = open[v]
      BY <1>1, <3>1 DEF Opened
    <3>3. db' = db
      BY <2>9 DEF LatestMetric
    <3> QED BY <2>4, <2>5, <2>6, <3>2, <3>3
  <2>10. ASSUME NEW c \in Captures, NEW late \in 0..MaxLate, late < open[w].stamp,
                Capture(w, c, open[w].stamp - late)
         PROVE  RowsCompared' /\ OpenCompared'
    <3>1. PICK row \in CaptureRows :
             /\ open' = [open EXCEPT ![w].rows = Append(@, row), ![w].looked = FALSE,
                                     ![w].metric = NoMetric]
             /\ row.stamp = open[w].stamp /\ row.saw = Len(Visible(w))
             /\ ComparedTo(text, row, Visible(w))
      BY <2>10, Captured
    <3>2. /\ open'[w].stamp = open[w].stamp /\ open'[w].rows = Append(open[w].rows, row)
          /\ \A v \in Writers \ {w} : open'[v] = open[v]
      BY <1>1, <3>1 DEF Opened
    <3>3. db' = db
      BY <2>10 DEF Capture
    <3>4. row.stamp <= clock'
      BY <2>4, <3>1
    <3>5. \A k \in DOMAIN open[w].rows : OwnRowKnown(text, clock', db, open[w].rows, k)
      BY <2>4, <3>3
    <3> DEFINE own == open[w].rows
    <3>6. own \in Seq(CaptureRows) /\ row.saw = Len(db \o own) /\ ComparedTo(text, row, db \o own)
      BY <1>1, <3>1 DEF Visible
    <3> HIDE DEF own
    <3>7. \A k \in DOMAIN Append(own, row) : OwnRowKnown(text, clock', db, Append(own, row), k)
      <4>1. \A k \in DOMAIN own : OwnRowKnown(text, clock', db, own, k)
        BY <3>5 DEF own
      <4> QED BY <1>1, <2>2, <3>4, <3>6, <4>1, OwnRowAdded
    <3>8. \A k \in DOMAIN open'[w].rows : OwnRowKnown(text, clock', db', open'[w].rows, k)
      BY <3>2, <3>3, <3>7 DEF own
    <3> QED BY <2>4, <2>5, <2>6, <3>2, <3>3, <3>8
  <2>11. CASE Commit(w)
    <3>1. db' = db \o open[w].rows /\ open' = [open EXCEPT ![w] = NoTransaction]
      BY <2>11 DEF Commit, Ended, Visible
    <3> DEFINE own == open[w].rows
    <3>2. own \in Seq(CaptureRows) /\ DOMAIN own = 1..Len(own) /\ Len(own) \in Nat /\ db' = db \o own
      BY <1>1, <3>1
    <3>3. \A k \in DOMAIN own : OwnRowKnown(text, clock', db, own, k)
      <4>1. \A k \in DOMAIN own : OwnRowKnown(text, clock, db, own, k)
        BY DEF OpenCompared
      <4>2. db \o <<>> = db /\ <<>> \in Seq(CaptureRows)
        BY <1>1, ConcatEmptySeq
      <4> HIDE DEF own
      <4>3. \A k \in DOMAIN own : OwnRowKnown(text, clock', db \o <<>>, own, k)
        BY <1>1, <2>2, <3>2, <4>1, <4>2, OwnRowGrows
      <4> QED BY <4>2, <4>3
    <3> HIDE DEF own
    <3>4. \A k \in DOMAIN own : RowKnown(text, clock', db', Len(db) + k)
      BY <1>1, <2>2, <3>2, <3>3, OwnRowsCommitted
    <3>5. DOMAIN db' = 1..(Len(db) + Len(own))
      BY <1>1, <3>2, ConcatProperties, LenProperties
    <3>6. ASSUME NEW i \in DOMAIN db' PROVE RowKnown(text, clock', db', i)
      <4>1. CASE i \in DOMAIN db
        BY <2>3, <4>1
      <4>2. CASE i \notin DOMAIN db
        <5>1. i - Len(db) \in DOMAIN own /\ Len(db) + (i - Len(db)) = i
          BY <1>1, <3>2, <3>5, <4>2
        <5> QED BY <3>4, <5>1
      <4> QED BY <4>1, <4>2
    <3>7. RowsCompared'
      BY <2>2, <3>6 DEF RowsCompared
    <3> QED BY <2>7, <3>1, <3>7
  <2>12. CASE Rollback(w)
    <3>1. open' = [open EXCEPT ![w] = NoTransaction] /\ db' = db
      BY <2>12 DEF Rollback, Ended
    <3> QED BY <2>6, <2>7, <3>1
  <2> QED BY <1>4, <2>8, <2>9, <2>10, <2>11, <2>12 DEF Writes
<1> QED BY <1>3, <1>4 DEF Next

\* With no row there is nothing to compare.
LEMMA RowsInit == Init => RowsCompared /\ OpenCompared
<1> SUFFICES ASSUME Init PROVE RowsCompared /\ OpenCompared
  OBVIOUS
<1>1. DOMAIN db = {}
  BY DEF Init
<1>2. \A w \in Writers : open[w].stamp = 0 /\ DOMAIN open[w].rows = {}
  BY DEF Init, NoTransaction
<1>3. clock = 0
  BY DEF Init
<1> QED BY <1>1, <1>2, <1>3 DEF RowsCompared, OpenCompared

-----------------------------------------------------------------------------
(* What is known of the answers of a request.                              *)

\* The answers are known of by prefixes, which stay when rows are added.
LEMMA RequestGrows ==
    ASSUME NEW rows \in Seq(CaptureRows), NEW more \in Seq(CaptureRows),
           NEW s \in Responses, NEW endpoint, NEW rest,
           {s.metric, s.plan, s.previous} \subseteq {0} \cup DOMAIN rows,
           RequestKnown(rows, endpoint, s, rest)
    PROVE  RequestKnown(rows \o more, endpoint, s, rest)
<1> DEFINE after == rows \o more
<1>1. /\ Len(rows) \in Nat /\ Len(after) \in Nat /\ Len(rows) <= Len(after)
      /\ DOMAIN rows = 1..Len(rows)
      /\ \A i \in DOMAIN rows : after[i] = rows[i]
      /\ \A n \in 0..Len(rows) : Prefix(after, n) = Prefix(rows, n)
  BY PrefixKept DEF Prefix
<1> HIDE DEF after
<1>2. s.began \in Nat /\ s.ended \in Nat
  BY DEF Responses
<1>3. MetricRead(rows, s, Len(rows)) => MetricRead(after, s, Len(after))
  BY <1>1, <1>2 DEF MetricRead
<1>4. PlanRead(rows, s, Len(rows)) => PlanRead(after, s, Len(after))
  BY <1>1, <1>2 DEF PlanRead
<1>5. PreviousRead(rows, s, Len(rows)) => PreviousRead(after, s, Len(after))
  BY <1>1, <1>2 DEF PreviousRead
<1>6. StoredRead(rows, s) =>
        /\ StoredRead(after, s)
        /\ MetricRead(rows, s, s.ended) => MetricRead(after, s, s.ended)
        /\ PlanRead(rows, s, s.ended) => PlanRead(after, s, s.ended)
        /\ PreviousRead(rows, s, s.ended) => PreviousRead(after, s, s.ended)
  <2> SUFFICES ASSUME StoredRead(rows, s)
               PROVE  /\ StoredRead(after, s)
                      /\ MetricRead(rows, s, s.ended) => MetricRead(after, s, s.ended)
                      /\ PlanRead(rows, s, s.ended) => PlanRead(after, s, s.ended)
                      /\ PreviousRead(rows, s, s.ended) => PreviousRead(after, s, s.ended)
    OBVIOUS
  <2>1. s.ended \in s.began..Len(rows) /\ s.ended \in s.began..Len(after)
        /\ Prefix(after, s.ended) = Prefix(rows, s.ended)
    BY <1>1, <1>2 DEF StoredRead
  <2>2. \A n \in s.began..s.ended : Prefix(after, n) = Prefix(rows, n)
    BY <1>1, <1>2, <2>1
  <2>3. StoredRead(after, s)
    BY <2>1 DEF StoredRead
  <2> QED BY <2>2, <2>3 DEF MetricRead, PlanRead, PreviousRead
<1>7. CountCovers(rows, s) => CountCovers(after, s)
  BY <1>1 DEF CountCovers
<1>8. MetricRead(rows, s, Len(rows)) /\ RegressionCovers(rows, s) => RegressionCovers(after, s)
  <2> SUFFICES ASSUME MetricRead(rows, s, Len(rows)), RegressionCovers(rows, s)
               PROVE  RegressionCovers(after, s)
    OBVIOUS
  <2>1. PICK n \in s.began..Len(rows) : s.metric \in DOMAIN Prefix(rows, n)
    BY DEF MetricRead, Newest
  <2>2. DOMAIN Prefix(rows, n) = 1..n
    BY <1>1, <1>2, <2>1, PrefixIs DEF Prefix
  <2>3. after[s.metric] = rows[s.metric]
    BY <1>1, <1>2, <2>1, <2>2
  <2> QED BY <2>3 DEF RegressionCovers
<1>9. s.began <= Len(after)
  <2>1. s.began <= Len(rows)
    BY DEF RequestKnown
  <2> QED BY <1>1, <1>2, <2>1
<1>10. /\ ListRequest(rows, s, rest) => ListRequest(after, s, rest)
       /\ DetailRequest(rows, s, rest) => DetailRequest(after, s, rest)
  BY <1>3, <1>7 DEF ListRequest, DetailRequest
<1>11. AdviceRequest(rows, s, rest) => AdviceRequest(after, s, rest)
  BY <1>3, <1>8 DEF AdviceRequest
<1>12. DiagnosticsRequest(rows, s, rest) => DiagnosticsRequest(after, s, rest)
  BY <1>3, <1>4, <1>5, <1>6 DEF DiagnosticsRequest
<1>13. RequestKnown(after, endpoint, s, rest)
  BY <1>9, <1>10, <1>11, <1>12 DEF RequestKnown
<1> QED BY <1>13 DEF after

\* What statement st leaves in the answers t, which were s before.
Returns(rows, st, s, t) ==
    /\ t.began = s.began
    /\ IF st \in {"metric", "page"} THEN t.metric \in Newest(rows, DOMAIN rows)
       ELSE t.metric = s.metric
    /\ IF st = "plan" THEN t.plan \in OrNone(Newest(rows, Planned(rows))) ELSE t.plan = s.plan
    /\ IF st = "previous" THEN t.previous \in OrNone(SecondNewest(rows, Planned(rows)))
       ELSE t.previous = s.previous
    /\ st \in {"count", "page"} => t.count = RegressionsOf(rows)
    /\ st = "stored" => t.stored \in NewestDiagnoses(rows) /\ t.ended = Len(rows)
    /\ st = "regression" =>
        \A i \in DOMAIN rows : rows[i].regressions # <<>> => t.regressedAt >= rows[i].stamp

\* The regression that was created last is not older than any.
LEMMA NewestRegression ==
    ASSUME TypeOK, RowsCompared, NEW i \in DOMAIN db, db[i].regressions # <<>>
    PROVE  LET regressed == {j \in DOMAIN db : db[j].regressions # <<>>}
           IN \E j \in regressed : \A l \in regressed : db[l].stamp <= db[j].stamp
<1> DEFINE regressed == {j \in DOMAIN db : db[j].regressions # <<>>}
           ages == {clock - db[j].stamp : j \in regressed}
<1>1. \A j \in regressed : db[j].stamp \in Nat /\ db[j].stamp <= clock
  <2>1. \A j \in DOMAIN db : db[j] \in CaptureRows
    BY LenProperties, ElementOfSeq DEF TypeOK
  <2> QED BY <2>1 DEF CaptureRows, RowsCompared, RowKnown
<1>2. clock \in Nat
  BY InsightsAssumption DEF TypeOK
<1>3. ages \subseteq Nat /\ ages # {}
  BY <1>1, <1>2
<1>4. PICK x \in ages : \A y \in ages : x <= y
  <2> HIDE DEF ages
  <2> QED BY <1>3, SmallestOf
<1>5. PICK j \in regressed : x = clock - db[j].stamp
  BY <1>4
<1>6. ASSUME NEW l \in regressed PROVE db[l].stamp <= db[j].stamp
  <2>1. clock - db[j].stamp <= clock - db[l].stamp
    BY <1>4, <1>5
  <2>2. db[l].stamp \in Nat /\ db[j].stamp \in Nat
    BY <1>1
  <2> HIDE DEF regressed
  <2> QED BY <1>2, <2>1, <2>2
<1> QED BY <1>5, <1>6

\* A reading step is a call or it executes the next statement.
LEMMA ReaderReturns ==
    ASSUME TypeOK, RowsCompared, NEW r \in Requests, Reads(r)
    PROVE  \/ \E e \in Endpoints : Call(r, e)
           \/ \E st \in StatementNames : \E t : Executes(r, st, t) /\ Returns(db, st, seen[r], t)
<1>1. seen[r] \in Responses /\ db \in Seq(CaptureRows)
  BY DEF TypeOK
<1> DEFINE s == seen[r]
<1>2. CASE ReadMetric(r)
  <2>1. PICK i \in Newest(db, DOMAIN db) : Executes(r, "metric", [s EXCEPT !.metric = i])
    BY <1>2 DEF ReadMetric
  <2>2. Returns(db, "metric", s, [s EXCEPT !.metric = i])
    BY <1>1, <2>1 DEF Returns, Responses
  <2> QED BY <2>1, <2>2 DEF StatementNames
<1>3. CASE ReadPlan(r)
  <2>1. PICK i \in OrNone(Newest(db, Planned(db))) : Executes(r, "plan", [s EXCEPT !.plan = i])
    BY <1>3 DEF ReadPlan
  <2>2. Returns(db, "plan", s, [s EXCEPT !.plan = i])
    BY <1>1, <2>1 DEF Returns, Responses
  <2> QED BY <2>1, <2>2 DEF StatementNames
<1>4. CASE ReadPreviousPlan(r)
  <2>1. PICK i \in OrNone(SecondNewest(db, Planned(db))) :
          Executes(r, "previous", [s EXCEPT !.previous = i])
    BY <1>4 DEF ReadPreviousPlan
  <2>2. Returns(db, "previous", s, [s EXCEPT !.previous = i])
    BY <1>1, <2>1 DEF Returns, Responses
  <2> QED BY <2>1, <2>2 DEF StatementNames
<1>5. CASE CountRegressions(r)
  <2>1. Returns(db, "count", s, [s EXCEPT !.count = RegressionsOf(db)])
    BY <1>1 DEF Returns, Responses
  <2> QED BY <1>5, <2>1 DEF StatementNames, CountRegressions
<1>6. CASE ReadRegression(r)
  <2> DEFINE regressed == {i \in DOMAIN db : db[i].regressions # <<>>}
             last == {i \in regressed : \A j \in regressed : db[j].stamp <= db[i].stamp}
  <2>1. CASE last = {}
    <3>1. \A i \in DOMAIN db : db[i].regressions = <<>>
      BY <2>1, NewestRegression
    <3>2. Returns(db, "regression", s, s)
      BY <3>1 DEF Returns
    <3> QED BY <1>6, <2>1, <3>2 DEF ReadRegression, StatementNames
  <2>2. CASE last # {}
    <3>1. PICK i \in last : \E k \in DOMAIN db[i].regressions :
             Executes(r, "regression", [s EXCEPT
                 !.regression = db[i].regressions[k].type, !.regressedAt = db[i].stamp])
      BY <1>6, <2>2 DEF ReadRegression
    <3>2. PICK type : Executes(r, "regression", [s EXCEPT !.regression = type,
                                                          !.regressedAt = db[i].stamp])
      BY <3>1
    <3>3. \A j \in DOMAIN db : db[j].regressions # <<>> => db[i].stamp >= db[j].stamp
      BY <3>1
    <3>4. Returns(db, "regression", s, [s EXCEPT !.regression = type, !.regressedAt = db[i].stamp])
      BY <1>1, <3>3 DEF Returns, Responses
    <3> QED BY <3>2, <3>4 DEF StatementNames
  <2> QED BY <2>1, <2>2
<1>7. CASE ReadOneRegression(r)
  <2>1. PICK type, at : Executes(r, "one regression", [s EXCEPT !.regression = type,
                                                               !.regressedAt = at])
    BY <1>7 DEF ReadOneRegression
  <2>2. Returns(db, "one regression", s, [s EXCEPT !.regression = type, !.regressedAt = at])
    BY <1>1 DEF Returns, Responses
  <2> QED BY <2>1, <2>2 DEF StatementNames
<1>8. CASE ReadDiagnoses(r)
  <2>1. PICK shown \in NewestDiagnoses(db) :
          Executes(r, "stored", [s EXCEPT !.stored = shown, !.ended = Len(db)])
    BY <1>8 DEF ReadDiagnoses
  <2>2. Returns(db, "stored", s, [s EXCEPT !.stored = shown, !.ended = Len(db)])
    BY <1>1, <2>1 DEF Returns, Responses
  <2> QED BY <2>1, <2>2 DEF StatementNames
<1>9. CASE ReadPage(r)
  <2>1. PICK i \in Newest(db, DOMAIN db) :
          Executes(r, "page", [s EXCEPT !.metric = i, !.count = RegressionsOf(db)])
    BY <1>9 DEF ReadPage, ListedMetrics
  <2>2. Returns(db, "page", s, [s EXCEPT !.metric = i, !.count = RegressionsOf(db)])
    BY <1>1, <2>1 DEF Returns, Responses
  <2> QED BY <2>1, <2>2 DEF StatementNames
<1> QED BY <1>2, <1>3, <1>4, <1>5, <1>6, <1>7, <1>8, <1>9 DEF Reads

\* All regressions are at least as many as those of a prefix.
LEMMA RegressionsGrow ==
    ASSUME NEW rows \in Seq(CaptureRows), NEW n \in 0..Len(rows)
    PROVE  RegressionsOf(rows) >= RegressionsOf(Prefix(rows, n))
<1>1. /\ Prefix(rows, n) \in Seq(CaptureRows) /\ DOMAIN Prefix(rows, n) = 1..n
      /\ \A i \in 1..n : Prefix(rows, n)[i] = rows[i] /\ i \in DOMAIN rows
  BY PrefixIs DEF Prefix
<1>2. Regressed(Prefix(rows, n)) \subseteq Regressed(rows)
  BY <1>1 DEF Regressed
<1>3. IsFiniteSet(Regressed(rows))
  BY StoredFinite
<1>4. Cardinality(Regressed(Prefix(rows, n))) <= Cardinality(Regressed(rows))
      /\ Cardinality(Regressed(Prefix(rows, n))) \in Nat /\ Cardinality(Regressed(rows)) \in Nat
  BY <1>2, <1>3, FS_Subset, FS_CardinalityType
<1> QED BY <1>4 DEF RegressionsOf

\* The next statement and the rest.
LEMMA Rests ==
    /\ Head(<<"page">>) = "page" /\ Tail(<<"page">>) = <<>>
    /\ Head(<<"metric", "plan", "count">>) = "metric"
    /\ Tail(<<"metric", "plan", "count">>) = <<"plan", "count">>
    /\ Head(<<"plan", "count">>) = "plan" /\ Tail(<<"plan", "count">>) = <<"count">>
    /\ Head(<<"count">>) = "count" /\ Tail(<<"count">>) = <<>>
    /\ Head(<<"metric", "plan", "regression">>) = "metric"
    /\ Tail(<<"metric", "plan", "regression">>) = <<"plan", "regression">>
    /\ Head(<<"plan", "regression">>) = "plan" /\ Tail(<<"plan", "regression">>) = <<"regression">>
    /\ Head(<<"regression">>) = "regression" /\ Tail(<<"regression">>) = <<>>
    /\ Head(<<"metric", "plan", "previous", "stored">>) = "metric"
    /\ Tail(<<"metric", "plan", "previous", "stored">>) = <<"plan", "previous", "stored">>
    /\ Head(<<"plan", "previous", "stored">>) = "plan"
    /\ Tail(<<"plan", "previous", "stored">>) = <<"previous", "stored">>
    /\ Head(<<"previous", "stored">>) = "previous" /\ Tail(<<"previous", "stored">>) = <<"stored">>
    /\ Head(<<"stored">>) = "stored" /\ Tail(<<"stored">>) = <<>>
    /\ Tail(<<"one regression", "metric", "plan">>) = <<"metric", "plan">>
    /\ Tail(<<"metric", "plan">>) = <<"plan">> /\ Tail(<<"plan">>) = <<>>
OBVIOUS

\* A statement adds to what is known.
LEMMA StatementKnown ==
    ASSUME NEW rows \in Seq(CaptureRows), NEW s \in Responses, NEW t \in Responses,
           NEW endpoint \in Endpoints \cup {"none"}, NEW rest, rest # <<>>,
           {s.metric, s.plan, s.previous} \subseteq {0} \cup DOMAIN rows,
           RequestKnown(rows, endpoint, s, rest), Returns(rows, Head(rest), s, t)
    PROVE  RequestKnown(rows, endpoint, t, Tail(rest))
<1> DEFINE st == Head(rest)
           now == Len(rows)
<1>1. /\ now \in Nat /\ DOMAIN rows = 1..now /\ Prefix(rows, now) = rows
      /\ s.began \in Nat /\ s.began <= now /\ t.began = s.began /\ now \in s.began..now
      /\ t.metric \in Nat
  <2>1. now \in Nat /\ DOMAIN rows = 1..now /\ Prefix(rows, now) = rows
    BY LenProperties, WholePrefix
  <2>2. s.began \in Nat /\ t.metric \in Nat
    BY DEF Responses
  <2>3. s.began <= now /\ t.began = s.began
    BY DEF RequestKnown, Returns
  <2> QED BY <2>1, <2>2, <2>3
<1>2. st \in {"metric", "page"} => MetricRead(rows, t, now) /\ t.metric \in DOMAIN rows
  BY <1>1 DEF Returns, MetricRead, Newest
<1>3. st \notin {"metric", "page"} =>
        t.metric = s.metric /\ (MetricRead(rows, s, now) => MetricRead(rows, t, now))
  BY <1>1 DEF Returns, MetricRead
<1>4. st = "plan" => PlanRead(rows, t, now)
  BY <1>1 DEF Returns, PlanRead
<1>5. st # "plan" => (PlanRead(rows, s, now) => PlanRead(rows, t, now))
  BY <1>1 DEF Returns, PlanRead
<1>6. st = "previous" => PreviousRead(rows, t, now)
  BY <1>1 DEF Returns, PreviousRead
<1>7. st # "previous" => (PreviousRead(rows, s, now) => PreviousRead(rows, t, now))
  BY <1>1 DEF Returns, PreviousRead
<1>8. st \in {"count", "page"} => CountCovers(rows, t)
  <2>1. t.metric \in 0..now
    BY <1>1, <1>2, <1>3 DEF Returns
  <2> QED BY <2>1, RegressionsGrow DEF CountCovers, Returns
<1>9. st = "stored" => StoredRead(rows, t) /\ t.ended = now
  BY <1>1 DEF Returns, StoredRead
<1>10. st = "regression" /\ MetricRead(rows, s, now) => RegressionCovers(rows, t)
  <2> SUFFICES ASSUME st = "regression", MetricRead(rows, s, now) PROVE RegressionCovers(rows, t)
    OBVIOUS
  <2>1. PICK n \in s.began..now : s.metric \in DOMAIN Prefix(rows, n)
    BY DEF MetricRead, Newest
  <2>2. DOMAIN Prefix(rows, n) = 1..n
    BY <1>1, <2>1, PrefixIs DEF Prefix
  <2>3. t.metric \in DOMAIN rows
    BY <1>1, <1>3, <2>1, <2>2
  <2> QED BY <2>3 DEF Returns, RegressionCovers
<1> HIDE DEF st
<1>11. CASE endpoint = "list"
  <2>1. rest = <<"page">>
    BY <1>11 DEF RequestKnown, ListRequest
  <2> QED BY <1>1, <1>2, <1>8, <1>11, <2>1, Rests DEF RequestKnown, ListRequest, st
<1>12. CASE endpoint = "detail"
  <2>1. \/ rest = <<"metric", "plan", "count">>
        \/ rest = <<"plan", "count">> /\ MetricRead(rows, s, now)
        \/ rest = <<"count">> /\ MetricRead(rows, s, now)
    BY <1>12 DEF RequestKnown, DetailRequest
  <2>2. DetailRequest(rows, t, Tail(rest))
    BY <1>2, <1>3, <1>8, <2>1, Rests DEF DetailRequest, st
  <2> QED BY <1>1, <1>12, <2>2 DEF RequestKnown
<1>13. CASE endpoint = "recommendations"
  <2>1. \/ rest = <<"metric", "plan", "regression">>
        \/ rest = <<"plan", "regression">> /\ MetricRead(rows, s, now)
        \/ rest = <<"regression">> /\ MetricRead(rows, s, now)
    BY <1>13 DEF RequestKnown, AdviceRequest
  <2>2. AdviceRequest(rows, t, Tail(rest))
    BY <1>2, <1>3, <1>10, <2>1, Rests DEF AdviceRequest, st
  <2> QED BY <1>1, <1>13, <2>2 DEF RequestKnown
<1>14. CASE endpoint = "diagnostics"
  <2>1. \/ rest = <<"metric", "plan", "previous", "stored">>
        \/ rest = <<"plan", "previous", "stored">> /\ MetricRead(rows, s, now)
        \/ rest = <<"previous", "stored">> /\ MetricRead(rows, s, now) /\ PlanRead(rows, s, now)
        \/ rest = <<"stored">> /\ MetricRead(rows, s, now) /\ PlanRead(rows, s, now)
                               /\ PreviousRead(rows, s, now)
    BY <1>14 DEF RequestKnown, DiagnosticsRequest
  <2>2. DiagnosticsRequest(rows, t, Tail(rest))
    BY <1>2, <1>3, <1>4, <1>5, <1>6, <1>7, <1>9, <2>1, Rests DEF DiagnosticsRequest, st
  <2> QED BY <1>1, <1>14, <2>2 DEF RequestKnown
<1>15. CASE endpoint = "regression advice"
  <2>1. Tail(rest) \in {<<"metric", "plan">>, <<"plan">>, <<>>}
    BY <1>15, Rests DEF RequestKnown
  <2> QED BY <1>1, <1>15, <2>1 DEF RequestKnown
<1>16. endpoint # "none"
  BY DEF RequestKnown
<1> QED BY <1>11, <1>12, <1>13, <1>14, <1>15, <1>16 DEF Endpoints

\* Every step keeps what is known of the requests.
LEMMA RequestsStep ==
    ASSUME TypeOK, TypeOK', RowsCompared, RequestsKnown, [Next]_vars
    PROVE  RequestsKnown'
<1>1. /\ db \in Seq(CaptureRows)
      /\ \A r \in Requests :
           /\ seen[r] \in Responses /\ seen'[r] \in Responses
           /\ kind[r] \in Endpoints \cup {"none"}
           /\ {seen[r].metric, seen[r].plan, seen[r].previous} \subseteq {0} \cup DOMAIN db
  BY DEF TypeOK
<1>2. /\ kind \in [Requests -> Endpoints \cup {"none"}] /\ seen \in [Requests -> Responses]
      /\ todo \in [Requests -> Seq(StatementNames)]
  BY DEF TypeOK
<1>3. CASE UNCHANGED vars
  BY <1>3 DEF RequestsKnown, vars
<1>4. ASSUME NEW w \in Writers, Writes(w)
      PROVE  RequestsKnown'
  <2>1. /\ kind' = kind /\ todo' = todo /\ seen' = seen
        /\ \E more \in Seq(CaptureRows) : db' = db \o more
    BY <1>4, WriterTypes DEF Extends
  <2>2. PICK more \in Seq(CaptureRows) : db' = db \o more
    BY <2>1
  <2>3. \A r \in Requests : RequestKnown(db', kind[r], seen[r], todo[r])
    BY <1>1, <2>2, RequestGrows DEF RequestsKnown
  <2> QED BY <2>1, <2>3 DEF RequestsKnown
<1>5. ASSUME NEW r \in Requests, db' = db,
             \A q \in Requests \ {r} : kind'[q] = kind[q] /\ seen'[q] = seen[q] /\ todo'[q] = todo[q],
             RequestKnown(db, kind'[r], seen'[r], todo'[r])
      PROVE  RequestsKnown'
  BY <1>5 DEF RequestsKnown
<1>6. ASSUME NEW r \in Requests, NEW e \in Endpoints, Call(r, e)
      PROVE  RequestsKnown'
  <2>1. /\ kind' = [kind EXCEPT ![r] = e]
        /\ todo' = [todo EXCEPT ![r] = Statements[e]]
        /\ seen' = [seen EXCEPT ![r].began = Len(db)] /\ db' = db
    BY <1>6 DEF Call
  <2>2. /\ kind'[r] = e /\ todo'[r] = Statements[e] /\ seen'[r].began = Len(db)
        /\ \A q \in Requests \ {r} : kind'[q] = kind[q] /\ seen'[q] = seen[q] /\ todo'[q] = todo[q]
    BY <1>1, <1>2, <2>1 DEF Responses
  <2>3. Len(db) \in Nat
    BY <1>1, LenProperties
  <2>4. RequestKnown(db, e, seen'[r], Statements[e])
    <3> DEFINE s == seen'[r]
    <3>1. s.began <= Len(db)
      BY <2>2, <2>3
    <3>2. /\ e = "list" => Statements[e] = <<"page">>
          /\ e = "detail" => Statements[e] = <<"metric", "plan", "count">>
          /\ e = "diagnostics" => Statements[e] = <<"metric", "plan", "previous", "stored">>
          /\ e = "recommendations" => Statements[e] = <<"metric", "plan", "regression">>
          /\ e = "regression advice" => Statements[e] = <<"one regression", "metric", "plan">>
      BY DEF Statements, Endpoints
    <3>3. e # "none"
      BY DEF Endpoints
    <3> HIDE DEF s
    <3>4. RequestKnown(db, e, s, Statements[e])
      BY <3>1, <3>2, <3>3 DEF RequestKnown, ListRequest, DetailRequest, AdviceRequest,
                              DiagnosticsRequest
    <3> QED BY <3>4 DEF s
  <2> QED BY <1>5, <2>1, <2>2, <2>4
<1>7. ASSUME NEW r \in Requests, NEW st \in StatementNames, NEW t,
             Executes(r, st, t), Returns(db, st, seen[r], t)
      PROVE  RequestsKnown'
  <2>1. /\ todo[r] # <<>> /\ Head(todo[r]) = st
        /\ todo' = [todo EXCEPT ![r] = Tail(todo[r])]
        /\ seen' = [seen EXCEPT ![r] = t] /\ db' = db /\ kind' = kind
    BY <1>7 DEF Executes
  <2>2. /\ todo'[r] = Tail(todo[r]) /\ seen'[r] = t /\ kind'[r] = kind[r]
        /\ \A q \in Requests \ {r} : kind'[q] = kind[q] /\ seen'[q] = seen[q] /\ todo'[q] = todo[q]
    BY <1>2, <2>1
  <2>3. t \in Responses /\ RequestKnown(db, kind[r], seen[r], todo[r])
    BY <1>1, <2>2 DEF RequestsKnown
  <2>4. RequestKnown(db, kind[r], t, Tail(todo[r]))
    BY <1>1, <1>7, <2>1, <2>3, StatementKnown
  <2> QED BY <1>5, <2>1, <2>2, <2>4
<1>8. ASSUME NEW r \in Requests, Reads(r)
      PROVE  RequestsKnown'
  BY <1>6, <1>7, <1>8, ReaderReturns
<1> QED BY <1>3, <1>4, <1>8 DEF Next

\* The inductive invariant holds in every state.
LEMMA InsightsInvariant == Spec => []IInv
<1>1. Init => IInv
  <2> SUFFICES ASSUME Init PROVE IInv
    OBVIOUS
  <2>1. TypeOK /\ RowsCompared /\ OpenCompared
    BY TypeInit, RowsInit
  <2>2. /\ db = <<>> /\ Len(db) = 0
        /\ \A r \in Requests : kind[r] = "none" /\ seen[r].began = 0 /\ todo[r] = <<>>
    BY DEF Init, NothingSeen
  <2>3. ASSUME NEW r \in Requests PROVE RequestKnown(db, kind[r], seen[r], todo[r])
    <3>1. kind[r] = "none" /\ todo[r] = <<>> /\ seen[r].began <= Len(db)
      BY <2>2
    <3> QED BY <3>1 DEF RequestKnown
  <2> QED BY <2>1, <2>3 DEF IInv, RequestsKnown
<1>2. IInv /\ [Next]_vars => IInv'
  BY TypeStep, RowsStep, RequestsStep DEF IInv
<1> QED BY <1>1, <1>2, PTL DEF Spec

-----------------------------------------------------------------------------
(* What follows.                                                           *)

\* Every row was diagnosed and compared with one and the same previous plan.
LEMMA RowFound ==
    ASSUME TypeOK, RowsCompared, NEW i \in DOMAIN db
    PROVE  /\ db[i] \in CaptureRows /\ db[i].plan \in Plans \cup {NoPlan}
           /\ \E before \in Seq(CaptureRows) :
                /\ db[i].saw = i - 1 => before = Prefix(db, i - 1)
                /\ \E p \in OrNone(Newest(before, Planned(before))) :
                   \E prevM, isVector :
                     /\ db[i].regressions = DetectRegressions(prevM, db[i].metric,
                                                PlanAt(before, p), db[i].plan, isVector)
                     /\ db[i].diagnoses = DiagnoseQuery(text, db[i].metric, db[i].plan,
                                                PlanAt(before, p), db[i].tree)
<1>1. db[i] \in CaptureRows
  BY LenProperties, ElementOfSeq DEF TypeOK
<1>2. db[i].plan \in Plans \cup {NoPlan}
  BY <1>1 DEF CaptureRows
<1>3. PICK before \in Seq(CaptureRows) :
        ComparedTo(text, db[i], before) /\ (db[i].saw = i - 1 => before = Prefix(db, i - 1))
  BY DEF RowsCompared, RowKnown
<1>4. PICK p \in OrNone(Newest(before, Planned(before))), prevM \in Metrics \cup {NoMetric},
           isVector \in BOOLEAN :
        /\ db[i].regressions =
              DetectRegressions(prevM, db[i].metric, PlanAt(before, p), db[i].plan, isVector)
        /\ db[i].diagnoses =
              DiagnoseQuery(text, db[i].metric, db[i].plan, PlanAt(before, p), db[i].tree)
  BY <1>3 DEF ComparedTo
<1> QED BY <1>1, <1>2, <1>3, <1>4

\* What both rule sets look for, both find (core/regression_detector.py and
\* core/diagnostics.py), for every setting of the thresholds; but a bypassed
\* vector index that a run captured only the diagnoser (core/collector.py).
THEOREM SameFindings == Spec => []RulesAgree
<1> DEFINE Agree(w) == \A i \in DOMAIN open[w].rows : RowAgrees(open[w].rows[i], w \in Streams)
<1>1. RulesAgree <=> \A w \in Writers : Agree(w)
  BY DEF RulesAgree, RowAgrees
<1>2. Init => RulesAgree
  <2>1. ASSUME Init PROVE \A w \in Writers : open[w].rows = <<>>
    BY <2>1 DEF Init, NoTransaction
  <2> QED BY <2>1 DEF RulesAgree
<1>3. ASSUME TypeOK, \A v \in Writers : Agree(v), NEW w \in Writers, Writes(w)
      PROVE  (\A v \in Writers : Agree(v))'
  <2>1. open \in [Writers -> Opened] /\ open[w] \in Opened /\ open[w].rows \in Seq(CaptureRows)
    BY <1>3 DEF TypeOK, Opened
  <2>2. CASE open' = [open EXCEPT ![w] = NoTransaction]
    <3>1. \A v \in Writers : open'[v].rows = IF v = w THEN <<>> ELSE open[v].rows
      BY <2>1, <2>2 DEF NoTransaction
    <3> QED BY <1>3, <3>1
  <2>3. CASE \A v \in Writers : open'[v].rows = open[v].rows
    BY <1>3, <2>3
  <2>4. ASSUME NEW c \in Captures, NEW late \in 0..MaxLate, late < open[w].stamp,
               Capture(w, c, open[w].stamp - late)
        PROVE  (\A v \in Writers : Agree(v))'
    <3>1. PICK row \in CaptureRows :
            /\ open' = [open EXCEPT ![w].rows = Append(@, row), ![w].looked = FALSE,
                                    ![w].metric = NoMetric]
            /\ RowAgrees(row, w \in Streams)
      BY <1>3, <2>4, Captured
    <3>2. \A v \in Writers :
            open'[v].rows = IF v = w THEN Append(open[w].rows, row) ELSE open[v].rows
      BY <2>1, <3>1 DEF Opened
    <3>3. ASSUME NEW i \in DOMAIN Append(open[w].rows, row)
          PROVE  RowAgrees(Append(open[w].rows, row)[i], w \in Streams)
      <4>1. \/ i \in DOMAIN open[w].rows /\ Append(open[w].rows, row)[i] = open[w].rows[i]
            \/ Append(open[w].rows, row)[i] = row
        BY <2>1, <3>1, <3>3, AppendProperties, LenProperties
      <4> QED BY <1>3, <3>1, <4>1
    <3> QED BY <1>3, <3>2, <3>3
  <2>5. CASE Begin(w) \/ LatestMetric(w)
    <3>1. \A v \in Writers : open'[v].rows = open[v].rows
      <4>1. CASE Begin(w)
        <5>1. open' = [open EXCEPT ![w] = [open[w] EXCEPT !.stamp = clock + 1]]
          BY <2>1, <4>1 DEF Begin
        <5>2. [open[w] EXCEPT !.stamp = clock + 1].rows = open[w].rows
          BY <2>1 DEF Opened
        <5> QED BY <2>1, <5>1, <5>2
      <4>2. CASE LatestMetric(w)
        <5>1. PICK metric :
                open' = [open EXCEPT ![w] = [open[w] EXCEPT !.looked = TRUE, !.metric = metric]]
          BY <2>1, <4>2 DEF LatestMetric
        <5>2. [open[w] EXCEPT !.looked = TRUE, !.metric = metric].rows = open[w].rows
          BY <2>1 DEF Opened
        <5> QED BY <2>1, <5>1, <5>2
      <4> QED BY <2>5, <4>1, <4>2
    <3> QED BY <2>3, <3>1
  <2>6. CASE Commit(w) \/ Rollback(w)
    BY <2>2, <2>6 DEF Commit, Rollback, Ended
  <2> QED BY <1>3, <2>4, <2>5, <2>6 DEF Writes
<1>4. ASSUME NEW r \in Requests, Reads(r) PROVE open' = open
  BY <1>4 DEF Reads, Call, ReadMetric, ReadPlan, ReadPreviousPlan, CountRegressions,
              ReadRegression, ReadOneRegression, ReadDiagnoses, ReadPage, Executes
<1>5. TypeOK /\ RulesAgree /\ [Next]_vars => RulesAgree'
  <2> SUFFICES ASSUME TypeOK, RulesAgree, [Next]_vars PROVE RulesAgree'
    OBVIOUS
  <2>1. CASE UNCHANGED open
    BY <2>1 DEF RulesAgree
  <2>2. CASE \E w \in Writers : Writes(w)
    BY <1>1, <1>3, <2>2 DEF RulesAgree, RowAgrees
  <2> QED BY <1>4, <2>1, <2>2 DEF Next, vars
<1> QED BY <1>2, <1>5, TypeCorrect, PTL DEF Spec

\* A response never lags behind the metric it shows: its count and its newest
\* regression cover what was found with that metric (api/queries.py).
THEOREM RegressionsCovered == Spec => []RegressionsCoverShown
<1>1. ASSUME IInv PROVE RegressionsCoverShown
  <2>1. ASSUME NEW r \in Requests, Responded(r, "list") \/ Responded(r, "detail")
        PROVE  seen[r].count >= RegressionsOf(SubSeq(db, 1, seen[r].metric))
    <3>1. RequestKnown(db, kind[r], seen[r], todo[r]) /\ todo[r] = <<>>
          /\ kind[r] \in {"list", "detail"}
      BY <1>1, <2>1 DEF IInv, RequestsKnown, Responded
    <3>2. CountCovers(db, seen[r])
      BY <3>1 DEF RequestKnown, ListRequest, DetailRequest
    <3> QED BY <3>2 DEF CountCovers, Prefix
  <2>2. ASSUME NEW r \in Requests, Responded(r, "recommendations")
        PROVE  RegressionCovers(db, seen[r])
    <3>1. RequestKnown(db, kind[r], seen[r], todo[r]) /\ todo[r] = <<>>
          /\ kind[r] = "recommendations"
      BY <1>1, <2>2 DEF IInv, RequestsKnown, Responded
    <3> QED BY <3>1 DEF RequestKnown, AdviceRequest
  <2> QED BY <2>1, <2>2 DEF RegressionsCoverShown, RegressionCovers
<1> QED BY <1>1, InsightsInvariant, PTL

\* A late event does not become what later captures are compared with
\* (streaming/ingest.py and core/collector.py order by captured_at).
THEOREM NewestCompared == Spec => []ComparedWithNewest
<1>1. ASSUME IInv PROVE ComparedWithNewest
  <2>1. ASSUME NEW i \in DOMAIN db, db[i].saw = i - 1,
               "index_scan_to_seq_scan" \in Types(db[i].regressions)
        PROVE  LET before == SubSeq(db, 1, i - 1) IN
               \E j \in Planned(before) :
                 before[j].plan.idx /\ \A k \in Planned(before) : before[k].at <= before[j].at
    <3> DEFINE before == SubSeq(db, 1, i - 1)
    <3>1. PICK p \in OrNone(Newest(before, Planned(before))) :
            \E prevM, isVector : db[i].regressions =
               DetectRegressions(prevM, db[i].metric, PlanAt(before, p), db[i].plan, isVector)
      <4>1. PICK b \in Seq(CaptureRows) :
              /\ db[i].saw = i - 1 => b = Prefix(db, i - 1)
              /\ \E p \in OrNone(Newest(b, Planned(b))) :
                 \E prevM, isVector : db[i].regressions =
                    DetectRegressions(prevM, db[i].metric, PlanAt(b, p), db[i].plan, isVector)
        BY <1>1, RowFound DEF IInv
      <4>2. b = before
        BY <2>1, <4>1 DEF Prefix
      <4> QED BY <4>1, <4>2
    <3> HIDE DEF before
    <3>2. PlanAt(before, p) # NoPlan /\ PlanAt(before, p).idx
      BY <2>1, <3>1, DetectedTypes
    <3>3. p # 0 /\ before[p].plan.idx
      BY <3>2 DEF PlanAt
    <3>4. p \in Newest(before, Planned(before))
      BY <3>1, <3>3 DEF OrNone
    <3> QED BY <3>3, <3>4 DEF Newest, before
  <2> QED BY <2>1 DEF ComparedWithNewest
<1> QED BY <1>1, InsightsInvariant, PTL

\* Advice agrees with what the captures recorded (core/recommendations.py and
\* core/performance_agent.py against core/diagnostics.py).
THEOREM AdviceSound == Spec => []AdviceAgrees
<1>1. ASSUME IInv PROVE AdviceAgrees
  <2>1. ASSUME NEW r \in Requests, seen[r].plan # 0
        PROVE  LET row == db[seen[r].plan]
                   advised == Range(Advice(r))
                   misestimated == "row_estimate_mismatch" \in Types(row.diagnoses)
               IN /\ "stale-statistics" \in advised <=> misestimated /\ row.plan.est # 0
                  /\ seen[r].metric = seen[r].plan /\ "seq-scan-index-suggestion" \in advised
                       => "missing_index_candidate" \in Types(row.diagnoses)
                  /\ Report(r).recommendation = "none" /\ misestimated => row.plan.est = 0
    <3> DEFINE row == db[seen[r].plan]
               metric == MetricAt(db, seen[r].metric)
               recs == RecommendForQuery(text, metric, row.plan, seen[r].regression)
    <3>1. seen[r].plan \in DOMAIN db /\ text \in Texts
      BY <1>1, <2>1, InsightsAssumption DEF IInv, TypeOK
    <3>2. PICK prevP : row.diagnoses = DiagnoseQuery(text, row.metric, row.plan, prevP, row.tree)
      BY <1>1, <3>1, RowFound DEF IInv
    <3>3. PlanAt(db, seen[r].plan) = row.plan
      BY <2>1 DEF PlanAt
    <3>4. Advice(r) = recs
      BY <3>3 DEF Advice
    <3>5. seen[r].metric = seen[r].plan => metric = row.metric
      BY <2>1 DEF MetricAt
    <3> HIDE DEF row, metric, recs
    <3>6. /\ "row_estimate_mismatch" \in Types(row.diagnoses) <=> Misestimated(row.plan)
          /\ "missing_index_candidate" \in Types(row.diagnoses)
               <=> row.plan # NoPlan /\ row.plan.seq /\ text.shape /\ ManyRows(row.metric, row.plan)
      BY <3>2, DiagnosedTypes
    <3>7. /\ "seq-scan-index-suggestion" \in Range(recs)
               <=> row.plan # NoPlan /\ row.plan.seq /\ text.where /\ metric # NoMetric
                   /\ metric.rows >= 1000
          /\ "stale-statistics" \in Range(recs)
               <=> row.plan # NoPlan /\ OrZero(row.plan.est) > 0
                   /\ OffBy(row.plan.act, row.plan.est, 10)
      BY Recommended DEF recs
    <3>8. "stale-statistics" \in Range(recs)
            <=> "row_estimate_mismatch" \in Types(row.diagnoses) /\ row.plan.est # 0
      <4>1. row.plan # NoPlan /\ OffBy(row.plan.act, row.plan.est, 10)
              => (OrZero(row.plan.est) > 0 <=> row.plan.est # 0)
        <5>1. row.plan # NoPlan => row.plan.est \in Nat \cup {Unknown}
          BY <1>1, <3>1, RowFound DEF IInv, row, Plans, Figures
        <5> QED BY <5>1 DEF OffBy, Known, OrZero
      <4> QED BY <3>6, <3>7, <4>1 DEF Misestimated
    <3>9. text.where => text.shape
      BY <3>1 DEF Texts
    <3>10. seen[r].metric = seen[r].plan /\ "seq-scan-index-suggestion" \in Range(recs)
             => "missing_index_candidate" \in Types(row.diagnoses)
      BY <3>5, <3>6, <3>7, <3>9 DEF ManyRows
    <3>11. ASSUME Report(r).recommendation = "none"
           PROVE  "stale-statistics" \notin Range(recs)
      <4>1. AgentReport(text, metric, row.plan, seen[r].regression).recommendation = "none"
        BY <3>3, <3>11 DEF Report, metric
      <4>2. recs = <<>>
        BY <4>1, ReportedNone DEF recs
      <4> QED BY <4>2 DEF Range
    <3> QED BY <3>4, <3>8, <3>10, <3>11 DEF row
  <2> QED BY <2>1 DEF AdviceAgrees
<1> QED BY <1>1, InsightsInvariant, PTL

\* Of the diagnoses of n rows the newest are listed: all, or as many as a
\* response shows.
LEMMA ListedDiagnoses ==
    ASSUME NEW rows \in Seq(CaptureRows), NEW stored \in NewestDiagnoses(rows)
    PROVE  /\ stored = {} => Diagnosed(rows) = {}
           /\ stored \subseteq Diagnosed(rows)
           /\ \A e \in Diagnosed(rows) : e \notin stored =>
                /\ Cardinality(stored) = DiagnosesShown
                /\ \A d \in stored : rows[e[1]].stamp <= rows[d[1]].stamp
<1> DEFINE all == Diagnosed(rows)
<1>1. /\ stored \subseteq all
      /\ Cardinality(stored) = Min({DiagnosesShown, Cardinality(all)})
      /\ \A d \in stored, e \in all \ stored : rows[e[1]].stamp <= rows[d[1]].stamp
  BY DEF NewestDiagnoses
<1>2. IsFiniteSet(all)
  BY StoredFinite
<1> HIDE DEF all
<1>3. Cardinality(all) \in Nat /\ DiagnosesShown \in Nat \ {0}
  BY <1>2, FS_CardinalityType, InsightsAssumption
<1>4. Cardinality(stored) = IF DiagnosesShown <= Cardinality(all) THEN DiagnosesShown
                            ELSE Cardinality(all)
  BY <1>1, <1>3, MinOfTwo
<1>5. Cardinality(stored) = Cardinality(all) => stored = all
  BY <1>1, <1>2, FS_Subset
<1>6. stored # all => Cardinality(stored) = DiagnosesShown
  BY <1>4, <1>5
<1>7. stored = {} => Cardinality(stored) = 0
  BY FS_EmptySet
<1>8. stored = {} => all = {}
  BY <1>3, <1>6, <1>7
<1> QED BY <1>1, <1>6, <1>8 DEF all

\* What was found in the plan a diagnostics response shows is in its list, or
\* the list is full of newer (api/queries.py).
THEOREM DiagnosesCovered == Spec => []DiagnosesCoverShown
<1>1. ASSUME IInv PROVE DiagnosesCoverShown
  <2>1. ASSUME NEW r \in Requests, Responded(r, "diagnostics"), seen[r].plan # 0
        PROVE  \/ Range(db[seen[r].plan].diagnoses) \subseteq Diagnoses(r)
               \/ /\ Cardinality(seen[r].stored) = DiagnosesShown
                  /\ \A d \in seen[r].stored : db[d[1]].stamp >= db[seen[r].plan].stamp
    <3> DEFINE s == seen[r]
               i == s.plan
               last == s.ended
               rows == Prefix(db, last)
    <3>1. db \in Seq(CaptureRows) /\ DOMAIN db = 1..Len(db) /\ Len(db) \in Nat /\ s \in Responses
      BY <1>1, LenProperties DEF IInv, TypeOK
    <3>2. StoredRead(db, s) /\ PlanRead(db, s, last)
      <4>1. RequestKnown(db, kind[r], s, todo[r]) /\ todo[r] = <<>> /\ kind[r] = "diagnostics"
        BY <1>1, <2>1 DEF IInv, RequestsKnown, Responded
      <4> QED BY <4>1 DEF RequestKnown, DiagnosticsRequest
    <3>3. s.began \in Nat /\ last \in Nat /\ last \in s.began..Len(db) /\ last \in 0..Len(db)
          /\ s.stored \in NewestDiagnoses(rows)
      BY <3>1, <3>2 DEF StoredRead, Responses
    <3>4. /\ rows \in Seq(CaptureRows) /\ DOMAIN rows = 1..last
          /\ \A j \in 1..last : rows[j] = db[j]
      BY <3>1, <3>3, PrefixIs DEF Prefix
    <3>5. i \in 1..last
      <4>1. PICK n \in s.began..last : i \in OrNone(Newest(Prefix(db, n), Planned(Prefix(db, n))))
        BY <3>2 DEF PlanRead
      <4>2. i \in DOMAIN Prefix(db, n)
        BY <2>1, <4>1 DEF OrNone, Newest, Planned
      <4>3. n \in 0..Len(db) /\ n <= last /\ n \in Nat
        BY <3>1, <3>3
      <4>4. DOMAIN Prefix(db, n) = 1..n
        BY <3>1, <4>3, PrefixIs DEF Prefix
      <4> QED BY <3>3, <4>2, <4>3, <4>4
    <3>6. rows[i] = db[i] /\ i \in DOMAIN rows
      BY <3>4, <3>5
    <3>7. db[i].diagnoses \in Seq(Findings)
      <4>1. db[i] \in CaptureRows
        BY <1>1, <3>1, <3>3, <3>5, ElementOfSeq
      <4> QED BY <4>1 DEF CaptureRows
    <3> HIDE DEF s, i, last, rows
    <3>8. \A k \in DOMAIN db[i].diagnoses : <<i, k>> \in Diagnosed(rows)
      BY <3>4, <3>6, DiagnosedPairs
    <3>9. CASE \A k \in DOMAIN db[i].diagnoses : <<i, k>> \in s.stored
      <4>1. ASSUME NEW k \in DOMAIN db[i].diagnoses
            PROVE  db[i].diagnoses[k] \in Diagnoses(r)
        <5>1. <<i, k>> \in s.stored /\ s.stored # {}
          BY <3>9
        <5>2. db[i].diagnoses[k] \in StoredDiagnoses(r)
          BY <5>1 DEF StoredDiagnoses, s
        <5> QED BY <5>1, <5>2 DEF Diagnoses, s
      <4>2. Range(db[i].diagnoses) \subseteq Diagnoses(r)
        BY <4>1 DEF Range
      <4> QED BY <4>2 DEF i, s
    <3>10. CASE \E k \in DOMAIN db[i].diagnoses : <<i, k>> \notin s.stored
      <4>1. PICK k \in DOMAIN db[i].diagnoses : <<i, k>> \notin s.stored
        BY <3>10
      <4> DEFINE e == <<i, k>>
      <4>2. e \in Diagnosed(rows) /\ e \notin s.stored
        BY <3>8, <4>1
      <4>3. e[1] = i
        OBVIOUS
      <4> HIDE DEF e
      <4>4. /\ Cardinality(s.stored) = DiagnosesShown
            /\ \A d \in s.stored : rows[i].stamp <= rows[d[1]].stamp
        BY <3>3, <3>4, <4>2, <4>3, ListedDiagnoses
      <4>5. ASSUME NEW d \in s.stored
            PROVE  db[d[1]].stamp >= db[i].stamp
        <5>1. d[1] \in DOMAIN rows
          BY <3>3, <3>4, ListedDiagnoses, DiagnosedPairs
        <5>2. rows[d[1]] = db[d[1]] /\ db[d[1]] \in CaptureRows /\ db[i] \in CaptureRows
          BY <3>1, <3>3, <3>4, <3>5, <5>1, ElementOfSeq
        <5>3. db[d[1]].stamp \in Nat /\ db[i].stamp \in Nat
          BY <5>2 DEF CaptureRows
        <5> QED BY <3>6, <4>4, <5>2, <5>3
      <4> QED BY <4>4, <4>5 DEF s, i
    <3> QED BY <3>9, <3>10
  <2> QED BY <2>1 DEF DiagnosesCoverShown
<1> QED BY <1>1, InsightsInvariant, PTL

\* Where the dates ascend the last row is the newest.
LEMMA LastIsNewest ==
    ASSUME NEW rows, NEW m \in Nat, \A i \in 1..m : rows[i].at \in Nat,
           \A i \in 1..m : \A j \in 1..(i - 1) : rows[j].at < rows[i].at
    PROVE  /\ OrNone(Newest(rows, 1..m)) = {m}
           /\ m > 0 => Newest(rows, 1..m) = {m}
           /\ m > 0 => OrNone(SecondNewest(rows, 1..m)) = {m - 1}
<1>1. ASSUME NEW n \in 0..m
      PROVE  Newest(rows, 1..n) = IF n = 0 THEN {} ELSE {n}
  <2>1. CASE n = 0
    <3>1. 1..n = {}
      BY <2>1
    <3> QED BY <2>1, <3>1 DEF Newest
  <2>2. CASE n # 0
    <3>1. n \in 1..n /\ n \in Nat /\ n \in 1..m
      BY <2>2
    <3>2. \A j \in 1..n : j # n => j \in 1..(n - 1) /\ j \in 1..m
      BY <3>1
    <3>3. \A j \in 1..n : j # n => rows[j].at < rows[n].at /\ rows[j].at \in Nat
      BY <3>1, <3>2
    <3>4. rows[n].at \in Nat
      BY <3>1
    <3>5. \A j \in 1..n : rows[j].at <= rows[n].at
      BY <3>3, <3>4
    <3>6. \A i \in 1..n : i # n => ~(rows[n].at <= rows[i].at)
      BY <3>3, <3>4
    <3> QED BY <2>2, <3>1, <3>5, <3>6 DEF Newest
  <2> QED BY <2>1, <2>2
<1>2. /\ OrNone(Newest(rows, 1..m)) = {m}
      /\ m > 0 => Newest(rows, 1..m) = {m}
  <2>1. m \in 0..m /\ (m > 0 => m # 0)
    OBVIOUS
  <2>2. Newest(rows, 1..m) = IF m = 0 THEN {} ELSE {m}
    BY <1>1, <2>1
  <2> QED BY <2>1, <2>2 DEF OrNone
<1>3. m > 0 => OrNone(SecondNewest(rows, 1..m)) = {m - 1}
  <2> SUFFICES ASSUME m > 0 PROVE OrNone(SecondNewest(rows, 1..m)) = {m - 1}
    OBVIOUS
  <2>1. (1..m) \ {m} = 1..(m - 1) /\ m - 1 \in 0..m
    OBVIOUS
  <2>2. SecondNewest(rows, 1..m) = Newest(rows, 1..(m - 1))
    BY <1>2, <2>1 DEF SecondNewest
  <2>3. Newest(rows, 1..(m - 1)) = IF m - 1 = 0 THEN {} ELSE {m - 1}
    BY <1>1, <2>1
  <2> QED BY <2>2, <2>3 DEF OrNone
<1> QED BY <1>2, <1>3

\* Where nothing is stored and the captures came one after the other, the API
\* finds what the writer found: nothing (api/queries.py against the writers).
THEOREM QuietAsWriter == Spec => []QuietWhenStoredQuiet
<1>1. ASSUME IInv PROVE QuietWhenStoredQuiet
  <2>1. ASSUME NEW r \in Requests, Responded(r, "diagnostics"), seen[r].stored = {},
               seen[r].began = seen[r].ended, InSequence(seen[r].ended)
        PROVE  OwnDiagnoses(r) = <<>>
    <3> DEFINE s == seen[r]
               m == s.ended
               rows == Prefix(db, m)
    <3>1. db \in Seq(CaptureRows) /\ DOMAIN db = 1..Len(db) /\ Len(db) \in Nat /\ s \in Responses
      BY <1>1, LenProperties DEF IInv, TypeOK
    <3>2. /\ StoredRead(db, s) /\ MetricRead(db, s, m) /\ PlanRead(db, s, m)
          /\ PreviousRead(db, s, m)
      <4>1. RequestKnown(db, kind[r], s, todo[r]) /\ todo[r] = <<>> /\ kind[r] = "diagnostics"
        BY <1>1, <2>1 DEF IInv, RequestsKnown, Responded
      <4> QED BY <4>1 DEF RequestKnown, DiagnosticsRequest
    <3>3. /\ m \in Nat /\ m \in 0..Len(db) /\ s.began..m = {m}
          /\ s.stored \in NewestDiagnoses(rows)
      BY <2>1, <3>1, <3>2 DEF StoredRead, Responses
    <3>4. /\ rows \in Seq(CaptureRows) /\ DOMAIN rows = 1..m
          /\ \A j \in 1..m : rows[j] = db[j]
      BY <3>1, <3>3, PrefixIs DEF Prefix
    <3>5. s.metric \in Newest(rows, 1..m)
      BY <3>2, <3>3, <3>4 DEF MetricRead
    <3>6. s.plan \in OrNone(Newest(rows, Planned(rows)))
      BY <3>2, <3>3 DEF PlanRead
    <3>7. s.previous \in OrNone(SecondNewest(rows, Planned(rows)))
      BY <3>2, <3>3 DEF PreviousRead
    <3>8. \A i \in 1..m : /\ db[i] \in CaptureRows /\ db[i].saw = i - 1 /\ db[i].plan # NoPlan
                          /\ \A j \in 1..(i - 1) : db[j].at < db[i].at
      BY <2>1, <3>1, <3>3, ElementOfSeq DEF InSequence
    <3>9. \A i \in 1..m : db[i].at \in Nat
      BY <3>8 DEF CaptureRows
    <3> HIDE DEF s, m, rows
    <3>10. m > 0 /\ m \in 1..m
      <4>1. s.metric \in 1..m
        BY <3>5, NewestTypes
      <4> QED BY <3>3, <4>1
    \* What holds of the rows holds of each prefix of them.
    <3>11. ASSUME NEW n \in 0..m, NEW part, DOMAIN part = 1..n, \A j \in 1..n : part[j] = db[j]
           PROVE  /\ Planned(part) = 1..n /\ OrNone(Newest(part, 1..n)) = {n}
                  /\ n > 0 => Newest(part, 1..n) = {n}
                  /\ n > 0 => OrNone(SecondNewest(part, 1..n)) = {n - 1}
      <4>1. n \in Nat /\ \A i \in 1..n : i \in 1..m /\ \A j \in 1..(i - 1) : j \in 1..n
        BY <3>3
      <4>2. Planned(part) = 1..n
        BY <3>8, <3>11, <4>1 DEF Planned
      <4>3. \A i \in 1..n : part[i].at \in Nat
        BY <3>9, <3>11, <4>1
      <4>4. \A i \in 1..n : \A j \in 1..(i - 1) : part[j].at < part[i].at
        BY <3>8, <3>11, <4>1
      <4> QED BY <4>1, <4>2, <4>3, <4>4, LastIsNewest
    <3>12. s.metric = m /\ s.plan = m /\ s.previous = m - 1
      <4>1. m \in 0..m
        BY <3>3
      <4> QED BY <3>4, <3>5, <3>6, <3>7, <3>10, <3>11, <4>1
    \* The writer compared with the same previous plan.
    <3>13. PICK before \in Seq(CaptureRows) :
             /\ before = Prefix(db, m - 1)
             /\ \E p \in OrNone(Newest(before, Planned(before))) :
                  db[m].diagnoses = DiagnoseQuery(text, db[m].metric, db[m].plan,
                                        PlanAt(before, p), db[m].tree)
      <4>1. m \in DOMAIN db /\ db[m].saw = m - 1
        BY <3>1, <3>3, <3>8, <3>10
      <4> QED BY <1>1, <4>1, RowFound DEF IInv
    <3>14. /\ DOMAIN before = 1..(m - 1) /\ m - 1 \in 0..m
           /\ \A j \in 1..(m - 1) : before[j] = db[j]
      <4>1. m - 1 \in 0..Len(db) /\ m - 1 \in 0..m
        BY <3>1, <3>3, <3>10
      <4> QED BY <3>1, <3>13, <4>1, PrefixIs DEF Prefix
    <3>15. db[m].diagnoses = DiagnoseQuery(text, db[m].metric, db[m].plan,
                                 PlanAt(before, m - 1), db[m].tree)
      BY <3>11, <3>13, <3>14
    <3>16. PlanAt(before, m - 1) = PlanAt(db, m - 1)
      BY <3>3, <3>10, <3>14 DEF PlanAt
    <3>17. OwnDiagnoses(r) = db[m].diagnoses
      BY <3>3, <3>10, <3>12, <3>15, <3>16 DEF OwnDiagnoses, s, MetricAt, PlanAt
    \* And found nothing.
    <3>18. Diagnosed(rows) = {}
      BY <2>1, <3>3, <3>4, ListedDiagnoses DEF s
    <3>19. DOMAIN db[m].diagnoses = {}
      BY <3>4, <3>10, <3>18, DiagnosedPairs
    <3>20. db[m].diagnoses \in Seq(Findings)
      BY <3>8, <3>10 DEF CaptureRows
    <3>21. db[m].diagnoses = <<>>
      <4>1. \A found \in Seq(Findings) : DOMAIN found = 1..Len(found) /\ Len(found) \in Nat
        BY LenProperties
      <4>2. \A k \in Nat : 1..k = {} => k = 0
        <5>1. \A k \in Nat : k # 0 => k \in 1..k
          OBVIOUS
        <5> QED BY <5>1
      <4>3. Len(db[m].diagnoses) = 0
        BY <3>19, <3>20, <4>1, <4>2
      <4> QED BY <3>20, <4>3, EmptySeq
    <3> QED BY <3>17, <3>21
  <2> QED BY <2>1 DEF QuietWhenStoredQuiet
<1> QED BY <1>1, InsightsInvariant, PTL
=============================================================================
