------------------------ MODULE InvestigationReport ------------------------
(***************************************************************************)
(* The evidence bundle of an investigation (ai/evidence.py), the report    *)
(* the heuristics build from it (ai/heuristics.py) and the grounding check *)
(* that accepts or rejects a report (ai/service.py), as operators, and the *)
(* marks the evaluation suite gives an answer.                             *)
(*                                                                         *)
(* A signal "family.name" is the pair <<family, name>>.  Execution times   *)
(* are microseconds, confidences hundredths.  Of a text the model keeps    *)
(* whether it holds a phrase the grounding check forbids.                  *)
(***************************************************************************)
EXTENDS Integers, Sequences, FiniteSets

CONSTANTS
    Names,      \* plan nodes, types and severities of rows, names of signals
    NoPlan,     \* the None of latest_plan and previous_plan
    NoFocus,    \* the None of focus_regression
    Unknown     \* the None of a plan's top_node_type, actual_rows, estimated_rows

Plans == [seq : BOOLEAN, idx : BOOLEAN, top : Names \cup {Unknown},
          act : Nat \cup {Unknown}, est : Nat \cup {Unknown}]
Rows == [type : Names, severity : Names]
Queries == [operator : BOOLEAN,     \* it uses <->, <#> or <=>
            placement : BOOLEAN,    \* it holds a word of the placement vocabulary
            banned : BOOLEAN]       \* it holds a forbidden phrase

ASSUME NoneAssumption ==
    /\ NoPlan \notin Plans
    /\ NoFocus \notin Names
    /\ Unknown \notin Names
    /\ Unknown \notin Nat

Bundles == [means : Seq(Nat), latest : Plans \cup {NoPlan},
            previous : Plans \cup {NoPlan}, diagnostics : Seq(Rows),
            regressions : Seq(Rows), focus : Names \cup {NoFocus},
            query : Queries]

Families == {"fingerprint", "metric_window", "trend", "plan", "diagnostic",
             "diagnostic.severity", "regression", "regression.severity",
             "regression.focus", "placement"}
Signals == Families \X Names

Reports == [evidence : SUBSET Signals, citations : SUBSET Signals,
            confidence : 0..100, risk : {"low", "medium", "high"},
            priority : {"p0", "p1", "p2", "p3"},
            index : {"none", "btree", "ann"},
            rewrite : {"none", "seq_scan", "vector"},
            insufficient : BOOLEAN, banned : BOOLEAN]

-----------------------------------------------------------------------------
(* The bundle.                                                             *)

EvidenceCount(b) ==
    Len(b.means) + Len(b.diagnostics) + Len(b.regressions)
    + (IF b.latest = NoPlan THEN 0 ELSE 1) + (IF b.previous = NoPlan THEN 0 ELSE 1)

IsThin_AtTwo(b) == EvidenceCount(b) <= 2

\* The second disjunct of the code's test, nothing at all, is a case of this one.
IsThin(b) == EvidenceCount(b) < 2

TypesOf(rows) == {rows[i].type : i \in DOMAIN rows}
SeveritiesOf(rows) == {rows[i].severity : i \in DOMAIN rows}

FixedNames == {"", "normalized_query", "fingerprint_hash", "mean_exec_time_ms", "calls",
    "rows_returned", "temp_blks_written", "previous_snapshot", "simulation_context"}
PlanNames == {"top_node_type", "uses_seq_scan", "uses_index_scan", "actual_rows",
    "estimated_rows", "row_estimate_ratio", "access_path_regression"}

ASSUME NamesAssumption == FixedNames \cup PlanNames \subseteq Names

PlanSignals == {"plan"} \X PlanNames
MetricSignals == {<<"metric_window", "">>} \cup ({"trend"} \X
    {"mean_exec_time_ms", "calls", "rows_returned", "temp_blks_written"})

SignalInventory(b) ==
    ({"fingerprint"} \X {"normalized_query", "fingerprint_hash"})
    \cup (IF b.means = <<>> THEN {} ELSE MetricSignals)
    \cup (IF b.latest = NoPlan THEN {} ELSE PlanSignals)
    \cup (IF b.previous = NoPlan THEN {} ELSE {<<"plan", "previous_snapshot">>})
    \cup ({"diagnostic"} \X TypesOf(b.diagnostics))
    \cup ({"diagnostic.severity"} \X SeveritiesOf(b.diagnostics))
    \cup ({"regression"} \X TypesOf(b.regressions))
    \cup ({"regression.severity"} \X SeveritiesOf(b.regressions))
    \cup (IF b.focus = NoFocus THEN {} ELSE {<<"regression.focus", b.focus>>})
    \cup (IF b.query.placement THEN {<<"placement", "simulation_context">>} ELSE {})

-----------------------------------------------------------------------------
(* What the heuristics look at.                                            *)

HasTrend(b) == Len(b.means) >= 2

\* The mean time grew by at least num/den over the window.
TrendAtLeast(b, num, den) ==
    /\ HasTrend(b)
    /\ LET first == b.means[1]
           base == IF first < 1 THEN 1 ELSE first
       IN den * b.means[Len(b.means)] >= num * base

RowsKnown(b) ==
    b.latest # NoPlan /\ b.latest.act # Unknown /\ b.latest.est # Unknown

RowsOffBy(b, factor) ==
    /\ RowsKnown(b)
    /\ LET est == IF b.latest.est < 1 THEN 1 ELSE b.latest.est
       IN b.latest.act >= factor * est

SeqScans(b) == b.latest # NoPlan /\ b.latest.seq

Flipped(b) == SeqScans(b) /\ b.previous # NoPlan /\ b.previous.idx

AccessPathTypes == {"vector_hnsw_bypass", "seq_scan_fallback"}
EstimateTypes == {"row_estimate_mismatch", "temp_sort_hash_spill",
                  "missing_index_candidate"}
Grave == {"critical", "high"}

\* How many rows carry a value of the given field in the given set.
OfType(rows, types) == Cardinality({i \in DOMAIN rows : rows[i].type \in types})
OfSeverity(rows, levels) ==
    Cardinality({i \in DOMAIN rows : rows[i].severity \in levels})

-----------------------------------------------------------------------------
(* The heuristic report.                                                   *)

When(condition, signal) == IF condition THEN <<signal>> ELSE <<>>

PlanCandidates(b) ==
    When(b.latest # NoPlan, <<"plan", "uses_seq_scan">>)
    \o When(b.latest # NoPlan, <<"plan", "uses_index_scan">>)
    \o When(b.latest # NoPlan /\ b.latest.top # Unknown, <<"plan", "top_node_type">>)
    \o When(RowsKnown(b), <<"plan", "row_estimate_ratio">>)
    \o When(Flipped(b), <<"plan", "access_path_regression">>)

RowCandidates(family, rows) == [i \in DOMAIN rows |-> <<family, rows[i].type>>]

TelemetryCandidates(b) ==
    When(HasTrend(b), <<"trend", "mean_exec_time_ms">>)
    \o PlanCandidates(b)
    \o RowCandidates("diagnostic", b.diagnostics)
    \o RowCandidates("regression", b.regressions)
    \o When(b.focus # NoFocus, <<"regression.focus", b.focus>>)
    \o When(b.query.placement, <<"placement", "simulation_context">>)

\* The signals in the order in which they are offered to _add_evidence.
Candidates(b) == << <<"fingerprint", "normalized_query">> >> \o TelemetryCandidates(b)

EvidenceLimit == 6

\* The first EvidenceLimit different elements of s.
AddEvidence(s) ==
    {s[i] : i \in {j \in DOMAIN s : Cardinality({s[k] : k \in 1..j}) <= EvidenceLimit}}

\* Every item is cited: there are fewer items than the cap on citations.
CitationsFromItems(items) == items

Points(b) ==
    12 + (IF TrendAtLeast(b, 3, 2) THEN 18 ELSE 0)
       + (IF TrendAtLeast(b, 3, 1) THEN 10 ELSE 0)
       + (IF RowsOffBy(b, 10) THEN 16 ELSE IF RowsOffBy(b, 3) THEN 8 ELSE 0)
       + (IF Flipped(b) THEN 20 ELSE IF SeqScans(b) THEN 12 ELSE 0)
       + 16 * OfType(b.diagnostics, AccessPathTypes)
       + 12 * OfType(b.diagnostics, EstimateTypes)
       + 15 * OfSeverity(b.regressions, Grave)

AtMost(x, bound) == IF x <= bound THEN x ELSE bound

Confidence_Uncapped(b) ==
    LET base == IF IsThin(b) THEN AtMost(Points(b), 35) ELSE Points(b)
    IN base + AtMost(4 * Cardinality(AddEvidence(Candidates(b))), 24)

Confidence(b) ==
    LET base == IF IsThin(b) THEN AtMost(Points(b), 35) ELSE Points(b)
    IN AtMost(base + AtMost(4 * Cardinality(AddEvidence(Candidates(b))), 24), 99)

Risk(b) ==
    IF \/ TrendAtLeast(b, 3, 1) \/ Flipped(b)
       \/ OfType(b.diagnostics, AccessPathTypes) > 0
       \/ OfSeverity(b.regressions, Grave) > 0
    THEN "high"
    ELSE IF \/ TrendAtLeast(b, 3, 2) \/ RowsOffBy(b, 10) \/ SeqScans(b)
            \/ OfType(b.diagnostics, EstimateTypes) > 0
         THEN "medium" ELSE "low"

Priority(b) ==
    IF IsThin(b) THEN "p3"
    ELSE [high |-> "p0", medium |-> "p1", low |-> "p2"][Risk(b)]

IndexRecommendation(b) ==
    IF b.latest = NoPlan THEN "none"
    ELSE IF b.query.operator THEN "ann"
    ELSE IF b.latest.seq \/ ~b.latest.idx THEN "btree" ELSE "none"

Rewrite_OnlyWithIndex(b) == IF IndexRecommendation(b) # "none" THEN "vector" ELSE "none"

\* Every recommendation has an operator_class, so the code's test on it
\* holds for the btree recommendation too.
Rewrite(b) == IF IndexRecommendation(b) # "none" THEN "vector" ELSE "seq_scan"

\* reasonBanned: the text that says why the heuristics ran holds a forbidden
\* phrase.  The report quotes it, and the query.
HeuristicReport(b, reasonBanned) ==
    LET items == AddEvidence(Candidates(b))
    IN [evidence |-> items, citations |-> CitationsFromItems(items),
        confidence |-> Confidence(b), risk |-> Risk(b), priority |-> Priority(b),
        index |-> IndexRecommendation(b), rewrite |-> Rewrite(b),
        insufficient |-> IsThin(b), banned |-> reasonBanned \/ b.query.banned]

-----------------------------------------------------------------------------
(* The grounding check.                                                    *)

Grounded(rep, b) == rep.evidence \cup rep.citations \subseteq SignalInventory(b)

Rejected_NoCitations(rep, b) ==
    \/ ~(rep.evidence \subseteq SignalInventory(b))
    \/ rep.banned
    \/ Cardinality(rep.evidence) < 2 /\ ~rep.insufficient
    \/ rep.confidence > 95 /\ EvidenceCount(b) < 3

Rejected(rep, b) ==
    \/ ~Grounded(rep, b)
    \/ rep.banned
    \/ Cardinality(rep.evidence) < 2 /\ ~rep.insufficient
    \/ rep.confidence > 95 /\ EvidenceCount(b) < 3

-----------------------------------------------------------------------------
(* The evaluation suite.                                                   *)

\* The suite gives full marks to this answer: every item of evidence is in
\* the inventory, there is something to recommend, and the answer says it is
\* insufficient exactly when the bundle is thin.
FullMarks(b, rep) ==
    /\ rep.evidence \subseteq SignalInventory(b)
    /\ rep.index # "none" \/ rep.rewrite # "none"
    /\ rep.insufficient = IsThin(b)
=============================================================================
