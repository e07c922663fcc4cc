-------------------------- MODULE MCInvestigation --------------------------
EXTENDS Investigation

MCNames == STRING

Cases == INSTANCE InvestigationCases

PlainText == [operator |-> FALSE, placement |-> FALSE, banned |-> FALSE]

\* A capture whose EXPLAIN failed, one on an index, and one that fell back to a
\* sequential scan with a row estimate far off.
Unexplained == [mean |-> 1000, plan |-> NoPlan, diagnostics |-> <<>>, regressions |-> <<>>]
Indexed == [mean |-> 1000, plan |-> Cases!Plan(FALSE, TRUE, Unknown, Unknown, "Index Scan"),
            diagnostics |-> <<>>, regressions |-> <<>>]
FellBack == [mean |-> 4000, plan |-> Cases!Plan(TRUE, FALSE, 50, 0, "Seq Scan"),
             diagnostics |-> <<Cases!Row("seq_scan_fallback", "high"),
                               Cases!Row("row_estimate_mismatch", "medium")>>,
             regressions |-> <<Cases!Row("index_scan_to_seq_scan", "high")>>]
MCCaptures == {Unexplained, Indexed, FellBack}

\* Bundles of a script: the golden ones, one piece of evidence, two metrics,
\* two grave diagnostics, a query that holds a forbidden phrase.
OneDiagnostic == [Cases!Thin EXCEPT !.diagnostics = <<Cases!Row("vector_hnsw_bypass", "high")>>]
TwoMetrics == [Cases!Thin EXCEPT !.means = <<0, 3>>]
GraveAndFlipped == [Cases!Thin EXCEPT !.latest = Indexed.plan,
                                      !.diagnostics = <<FellBack.diagnostics[1]>>]
ForbiddenText == [Cases!IndexToSeq EXCEPT !.query = [PlainText EXCEPT !.banned = TRUE]]
MCSupplied == Cases!GoldenBundles \cup
    {OneDiagnostic, TwoMetrics, GraveAndFlipped, ForbiddenText}

\* What a model may say: a good report, one that invents a signal or a
\* citation, says a forbidden phrase, has too little evidence, is too sure, or
\* says that the evidence is insufficient.
Good == [evidence |-> {<<"fingerprint", "normalized_query">>, <<"trend", "calls">>},
         citations |-> {<<"trend", "calls">>}, confidence |-> 80, risk |-> "high",
         priority |-> "p0", index |-> "none", rewrite |-> "none",
         insufficient |-> FALSE, banned |-> FALSE]
MCAnswers == {Good,
    [Good EXCEPT !.evidence = @ \cup {<<"plan", "parallel_workers">>}],
    [Good EXCEPT !.citations = {<<"regression", "lock_wait">>}],
    [Good EXCEPT !.banned = TRUE],
    [Good EXCEPT !.evidence = {<<"trend", "calls">>}],
    [Good EXCEPT !.confidence = 99],
    [Good EXCEPT !.evidence = {}, !.citations = {}, !.insufficient = TRUE]}

MCSettings == {
    [provider |-> "disabled", openaiKey |-> FALSE, geminiKey |-> FALSE, fallbackModel |-> TRUE],
    [provider |-> "disabled", openaiKey |-> TRUE, geminiKey |-> FALSE, fallbackModel |-> TRUE],
    [provider |-> "auto", openaiKey |-> TRUE, geminiKey |-> FALSE, fallbackModel |-> FALSE]}

\* Return rewrite guidance only when the bundle supports it (service.py:132):
\* the heuristics advise a vector rewrite only for a query that uses a vector
\* operator.
VectorRewriteFits ==
    \A r \in Requests :
        Answered(r) /\ reply[r].source = "heuristic" /\ reply[r].report.rewrite = "vector"
        => bundle[r].query.operator
=============================================================================
