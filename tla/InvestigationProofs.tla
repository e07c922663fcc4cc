------------------------ MODULE InvestigationProofs ------------------------
(***************************************************************************)
(* Proofs about Investigation for any number of requests, any captures,    *)
(* any bundles, provider answers and settings.  The first lemmas are about *)
(* the report the heuristics build: it is well formed, cites nothing that  *)
(* is not in the inventory, and passes the grounding check.                *)
(***************************************************************************)
EXTENDS Investigation, SequenceTheorems, FiniteSetTheorems, TLAPS

-----------------------------------------------------------------------------
(* Lists of candidates.                                                    *)

\* A member of S under a condition is a sequence over S.
LEMMA WhenSeq ==
    ASSUME NEW S, NEW c \in BOOLEAN, NEW x, c => x \in S
    PROVE  When(c, x) \in Seq(S)
BY DEF When

\* And so are the candidates of stored rows.
LEMMA RowCandidatesSeq ==
    ASSUME NEW S, NEW family, NEW rows \in Seq(Rows),
           \A i \in DOMAIN rows : <<family, rows[i].type>> \in S
    PROVE  RowCandidates(family, rows) \in Seq(S)
BY DEF RowCandidates

\* Every candidate is in the inventory.
LEMMA CandidatesInInventory ==
    ASSUME NEW b \in Bundles
    PROVE  Candidates(b) \in Seq(SignalInventory(b))
<1> DEFINE S == SignalInventory(b)
<1>1. b.diagnostics \in Seq(Rows) /\ b.regressions \in Seq(Rows)
  BY DEF Bundles
<1>2. << <<"fingerprint", "normalized_query">> >> \in Seq(S)
  BY DEF SignalInventory
<1>3. When(HasTrend(b), <<"trend", "mean_exec_time_ms">>) \in Seq(S)
  <2>1. HasTrend(b) \in BOOLEAN
    BY DEF HasTrend
  <2>2. HasTrend(b) => b.means # <<>>
    BY DEF HasTrend
  <2>3. HasTrend(b) => <<"trend", "mean_exec_time_ms">> \in S
    BY <2>2 DEF SignalInventory, MetricSignals
  <2> QED BY <2>1, <2>3, WhenSeq
<1>4. PlanCandidates(b) \in Seq(S)
  <2>1. b.latest # NoPlan => PlanSignals \subseteq S
    BY DEF SignalInventory
  <2>2. \A x \in PlanSignals, c \in BOOLEAN :
            (c => b.latest # NoPlan) => When(c, x) \in Seq(S)
    BY <2>1, WhenSeq
  <2>3. When(b.latest # NoPlan, <<"plan", "uses_seq_scan">>) \in Seq(S)
    BY <2>2 DEF PlanSignals, PlanNames
  <2>4. When(b.latest # NoPlan, <<"plan", "uses_index_scan">>) \in Seq(S)
    BY <2>2 DEF PlanSignals, PlanNames
  <2>5. When(b.latest # NoPlan /\ b.latest.top # Unknown, <<"plan", "top_node_type">>)
            \in Seq(S)
    BY <2>2 DEF PlanSignals, PlanNames
  <2>6. When(RowsKnown(b), <<"plan", "row_estimate_ratio">>) \in Seq(S)
    BY <2>2 DEF PlanSignals, PlanNames, RowsKnown
  <2>7. Flipped(b) \in BOOLEAN /\ (Flipped(b) => b.latest # NoPlan)
    BY DEF Flipped, SeqScans, Bundles, Plans
  <2>8. When(Flipped(b), <<"plan", "access_path_regression">>) \in Seq(S)
    BY <2>2, <2>7 DEF PlanSignals, PlanNames
  <2> QED BY <2>3, <2>4, <2>5, <2>6, <2>8, ConcatProperties DEF PlanCandidates
<1>5. RowCandidates("diagnostic", b.diagnostics) \in Seq(S)
  <2>1. \A i \in DOMAIN b.diagnostics : <<"diagnostic", b.diagnostics[i].type>> \in S
    BY DEF SignalInventory, TypesOf
  <2> QED BY <1>1, <2>1, RowCandidatesSeq
<1>6. RowCandidates("regression", b.regressions) \in Seq(S)
  <2>1. \A i \in DOMAIN b.regressions : <<"regression", b.regressions[i].type>> \in S
    BY DEF SignalInventory, TypesOf
  <2> QED BY <1>1, <2>1, RowCandidatesSeq
<1>7. When(b.focus # NoFocus, <<"regression.focus", b.focus>>) \in Seq(S)
  BY WhenSeq DEF SignalInventory
<1>8. When(b.query.placement, <<"placement", "simulation_context">>) \in Seq(S)
  BY WhenSeq DEF SignalInventory, Bundles, Queries
<1> HIDE DEF S
<1> QED BY <1>2, <1>3, <1>4, <1>5, <1>6, <1>7, <1>8, ConcatProperties
    DEF Candidates, TelemetryCandidates, S

LEMMA AddEvidenceSubset ==
    ASSUME NEW S, NEW s \in Seq(S)
    PROVE  AddEvidence(s) \subseteq S /\ AddEvidence(s) \subseteq {s[i] : i \in DOMAIN s}
<1>1. AddEvidence(s) \subseteq {s[i] : i \in DOMAIN s}
  BY DEF AddEvidence
<1>2. \A i \in DOMAIN s : s[i] \in S
  OBVIOUS
<1> QED BY <1>1, <1>2

LEMMA RangeFinite ==
    ASSUME NEW S, NEW s \in Seq(S), NEW T \in SUBSET {s[i] : i \in DOMAIN s}
    PROVE  IsFiniteSet(T)
<1> DEFINE R == {s[i] : i \in 1..Len(s)}
<1>1. s \in Surjection(1..Len(s), R)
  BY DEF Surjection
<1>2. IsFiniteSet(1..Len(s))
  BY FS_Interval
<1>3. IsFiniteSet(R)
  BY <1>1, <1>2, FS_Surjection
<1> QED BY <1>3, FS_Subset

LEMMA AddEvidenceFinite ==
    ASSUME NEW S, NEW s \in Seq(S)
    PROVE  IsFiniteSet(AddEvidence(s)) /\ Cardinality(AddEvidence(s)) \in Nat
BY AddEvidenceSubset, RangeFinite, FS_CardinalityType

\* Two different signals at the head of the list both become evidence.
LEMMA TwoItems ==
    ASSUME NEW S, NEW s \in Seq(S), Len(s) >= 2, s[1] # s[2]
    PROVE  Cardinality(AddEvidence(s)) >= 2
<1> DEFINE A == {s[1]}
           P == A \cup {s[2]}
           H(j) == {s[k] : k \in 1..j}
<1>1. H(1) = A /\ H(2) = P /\ s[1] \in P /\ s[2] \in P /\ s[2] \notin A
  OBVIOUS
<1>2. IsFiniteSet(A) /\ Cardinality(A) = 1
  BY FS_Singleton
<1> HIDE DEF A
<1>3. IsFiniteSet(P) /\ Cardinality(P) = IF s[2] \in A THEN Cardinality(A) ELSE Cardinality(A) + 1
  BY <1>2, FS_AddElement
<1>4. 1 \in DOMAIN s /\ 2 \in DOMAIN s
  OBVIOUS
<1>5. AddEvidence(s) = {s[i] : i \in {j \in DOMAIN s : Cardinality(H(j)) <= EvidenceLimit}}
  BY DEF AddEvidence
<1> HIDE DEF P, H
<1>6. Cardinality(P) = 2 /\ Cardinality(H(1)) <= EvidenceLimit
      /\ Cardinality(H(2)) <= EvidenceLimit
  BY <1>1, <1>2, <1>3 DEF EvidenceLimit
<1>7. s[1] \in AddEvidence(s) /\ s[2] \in AddEvidence(s)
  BY <1>4, <1>5, <1>6
<1>8. P \in SUBSET AddEvidence(s)
  BY <1>7 DEF P, A
<1> QED BY <1>3, <1>6, <1>8, AddEvidenceFinite, FS_Subset

-----------------------------------------------------------------------------
(* The heuristic report.                                                   *)

LEMMA FiniteDomain ==
    ASSUME NEW n \in Nat
    PROVE  IsFiniteSet(1..n) /\ Cardinality(1..n) = n
<1>1. IsFiniteSet(1..n) /\ Cardinality(1..n) = IF 1 > n THEN 0 ELSE n - 1 + 1
  BY FS_Interval
<1> QED BY <1>1

LEMMA OfTypeBound ==
    ASSUME NEW rows \in Seq(Rows), NEW types, NEW others, types \cap others = {}
    PROVE  /\ OfType(rows, types) \in Nat /\ OfType(rows, others) \in Nat
           /\ OfType(rows, types) + OfType(rows, others) <= Len(rows)
<1> DEFINE A == {i \in DOMAIN rows : rows[i].type \in types}
           B == {i \in DOMAIN rows : rows[i].type \in others}
<1>1. IsFiniteSet(1..Len(rows)) /\ Cardinality(1..Len(rows)) = Len(rows)
  BY FiniteDomain
<1>2. A \cup B \in SUBSET (1..Len(rows)) /\ A \cap B = {}
  OBVIOUS
<1>3. IsFiniteSet(A) /\ IsFiniteSet(B) /\ Cardinality(A \cup B) <= Len(rows)
  BY <1>1, <1>2, FS_Subset
<1>4. Cardinality(A \cup B) = Cardinality(A) + Cardinality(B) - Cardinality(A \cap B)
  BY <1>3, FS_Union
<1>5. Cardinality(A \cap B) = 0 /\ Cardinality(A) \in Nat /\ Cardinality(B) \in Nat
  BY <1>2, <1>3, FS_EmptySet, FS_CardinalityType
<1> QED BY <1>3, <1>4, <1>5 DEF OfType

LEMMA OfSeverityBound ==
    ASSUME NEW rows \in Seq(Rows), NEW levels
    PROVE  OfSeverity(rows, levels) \in Nat /\ OfSeverity(rows, levels) <= Len(rows)
<1>1. IsFiniteSet(1..Len(rows)) /\ Cardinality(1..Len(rows)) = Len(rows)
  BY FiniteDomain
<1>2. {i \in DOMAIN rows : rows[i].severity \in levels} \in SUBSET (1..Len(rows))
  OBVIOUS
<1> QED BY <1>1, <1>2, FS_Subset, FS_CardinalityType DEF OfSeverity

\* What the code adds up, with the evidence it was added for.
LEMMA PointsBound ==
    ASSUME NEW b \in Bundles
    PROVE  /\ Points(b) \in Nat
           /\ Points(b) <= 12 + (IF HasTrend(b) THEN 28 ELSE 0)
                              + (IF b.latest = NoPlan THEN 0 ELSE 36)
                              + 16 * Len(b.diagnostics) + 15 * Len(b.regressions)
<1>1. b.diagnostics \in Seq(Rows) /\ b.regressions \in Seq(Rows)
  BY DEF Bundles
<1>2. AccessPathTypes \cap EstimateTypes = {}
  BY DEF AccessPathTypes, EstimateTypes
<1> DEFINE a == OfType(b.diagnostics, AccessPathTypes)
           e == OfType(b.diagnostics, EstimateTypes)
           g == OfSeverity(b.regressions, Grave)
<1>3. a \in Nat /\ e \in Nat /\ a + e <= Len(b.diagnostics)
  BY <1>1, <1>2, OfTypeBound
<1>4. g \in Nat /\ g <= Len(b.regressions)
  BY <1>1, OfSeverityBound
<1>5. /\ TrendAtLeast(b, 3, 2) => HasTrend(b)
      /\ TrendAtLeast(b, 3, 1) => HasTrend(b)
  BY DEF TrendAtLeast
<1>6. /\ RowsOffBy(b, 10) => b.latest # NoPlan
      /\ RowsOffBy(b, 3) => b.latest # NoPlan
      /\ Flipped(b) => b.latest # NoPlan
      /\ SeqScans(b) => b.latest # NoPlan
  BY DEF RowsOffBy, RowsKnown, Flipped, SeqScans
<1> DEFINE t == (IF TrendAtLeast(b, 3, 2) THEN 18 ELSE 0)
                + (IF TrendAtLeast(b, 3, 1) THEN 10 ELSE 0)
           p == (IF RowsOffBy(b, 10) THEN 16 ELSE IF RowsOffBy(b, 3) THEN 8 ELSE 0)
                + (IF Flipped(b) THEN 20 ELSE IF SeqScans(b) THEN 12 ELSE 0)
<1>7. t \in Nat /\ t <= (IF HasTrend(b) THEN 28 ELSE 0)
  BY <1>5
<1>8. p \in Nat /\ p <= (IF b.latest = NoPlan THEN 0 ELSE 36)
  BY <1>6
<1>9. Points(b) = 12 + t + p + 16 * a + 12 * e + 15 * g
  <2> HIDE DEF a, e, g
  <2>1. Points(b) = 12 + (IF TrendAtLeast(b, 3, 2) THEN 18 ELSE 0)
            + (IF TrendAtLeast(b, 3, 1) THEN 10 ELSE 0)
            + (IF RowsOffBy(b, 10) THEN 16 ELSE IF RowsOffBy(b, 3) THEN 8 ELSE 0)
            + (IF Flipped(b) THEN 20 ELSE IF SeqScans(b) THEN 12 ELSE 0)
            + 16 * a + 12 * e + 15 * g
    BY DEF Points, a, e, g
  <2> QED BY <1>3, <1>4, <2>1
<1> HIDE DEF t, p, a, e, g
<1>10. Len(b.diagnostics) \in Nat /\ Len(b.regressions) \in Nat
  BY <1>1
<1>11. 12 + t + p + 16 * a + 12 * e + 15 * g \in Nat
  BY <1>3, <1>4, <1>7, <1>8
<1> DEFINE d == Len(b.diagnostics)
           r == Len(b.regressions)
           T == IF HasTrend(b) THEN 28 ELSE 0
           L == IF b.latest = NoPlan THEN 0 ELSE 36
<1>12. 16 * a + 12 * e <= 16 * d /\ 15 * g <= 15 * r
  BY <1>3, <1>4, <1>10
<1>13. T \in Nat /\ L \in Nat /\ t <= T /\ p <= L
  BY <1>7, <1>8
<1> HIDE DEF d, r, T, L
<1>14. 12 + t + p + 16 * a + 12 * e + 15 * g <= 12 + T + L + 16 * d + 15 * r
  <2>1. d \in Nat /\ r \in Nat
    BY <1>10 DEF d, r
  <2> QED BY <1>3, <1>4, <1>7, <1>8, <1>12, <1>13, <2>1
<1> QED BY <1>9, <1>11, <1>14 DEF d, r, T, L

LEMMA FamilyTyped ==
    ASSUME NEW f \in Families, NEW T, T \subseteq Names
    PROVE  {f} \X T \subseteq Signals
BY DEF Signals

LEMMA RowsTyped ==
    ASSUME NEW rows \in Seq(Rows)
    PROVE  /\ \A i \in DOMAIN rows : rows[i].type \in Names
           /\ TypesOf(rows) \subseteq Names /\ SeveritiesOf(rows) \subseteq Names
<1>1. \A i \in DOMAIN rows : rows[i] \in Rows
  OBVIOUS
<1> QED BY <1>1 DEF Rows, TypesOf, SeveritiesOf

LEMMA InventoryTyped ==
    ASSUME NEW b \in Bundles
    PROVE  SignalInventory(b) \subseteq Signals
<1>1. b.diagnostics \in Seq(Rows) /\ b.regressions \in Seq(Rows)
  BY DEF Bundles
<1>2. PlanSignals \subseteq Signals
  BY FamilyTyped, NamesAssumption DEF PlanSignals, Families
<1>3. MetricSignals \subseteq Signals
  <2>1. <<"metric_window", "">> \in Signals
    BY NamesAssumption DEF Signals, Families, FixedNames
  <2> QED BY <2>1, FamilyTyped, NamesAssumption DEF MetricSignals, Families, FixedNames
<1>4. {"fingerprint"} \X {"normalized_query", "fingerprint_hash"} \subseteq Signals
  BY FamilyTyped, NamesAssumption DEF Families, FixedNames
<1>5. /\ {"diagnostic"} \X TypesOf(b.diagnostics) \subseteq Signals
      /\ {"diagnostic.severity"} \X SeveritiesOf(b.diagnostics) \subseteq Signals
  BY <1>1, RowsTyped, FamilyTyped DEF Families
<1>6. /\ {"regression"} \X TypesOf(b.regressions) \subseteq Signals
      /\ {"regression.severity"} \X SeveritiesOf(b.regressions) \subseteq Signals
  BY <1>1, RowsTyped, FamilyTyped DEF Families
<1>7. b.focus # NoFocus => <<"regression.focus", b.focus>> \in Signals
  BY DEF Bundles, Signals, Families
<1>8. /\ <<"plan", "previous_snapshot">> \in Signals
      /\ <<"placement", "simulation_context">> \in Signals
  BY NamesAssumption DEF Signals, Families, FixedNames
<1> QED BY <1>2, <1>3, <1>4, <1>5, <1>6, <1>7, <1>8 DEF SignalInventory

\* The evidence of a heuristic report is in the inventory.
LEMMA HeuristicGrounded ==
    ASSUME NEW b \in Bundles, NEW q
    PROVE  Grounded(HeuristicReport(b, q), b)
BY CandidatesInInventory, AddEvidenceSubset
   DEF Grounded, HeuristicReport, CitationsFromItems

LEMMA CountSum ==
    ASSUME NEW b \in Bundles
    PROVE  /\ Len(b.means) \in Nat /\ Len(b.diagnostics) \in Nat /\ Len(b.regressions) \in Nat
           /\ EvidenceCount(b) = Len(b.means) + Len(b.diagnostics) + Len(b.regressions)
                + (IF b.latest = NoPlan THEN 0 ELSE 1) + (IF b.previous = NoPlan THEN 0 ELSE 1)
           /\ EvidenceCount(b) \in Nat
<1> DEFINE m == Len(b.means)
           d == Len(b.diagnostics)
           r == Len(b.regressions)
           l == IF b.latest = NoPlan THEN 0 ELSE 1
           p == IF b.previous = NoPlan THEN 0 ELSE 1
<1>1. m \in Nat /\ d \in Nat /\ r \in Nat
  BY DEF Bundles
<1>2. l \in Nat /\ p \in Nat
  OBVIOUS
<1>3. EvidenceCount(b) = m + d + r + l + p
  BY DEF EvidenceCount
<1> HIDE DEF m, d, r, l, p
<1>4. m + d + r + l + p \in Nat
  BY <1>1, <1>2
<1> QED BY <1>1, <1>3, <1>4 DEF m, d, r, l, p

LEMMA ConfidenceBound ==
    ASSUME NEW b \in Bundles
    PROVE  Confidence(b) \in 0..99 /\ (~IsThin(b) => Confidence(b) <= Points(b) + 24)
<1> DEFINE n == Cardinality(AddEvidence(Candidates(b)))
           base == IF IsThin(b) THEN AtMost(Points(b), 35) ELSE Points(b)
<1>1. n \in Nat
  BY CandidatesInInventory, AddEvidenceFinite
<1>2. Points(b) \in Nat
  BY PointsBound
<1>3. base \in Nat /\ (~IsThin(b) => base = Points(b))
  BY <1>2 DEF AtMost
<1> HIDE DEF n, base
<1>4. AtMost(4 * n, 24) \in Nat /\ AtMost(4 * n, 24) <= 24
  BY <1>1 DEF AtMost
<1>5. /\ AtMost(base + AtMost(4 * n, 24), 99) \in 0..99
      /\ AtMost(base + AtMost(4 * n, 24), 99) <= base + 24
  BY <1>3, <1>4 DEF AtMost
<1>6. Confidence(b) = AtMost(base + AtMost(4 * n, 24), 99)
  BY DEF Confidence, n, base
<1> QED BY <1>2, <1>3, <1>5, <1>6

LEMMA HeuristicTyped ==
    ASSUME NEW b \in Bundles, NEW q \in BOOLEAN
    PROVE  HeuristicReport(b, q) \in Reports
<1> DEFINE rep == HeuristicReport(b, q)
<1>1. AddEvidence(Candidates(b)) \subseteq Signals
  BY CandidatesInInventory, AddEvidenceSubset, InventoryTyped
<1>2. Confidence(b) \in 0..100
  BY ConfidenceBound
<1>3. Risk(b) \in {"low", "medium", "high"}
  BY DEF Risk
<1>4. Priority(b) \in {"p0", "p1", "p2", "p3"}
  BY <1>3 DEF Priority
<1>5. IndexRecommendation(b) \in {"none", "btree", "ann"}
  BY DEF IndexRecommendation
<1>6. Rewrite(b) \in {"none", "seq_scan", "vector"}
  BY DEF Rewrite
<1>7. IsThin(b) \in BOOLEAN /\ (q \/ b.query.banned) \in BOOLEAN
  BY DEF IsThin, Bundles, Queries
<1> QED BY <1>1, <1>2, <1>3, <1>4, <1>5, <1>6, <1>7
        DEF HeuristicReport, CitationsFromItems, Reports

\* A bundle that is not thin gives the heuristics a second item besides the
\* query's text.
LEMMA SecondItem ==
    ASSUME NEW b \in Bundles, b.latest = NoPlan => b.previous = NoPlan, ~IsThin(b)
    PROVE  Cardinality(AddEvidence(Candidates(b))) >= 2
<1> DEFINE S == SignalInventory(b)
           first == <<"fingerprint", "normalized_query">>
           trend == When(HasTrend(b), <<"trend", "mean_exec_time_ms">>)
           plan == PlanCandidates(b)
           diag == RowCandidates("diagnostic", b.diagnostics)
           reg == RowCandidates("regression", b.regressions)
           focus == When(b.focus # NoFocus, <<"regression.focus", b.focus>>)
           place == When(b.query.placement, <<"placement", "simulation_context">>)
           rest == trend \o plan \o diag \o reg \o focus \o place
           F == ({"trend", "plan", "diagnostic", "regression", "regression.focus",
                         "placement"} \X Names)
<1>1. /\ trend \in Seq(F) /\ plan \in Seq(F) /\ diag \in Seq(F)
      /\ reg \in Seq(F) /\ focus \in Seq(F) /\ place \in Seq(F)
  <2>1. trend \in Seq(F) /\ place \in Seq(F)
    <3>1. /\ <<"trend", "mean_exec_time_ms">> \in F
          /\ <<"placement", "simulation_context">> \in F
      BY NamesAssumption DEF FixedNames
    <3> HIDE DEF F
    <3>2. HasTrend(b) \in BOOLEAN /\ b.query.placement \in BOOLEAN
      BY DEF HasTrend, Bundles, Queries
    <3> QED BY <3>1, <3>2, WhenSeq
  <2>2. plan \in Seq(F)
    <3>1. \A x \in PlanNames : \A c : When(c, <<"plan", x>>) \in Seq(F)
      <4>1. \A x \in PlanNames : <<"plan", x>> \in F
        BY NamesAssumption
      <4> HIDE DEF F
      <4> QED BY <4>1 DEF When
    <3> HIDE DEF F
    <3> QED BY <3>1, ConcatProperties DEF PlanCandidates, PlanNames
  <2>3. b.diagnostics \in Seq(Rows) /\ b.regressions \in Seq(Rows)
    BY DEF Bundles
  <2>4. /\ \A i \in DOMAIN b.diagnostics : <<"diagnostic", b.diagnostics[i].type>> \in F
        /\ \A i \in DOMAIN b.regressions : <<"regression", b.regressions[i].type>> \in F
    BY <2>3, RowsTyped
  <2>5. diag \in Seq(F) /\ reg \in Seq(F)
    BY <2>3, <2>4, RowCandidatesSeq
  <2>6. focus \in Seq(F)
    <3>1. b.focus # NoFocus => <<"regression.focus", b.focus>> \in F
      BY DEF Bundles
    <3> HIDE DEF F
    <3> QED BY <3>1, WhenSeq
  <2> QED BY <2>1, <2>2, <2>5, <2>6
<1>2. Len(trend) + Len(plan) + Len(diag) + Len(reg) >= 1
  <2>1. /\ Len(b.means) \in Nat /\ Len(b.diagnostics) \in Nat
        /\ Len(b.regressions) \in Nat
    BY DEF Bundles
  <2>2. /\ Len(trend) \in Nat /\ Len(plan) \in Nat /\ Len(diag) \in Nat
        /\ Len(reg) \in Nat
    BY <1>1
  <2>3. HasTrend(b) => Len(trend) = 1
    BY DEF When
  <2>4. b.latest # NoPlan => Len(plan) >= 1
    BY DEF PlanCandidates, When
  <2>5. Len(diag) = Len(b.diagnostics) /\ Len(reg) = Len(b.regressions)
    BY DEF RowCandidates, Bundles
  <2>6. \/ HasTrend(b) \/ b.latest # NoPlan
        \/ Len(b.diagnostics) >= 1 \/ Len(b.regressions) >= 1
    <3>1. SUFFICES ASSUME b.latest = NoPlan, ~HasTrend(b), Len(b.diagnostics) = 0,
                          Len(b.regressions) = 0
                   PROVE  FALSE
      BY <2>1
    <3>2. EvidenceCount(b) = Len(b.means)
      <4>1. b.previous = NoPlan
        BY <3>1
      <4>2. EvidenceCount(b) = Len(b.means) + 0 + 0 + 0 + 0
        BY <3>1, <4>1, CountSum
      <4> QED BY <2>1, <4>2
    <3> QED BY <2>1, <3>1, <3>2 DEF IsThin, HasTrend
  <2> HIDE DEF trend, plan, diag, reg
  <2>8. CASE HasTrend(b)
    BY <2>2, <2>3, <2>8
  <2>9. CASE b.latest # NoPlan
    BY <2>2, <2>4, <2>9
  <2>10. CASE Len(b.diagnostics) >= 1
    <3>1. Len(diag) >= 1
      BY <2>5, <2>10
    <3> QED BY <2>2, <3>1
  <2>11. CASE Len(b.regressions) >= 1
    <3>1. Len(reg) >= 1
      BY <2>5, <2>11
    <3> QED BY <2>2, <3>1
  <2> QED BY <2>6, <2>8, <2>9, <2>10, <2>11
<1> HIDE DEF trend, plan, diag, reg, focus, place, F
<1>3. rest \in Seq(F) /\ Len(rest) >= 1
  BY <1>1, <1>2
<1>4. rest[1] \in F
  BY <1>3
<1>5. first \notin F
  BY DEF F
<1>6. Candidates(b) = <<first>> \o rest
  BY DEF Candidates, TelemetryCandidates, trend, plan, diag, reg, focus, place
<1> HIDE DEF rest, first
<1>7. Len(Candidates(b)) >= 2 /\ Candidates(b)[1] = first /\ Candidates(b)[2] = rest[1]
  BY <1>3, <1>6
<1>8. Candidates(b)[1] # Candidates(b)[2]
  BY <1>4, <1>5, <1>7
<1> QED BY <1>7, <1>8, CandidatesInInventory, TwoItems

\* What the heuristics say passes the grounding check, unless the query or
\* the reason holds a forbidden phrase.
THEOREM HeuristicPasses ==
    ASSUME NEW b \in Bundles, b.latest = NoPlan => b.previous = NoPlan,
           ~b.query.banned
    PROVE  ~Rejected(HeuristicReport(b, FALSE), b)
<1> DEFINE rep == HeuristicReport(b, FALSE)
<1>1. Grounded(rep, b)
  BY HeuristicGrounded
<1>2. ~rep.banned
  BY DEF HeuristicReport
<1>3. ~(Cardinality(rep.evidence) < 2 /\ ~rep.insufficient)
  <2>1. /\ rep.evidence = AddEvidence(Candidates(b)) /\ rep.insufficient = IsThin(b)
    BY DEF HeuristicReport
  <2> HIDE DEF rep
  <2>2. CASE IsThin(b)
    BY <2>1, <2>2
  <2>3. CASE ~IsThin(b)
    <3>1. Cardinality(AddEvidence(Candidates(b))) \in Nat
      BY CandidatesInInventory, AddEvidenceFinite
    <3>2. Cardinality(AddEvidence(Candidates(b))) >= 2
      BY <2>3, SecondItem
    <3>3. Cardinality(rep.evidence) \in Nat /\ Cardinality(rep.evidence) >= 2
      BY <2>1, <3>1, <3>2
    <3>4. ~(Cardinality(rep.evidence) < 2)
      BY <3>3
    <3> QED BY <3>4
  <2> QED BY <2>2, <2>3
<1>4. ~(rep.confidence > 95 /\ EvidenceCount(b) < 3)
  <2>1. SUFFICES ASSUME EvidenceCount(b) < 3 PROVE Confidence(b) <= 95
    BY ConfidenceBound DEF HeuristicReport
  <2> DEFINE m == Len(b.means)
             d == Len(b.diagnostics)
             r == Len(b.regressions)
  <2>2. m \in Nat /\ d \in Nat /\ r \in Nat
    BY DEF Bundles
  <2>3. CASE IsThin(b)
    <3> DEFINE n == Cardinality(AddEvidence(Candidates(b)))
    <3>1. n \in Nat /\ Points(b) \in Nat
      BY CandidatesInInventory, AddEvidenceFinite, PointsBound
    <3> HIDE DEF n
    <3>2. AtMost(Points(b), 35) <= 35 /\ AtMost(4 * n, 24) <= 24
          /\ AtMost(Points(b), 35) \in Nat /\ AtMost(4 * n, 24) \in Nat
      BY <3>1 DEF AtMost
    <3>3. Confidence(b) = AtMost(AtMost(Points(b), 35) + AtMost(4 * n, 24), 99)
      BY <2>3 DEF Confidence, n
    <3>4. \A x \in Nat : x <= 59 => AtMost(x, 99) <= 59
      BY DEF AtMost
    <3>5. AtMost(Points(b), 35) + AtMost(4 * n, 24) \in Nat
          /\ AtMost(Points(b), 35) + AtMost(4 * n, 24) <= 59
      BY <3>2
    <3>6. Confidence(b) <= 59 /\ Confidence(b) \in Nat
      BY <3>3, <3>4, <3>5, ConfidenceBound
    <3> QED BY <3>6
  <2>4. CASE ~IsThin(b)
    <3>1. Confidence(b) <= Points(b) + 24 /\ Confidence(b) \in Nat
      BY <2>4, ConfidenceBound
    <3>2. EvidenceCount(b) = m + d + r + (IF b.latest = NoPlan THEN 0 ELSE 1)
                                       + (IF b.previous = NoPlan THEN 0 ELSE 1)
      BY CountSum
    <3>3. HasTrend(b) <=> m >= 2
      BY DEF HasTrend
    <3>4. Points(b) \in Nat
          /\ Points(b) <= 12 + (IF HasTrend(b) THEN 28 ELSE 0)
                             + (IF b.latest = NoPlan THEN 0 ELSE 36) + 16 * d + 15 * r
      BY PointsBound
    <3> HIDE DEF m, d, r
    <3>5. d <= 2 /\ r <= 2 /\ m <= 2 /\ d + r + m <= 2
      BY <2>1, <2>2, <3>2
    <3>6. CASE b.latest = NoPlan /\ HasTrend(b)
      BY <2>2, <3>1, <3>3, <3>4, <3>5, <3>6
    <3>7. CASE b.latest = NoPlan /\ ~HasTrend(b)
      BY <2>2, <3>1, <3>4, <3>5, <3>7
    <3>8. CASE b.latest # NoPlan
      <4>1. m + d + r <= 1
        BY <2>1, <2>2, <3>2, <3>8
      <4>2. Points(b) <= 12 + 36 + 16 * d + 15 * r
        BY <2>2, <3>3, <3>4, <3>8, <4>1
      <4> QED BY <2>2, <3>1, <3>4, <4>1, <4>2
    <3> QED BY <3>6, <3>7, <3>8
  <2> QED BY <2>3, <2>4
<1> HIDE DEF rep
<1> QED BY <1>1, <1>2, <1>3, <1>4 DEF Rejected, rep

-----------------------------------------------------------------------------
(* The service.                                                            *)

PlansInOrder(b) == b.latest = NoPlan => b.previous = NoPlan

\* A provider's report, or what the heuristics make of the bundle.
Written(rep, b) ==
    rep \in Answers \/ \E quoted \in BOOLEAN : rep = HeuristicReport(b, quoted)

\* What holds of a reply from the moment it exists.
SourceFits(r) ==
    LET rep == reply[r].report IN
    /\ Written(rep, bundle[r])
    /\ reply[r].source = "llm" => ~IsThin(bundle[r]) /\ rep \in PossibleAnswers(r)
    /\ reply[r].source = "heuristic" =>
        /\ ~rep.insufficient
        /\ \E quoted \in BOOLEAN : rep = HeuristicReport(bundle[r], quoted)
    /\ reply[r].source = "insufficient" => rep.insufficient
    /\ reply[r].source # "none"

\* What holds of a reply once the check is behind it.
Checked(r) ==
    /\ Grounded(reply[r].report, bundle[r]) /\ reply[r].grounded
    /\ bundle[r].query.banned \/ ~Rejected(reply[r].report, bundle[r])

RInv(r) ==
    /\ PlansInOrder(bundle[r])
    /\ pc[r] \in {"check", "respond", "answered"} => SourceFits(r)
    /\ pc[r] \in {"respond", "answered"} => Checked(r)
    /\ Answered(r) => ~(reply[r].source = "llm" /\ reply[r].report.insufficient)

\* The evidence request r has in its bundle, and for each statement it has
\* still to execute, the evidence that statement would return now.
PlansOf(b) ==
    (IF b.latest = NoPlan THEN 0 ELSE 1) + (IF b.previous = NoPlan THEN 0 ELSE 1)

MeansAhead(r) == IF pc[r] = "metrics" THEN AtMost(Len(db.means), 6) ELSE Len(bundle[r].means)
PlansAhead(r) ==
    IF pc[r] \in {"metrics", "plans"} THEN AtMost(Len(db.plans), 2) ELSE PlansOf(bundle[r])
DiagnosticsAhead(r) ==
    IF pc[r] \in {"metrics", "plans", "diagnostics"} THEN AtMost(Len(db.diagnostics), 8)
    ELSE Len(bundle[r].diagnostics)
RegressionsAhead(r) ==
    IF Reading(r) THEN AtMost(Len(db.regressions), 8) ELSE Len(bundle[r].regressions)

\* What was there when the request began is in its bundle or ahead of it.
EvidenceKept(r) ==
    pc[r] \notin {"new", "failed"} =>
        available[r] <= MeansAhead(r) + PlansAhead(r) + DiagnosticsAhead(r)
                        + RegressionsAhead(r)

IInv ==
    /\ TypeOK
    /\ \A r \in Requests : RInv(r)
    /\ \A r \in Requests : EvidenceKept(r)

\* A step that leaves the place, the bundle and the reply of r keeps RInv(r).
LEMMA RInvKept ==
    ASSUME NEW r \in Requests, RInv(r), pc'[r] = pc[r], bundle'[r] = bundle[r],
           reply'[r] = reply[r]
    PROVE  RInv(r)'
BY DEF RInv, SourceFits, Written, Checked, Answered, PossibleAnswers

\* A request that is where it was, with the same rows to read.
LEMMA EvidenceSame ==
    ASSUME NEW r \in Requests, EvidenceKept(r), db' = db, pc'[r] = pc[r],
           bundle'[r] = bundle[r], available'[r] = available[r]
    PROVE  EvidenceKept(r)'
BY DEF EvidenceKept, MeansAhead, PlansAhead, DiagnosticsAhead, RegressionsAhead, Reading

\* A request that has nothing left to read.
LEMMA EvidenceSettled ==
    ASSUME NEW r \in Requests, EvidenceKept(r), bundle'[r] = bundle[r],
           available'[r] = available[r], pc[r] \in {"ask", "check", "respond"},
           pc'[r] \in {"check", "respond", "answered"}
    PROVE  EvidenceKept(r)'
BY DEF EvidenceKept, MeansAhead, PlansAhead, DiagnosticsAhead, RegressionsAhead, Reading

LEMMA EmptyBundleTyped == EmptyBundle \in Bundles /\ PlansInOrder(EmptyBundle)
BY InvestigationAssumption DEF EmptyBundle, Bundles, PlansInOrder

LEMMA ProvidersTyped ==
    ASSUME NEW s \in SettingsInPlay
    PROVE  DefaultProviders(s) \in Seq(ProviderNames)
<1>1. s.openaiKey \in BOOLEAN /\ s.geminiKey \in BOOLEAN /\ s.fallbackModel \in BOOLEAN
  BY InvestigationAssumption
<1>2. \A c \in BOOLEAN, p \in ProviderNames : When(c, p) \in Seq(ProviderNames)
  BY WhenSeq
<1>3. "openai" \in ProviderNames /\ "gemini" \in ProviderNames /\ "ollama" \in ProviderNames
  BY DEF ProviderNames
<1> DEFINE o == s.provider \in {"auto", "ollama"}
<1>4. o \in BOOLEAN /\ (o /\ s.fallbackModel) \in BOOLEAN
  BY <1>1
<1> HIDE DEF o
<1>5. /\ When(s.openaiKey, "openai") \in Seq(ProviderNames)
      /\ When(s.geminiKey, "gemini") \in Seq(ProviderNames)
      /\ When(o, "ollama") \in Seq(ProviderNames)
      /\ When(o /\ s.fallbackModel, "ollama") \in Seq(ProviderNames)
  BY <1>1, <1>2, <1>3, <1>4
<1> QED BY <1>5, ConcatProperties DEF DefaultProviders, o

LEMMA NoReplyTyped == NoReply \in Replies
BY DEF NoReply, Replies, Reports

\* The initial state.
LEMMA InitIInv == Init => IInv
<1> SUFFICES ASSUME Init PROVE IInv
  OBVIOUS
<1>1. providers \in Seq(ProviderNames)
  BY ProvidersTyped DEF Init
<1>2. TypeOK
  <2>1. bundle \in [Requests -> Bundles] /\ reply \in [Requests -> Replies]
    BY EmptyBundleTyped, NoReplyTyped DEF Init
  <2>2. db \in [means : Seq(Nat), plans : Seq(Plans), diagnostics : Seq(Rows),
                regressions : Seq(Rows)]
    BY DEF Init
  <2>3. /\ pc \in [Requests -> Places] /\ available \in [Requests -> Nat]
        /\ turn \in [Requests -> Nat \ {0}] /\ blamed \in [Requests -> BOOLEAN]
    BY DEF Init, Places
  <2> QED BY <1>1, <2>1, <2>2, <2>3 DEF TypeOK
<1>3. \A r \in Requests : RInv(r)
  BY EmptyBundleTyped DEF Init, RInv, Answered
<1>4. \A r \in Requests : EvidenceKept(r)
  BY DEF Init, EvidenceKept
<1> QED BY <1>2, <1>3, <1>4 DEF IInv

\* What the four reads return.
LEMMA ReadsTyped ==
    ASSUME TypeOK
    PROVE  /\ NewestMeans \in Seq(Nat)
           /\ NewestPlan(1) \in Plans \cup {NoPlan} /\ NewestPlan(2) \in Plans \cup {NoPlan}
           /\ NewestPlan(1) = NoPlan => NewestPlan(2) = NoPlan
           /\ FirstRows(db.diagnostics) \in Seq(Rows)
           /\ FirstRows(db.regressions) \in Seq(Rows)
<1>1. /\ db.means \in Seq(Nat) /\ db.plans \in Seq(Plans)
      /\ db.diagnostics \in Seq(Rows) /\ db.regressions \in Seq(Rows)
  BY DEF TypeOK
<1>2. NewestMeans \in Seq(Nat)
  <2> DEFINE n == Len(db.means)
             m == IF n > 6 THEN n - 5 ELSE 1
  <2>1. n \in Nat /\ m \in Int /\ \A i \in m..n : i \in DOMAIN db.means
    BY <1>1
  <2>2. \A i \in m..n : db.means[i] \in Nat
    BY <1>1, <2>1
  <2> HIDE DEF n, m
  <2>3. SubSeq(db.means, m, n) \in Seq(Nat)
    BY <2>1, <2>2, SubSeqProperties
  <2> QED BY <2>3 DEF NewestMeans, n, m
<1>3. \A k \in {1, 2} : NewestPlan(k) \in Plans \cup {NoPlan}
  <2> TAKE k \in {1, 2}
  <2>1. CASE Len(db.plans) < k
    BY <2>1 DEF NewestPlan
  <2>2. CASE ~(Len(db.plans) < k)
    <3>1. Len(db.plans) - k + 1 \in DOMAIN db.plans
      BY <1>1, <2>2
    <3>2. db.plans[Len(db.plans) - k + 1] \in Plans
      BY <1>1, <3>1
    <3> QED BY <2>2, <3>2 DEF NewestPlan
  <2> QED BY <2>1, <2>2
<1>4. NewestPlan(1) = NoPlan => NewestPlan(2) = NoPlan
  <2>1. CASE Len(db.plans) < 1
    BY <1>1, <2>1 DEF NewestPlan
  <2>2. CASE ~(Len(db.plans) < 1)
    <3>1. NewestPlan(1) = db.plans[Len(db.plans)] /\ Len(db.plans) \in DOMAIN db.plans
      BY <1>1, <2>2 DEF NewestPlan
    <3>2. NewestPlan(1) \in Plans
      BY <1>1, <3>1
    <3> QED BY <3>2, NoneAssumption
  <2> QED BY <2>1, <2>2
<1>5. \A rows \in Seq(Rows) : FirstRows(rows) \in Seq(Rows)
  <2> TAKE rows \in Seq(Rows)
  <2> DEFINE n == AtMost(Len(rows), 8)
  <2>1. n \in Nat /\ \A i \in 1..n : rows[i] \in Rows
    BY DEF AtMost
  <2> HIDE DEF n
  <2>2. SubSeq(rows, 1, n) \in Seq(Rows)
    BY <2>1, SubSeqProperties
  <2> QED BY <2>2 DEF FirstRows, n
<1> QED BY <1>1, <1>2, <1>3, <1>4, <1>5

LEMMA BundleNowTyped == TypeOK => BundleNow \in Bundles
BY ReadsTyped, InvestigationAssumption DEF BundleNow, EmptyBundle, Bundles

\* How much the reads return.
LEMMA ReadSizes ==
    ASSUME TypeOK
    PROVE  /\ Len(NewestMeans) = AtMost(Len(db.means), 6)
           /\ (IF NewestPlan(1) = NoPlan THEN 0 ELSE 1)
                + (IF NewestPlan(2) = NoPlan THEN 0 ELSE 1) = AtMost(Len(db.plans), 2)
           /\ Len(FirstRows(db.diagnostics)) = AtMost(Len(db.diagnostics), 8)
           /\ Len(FirstRows(db.regressions)) = AtMost(Len(db.regressions), 8)
<1>1. /\ db.means \in Seq(Nat) /\ db.plans \in Seq(Plans)
      /\ db.diagnostics \in Seq(Rows) /\ db.regressions \in Seq(Rows)
  BY DEF TypeOK
<1>2. Len(NewestMeans) = AtMost(Len(db.means), 6)
  <2> DEFINE n == Len(db.means)
             m == IF n > 6 THEN n - 5 ELSE 1
  <2>1. n \in Nat /\ m \in Int /\ \A i \in m..n : i \in DOMAIN db.means
    BY <1>1
  <2>2. \A i \in m..n : db.means[i] \in Nat
    BY <1>1, <2>1
  <2>3. m = IF n > 6 THEN n - 5 ELSE 1
    OBVIOUS
  <2> HIDE DEF n, m
  <2>4. Len(SubSeq(db.means, m, n)) = IF m <= n THEN n - m + 1 ELSE 0
    BY <2>1, <2>2, SubSeqProperties
  <2>5. CASE n > 6
    <3>1. m = n - 5 /\ n - m + 1 = 6 /\ m <= n
      BY <2>1, <2>3, <2>5
    <3>2. AtMost(n, 6) = 6
      BY <2>1, <2>5 DEF AtMost
    <3> QED BY <2>4, <3>1, <3>2 DEF NewestMeans, n, m
  <2>6. CASE ~(n > 6)
    <3>1. m = 1 /\ (IF m <= n THEN n - m + 1 ELSE 0) = n
      BY <2>1, <2>3, <2>6
    <3>2. AtMost(n, 6) = n
      BY <2>1, <2>6 DEF AtMost
    <3> QED BY <2>4, <3>1, <3>2 DEF NewestMeans, n, m
  <2> QED BY <2>5, <2>6
<1>3. \A k \in {1, 2} : NewestPlan(k) = NoPlan <=> Len(db.plans) < k
  <2> TAKE k \in {1, 2}
  <2>1. CASE Len(db.plans) < k
    BY <2>1 DEF NewestPlan
  <2>2. CASE ~(Len(db.plans) < k)
    <3>1. Len(db.plans) - k + 1 \in DOMAIN db.plans
      BY <1>1, <2>2
    <3>2. db.plans[Len(db.plans) - k + 1] \in Plans
      BY <1>1, <3>1
    <3> QED BY <2>2, <3>2, NoneAssumption DEF NewestPlan
  <2> QED BY <2>1, <2>2
<1>4. \A rows \in Seq(Rows) : Len(FirstRows(rows)) = AtMost(Len(rows), 8)
  <2> TAKE rows \in Seq(Rows)
  <2> DEFINE n == AtMost(Len(rows), 8)
  <2>1. n \in Nat /\ \A i \in 1..n : rows[i] \in Rows
    BY DEF AtMost
  <2> HIDE DEF n
  <2>2. Len(SubSeq(rows, 1, n)) = IF 1 <= n THEN n - 1 + 1 ELSE 0
    BY <2>1, SubSeqProperties
  <2>3. Len(SubSeq(rows, 1, n)) = n
    BY <2>1, <2>2
  <2> QED BY <2>3 DEF FirstRows, n
<1>5. (IF NewestPlan(1) = NoPlan THEN 0 ELSE 1)
        + (IF NewestPlan(2) = NoPlan THEN 0 ELSE 1) = AtMost(Len(db.plans), 2)
  <2>1. Len(db.plans) \in Nat
    BY <1>1
  <2>2. /\ NewestPlan(1) = NoPlan <=> Len(db.plans) < 1
        /\ NewestPlan(2) = NoPlan <=> Len(db.plans) < 2
    BY <1>3
  <2> DEFINE n == Len(db.plans)
  <2>6. n \in Nat
    BY <2>1
  <2> HIDE DEF n
  <2>3. CASE n < 1
    <3>1. n = 0 /\ AtMost(n, 2) = 0
      BY <2>6, <2>3 DEF AtMost
    <3> QED BY <2>2, <3>1 DEF n
  <2>4. CASE n = 1
    <3>1. AtMost(n, 2) = 1
      BY <2>4 DEF AtMost
    <3> QED BY <2>2, <2>4, <3>1 DEF n
  <2>5. CASE n > 1
    <3>1. AtMost(n, 2) = 2 /\ ~(n < 1) /\ ~(n < 2)
      BY <2>6, <2>5 DEF AtMost
    <3> QED BY <2>2, <3>1 DEF n
  <2> QED BY <2>3, <2>4, <2>5, <2>6
<1> QED BY <1>1, <1>2, <1>4, <1>5

\* A limit cuts more rows to no fewer.
LEMMA AtMostGrows ==
    ASSUME NEW m \in Nat, NEW n \in Nat, m <= n, NEW bound \in Nat
    PROVE  /\ AtMost(m, bound) \in Nat /\ AtMost(n, bound) \in Nat
           /\ AtMost(m, bound) <= AtMost(n, bound)
BY DEF AtMost

\* A collection that commits keeps the invariant.
LEMMA CommitKeeps ==
    ASSUME IInv, NEW c \in Captures, CaptureCommits(c)
    PROVE  IInv'
<1>1. /\ c.mean \in Nat /\ c.plan \in Plans \cup {NoPlan}
      /\ c.diagnostics \in Seq(Rows) /\ c.regressions \in Seq(Rows)
  BY InvestigationAssumption
<1>2. /\ db.means \in Seq(Nat) /\ db.plans \in Seq(Plans)
      /\ db.diagnostics \in Seq(Rows) /\ db.regressions \in Seq(Rows)
  BY DEF IInv, TypeOK
<1>3. /\ Append(db.means, c.mean) \in Seq(Nat)
      /\ (IF c.plan = NoPlan THEN db.plans ELSE Append(db.plans, c.plan)) \in Seq(Plans)
      /\ c.diagnostics \o db.diagnostics \in Seq(Rows)
      /\ c.regressions \o db.regressions \in Seq(Rows)
  BY <1>1, <1>2, AppendProperties, ConcatProperties
<1>4. TypeOK'
  BY <1>3 DEF IInv, TypeOK, CaptureCommits
<1>5. \A r \in Requests : RInv(r)'
  BY RInvKept DEF IInv, CaptureCommits
<1>6. /\ db'.means = Append(db.means, c.mean)
      /\ db'.plans = IF c.plan = NoPlan THEN db.plans ELSE Append(db.plans, c.plan)
      /\ db'.diagnostics = c.diagnostics \o db.diagnostics
      /\ db'.regressions = c.regressions \o db.regressions
      /\ UNCHANGED <<pc, available, bundle>>
  BY DEF CaptureCommits
<1>7. /\ AtMost(Len(db.means), 6) <= AtMost(Len(db'.means), 6)
      /\ AtMost(Len(db.plans), 2) <= AtMost(Len(db'.plans), 2)
      /\ AtMost(Len(db.diagnostics), 8) <= AtMost(Len(db'.diagnostics), 8)
      /\ AtMost(Len(db.regressions), 8) <= AtMost(Len(db'.regressions), 8)
      /\ AtMost(Len(db.means), 6) \in Nat /\ AtMost(Len(db'.means), 6) \in Nat
      /\ AtMost(Len(db.plans), 2) \in Nat /\ AtMost(Len(db'.plans), 2) \in Nat
      /\ AtMost(Len(db.diagnostics), 8) \in Nat /\ AtMost(Len(db'.diagnostics), 8) \in Nat
      /\ AtMost(Len(db.regressions), 8) \in Nat /\ AtMost(Len(db'.regressions), 8) \in Nat
  <2>1. /\ Len(db.means) \in Nat /\ Len(db'.means) \in Nat
        /\ Len(db.means) <= Len(db'.means)
    BY <1>1, <1>2, <1>6
  <2>2. /\ Len(db.plans) \in Nat /\ Len(db'.plans) \in Nat
        /\ Len(db.plans) <= Len(db'.plans)
    BY <1>1, <1>2, <1>6
  <2>3. /\ Len(db.diagnostics) \in Nat /\ Len(db'.diagnostics) \in Nat
        /\ Len(db.diagnostics) <= Len(db'.diagnostics)
    <3> DEFINE old == Len(db.diagnostics)
               new == Len(db'.diagnostics)
               added == Len(c.diagnostics)
    <3>1. new = added + old
      BY <1>1, <1>2, <1>6, ConcatProperties
    <3>2. added \in Nat /\ old \in Nat
      BY <1>1, <1>2
    <3> HIDE DEF old, new, added
    <3>3. old \in Nat /\ new \in Nat /\ old <= new
      BY <3>1, <3>2
    <3> QED BY <3>3 DEF old, new
  <2>4. /\ Len(db.regressions) \in Nat /\ Len(db'.regressions) \in Nat
        /\ Len(db.regressions) <= Len(db'.regressions)
    <3> DEFINE old == Len(db.regressions)
               new == Len(db'.regressions)
               added == Len(c.regressions)
    <3>1. new = added + old
      BY <1>1, <1>2, <1>6, ConcatProperties
    <3>2. added \in Nat /\ old \in Nat
      BY <1>1, <1>2
    <3> HIDE DEF old, new, added
    <3>3. old \in Nat /\ new \in Nat /\ old <= new
      BY <3>1, <3>2
    <3> QED BY <3>3 DEF old, new
  <2>5. /\ AtMost(Len(db.means), 6) <= AtMost(Len(db'.means), 6)
        /\ AtMost(Len(db.means), 6) \in Nat /\ AtMost(Len(db'.means), 6) \in Nat
    BY <2>1, AtMostGrows
  <2>6. /\ AtMost(Len(db.plans), 2) <= AtMost(Len(db'.plans), 2)
        /\ AtMost(Len(db.plans), 2) \in Nat /\ AtMost(Len(db'.plans), 2) \in Nat
    BY <2>2, AtMostGrows
  <2>7. /\ AtMost(Len(db.diagnostics), 8) <= AtMost(Len(db'.diagnostics), 8)
        /\ AtMost(Len(db.diagnostics), 8) \in Nat /\ AtMost(Len(db'.diagnostics), 8) \in Nat
    BY <2>3, AtMostGrows
  <2>8. /\ AtMost(Len(db.regressions), 8) <= AtMost(Len(db'.regressions), 8)
        /\ AtMost(Len(db.regressions), 8) \in Nat /\ AtMost(Len(db'.regressions), 8) \in Nat
    BY <2>4, AtMostGrows
  <2> QED BY <2>5, <2>6, <2>7, <2>8
<1>8. \A r \in Requests : EvidenceKept(r)'
  <2> TAKE r \in Requests
  <2>1. EvidenceKept(r) /\ bundle[r] \in Bundles /\ available[r] \in Nat
    BY DEF IInv, TypeOK
  <2>2. /\ Len(bundle[r].means) \in Nat /\ Len(bundle[r].diagnostics) \in Nat
        /\ Len(bundle[r].regressions) \in Nat /\ PlansOf(bundle[r]) \in Nat
    BY <2>1 DEF Bundles, PlansOf
  <2>7. pc' = pc /\ available' = available /\ bundle' = bundle
    BY <1>6
  <2>3. /\ MeansAhead(r) \in Nat /\ MeansAhead(r)' \in Nat
        /\ MeansAhead(r) <= MeansAhead(r)'
    BY <1>7, <2>2, <2>7 DEF MeansAhead
  <2>4. /\ PlansAhead(r) \in Nat /\ PlansAhead(r)' \in Nat
        /\ PlansAhead(r) <= PlansAhead(r)'
    BY <1>7, <2>2, <2>7 DEF PlansAhead
  <2>5. /\ DiagnosticsAhead(r) \in Nat /\ DiagnosticsAhead(r)' \in Nat
        /\ DiagnosticsAhead(r) <= DiagnosticsAhead(r)'
    BY <1>7, <2>2, <2>7 DEF DiagnosticsAhead
  <2>6. /\ RegressionsAhead(r) \in Nat /\ RegressionsAhead(r)' \in Nat
        /\ RegressionsAhead(r) <= RegressionsAhead(r)'
    BY <1>7, <2>2, <2>7 DEF RegressionsAhead, Reading
  <2> QED BY <2>1, <2>3, <2>4, <2>5, <2>6, <2>7 DEF EvidenceKept
<1> QED BY <1>4, <1>5, <1>8 DEF IInv

\* The steps that fill the bundle.
LEMMA ReadKeeps ==
    ASSUME IInv, NEW r \in Requests, NEW place, NEW next, NEW read \in Bundles,
           PlansInOrder(read), next \in {"plans", "diagnostics", "regressions", "ask"},
           Reads(r, place, next, read), EvidenceKept(r)'
    PROVE  IInv'
<1>1. TypeOK'
  BY DEF IInv, TypeOK, Reads, Places
<1>2. bundle'[r] = read /\ pc'[r] = next
  BY DEF IInv, TypeOK, Reads
<1>3. \A q \in Requests \ {r} : pc'[q] = pc[q] /\ bundle'[q] = bundle[q] /\ reply'[q] = reply[q]
  BY DEF IInv, TypeOK, Reads
<1>4. RInv(r)'
  BY <1>2 DEF RInv, Answered
<1>5. \A q \in Requests \ {r} : RInv(q)'
  BY <1>3, RInvKept DEF IInv
<1>6. \A q \in Requests \ {r} : EvidenceKept(q)'
  BY <1>3, EvidenceSame DEF IInv, Reads
<1> QED BY <1>1, <1>4, <1>5, <1>6 DEF IInv

\* The steps that put the reply of one request in place.
LEMMA ReplyKeeps ==
    ASSUME IInv, NEW r \in Requests, NEW place \in {"check", "respond", "answered"},
           NEW rep \in Replies,
           reply' = [reply EXCEPT ![r] = rep], pc' = [pc EXCEPT ![r] = place],
           pc[r] \in {"ask", "check", "respond"},
           UNCHANGED <<db, providers, available, bundle, turn, blamed>>,
           SourceFits(r)',
           place # "check" => Checked(r)',
           place = "answered" => ~(rep.source = "llm" /\ rep.report.insufficient)
    PROVE  IInv'
<1>1. TypeOK'
  BY DEF IInv, TypeOK, Places
<1>2. bundle'[r] = bundle[r] /\ pc'[r] = place /\ reply'[r] = rep
  BY DEF IInv, TypeOK
<1>3. \A q \in Requests \ {r} : pc'[q] = pc[q] /\ bundle'[q] = bundle[q] /\ reply'[q] = reply[q]
  BY DEF IInv, TypeOK
<1>4. RInv(r)'
  BY <1>2 DEF RInv, Answered, IInv
<1>5. \A q \in Requests \ {r} : RInv(q)'
  BY <1>3, RInvKept DEF IInv
<1>6. EvidenceKept(r)'
  BY <1>2, EvidenceSettled DEF IInv
<1>7. \A q \in Requests \ {r} : EvidenceKept(q)'
  BY <1>3, EvidenceSame DEF IInv
<1> QED BY <1>1, <1>4, <1>5, <1>6, <1>7 DEF IInv

\* A heuristic answer fits its request.
LEMMA HeuristicsFit ==
    ASSUME IInv, NEW r \in Requests, NEW quoted \in BOOLEAN,
           NEW name \in ProviderNames \cup {"none", "disabled", "heuristic"},
           bundle' = bundle, reply'[r] = Heuristics(r, quoted, name)
    PROVE  /\ Heuristics(r, quoted, name) \in Replies
           /\ SourceFits(r)'
           /\ ~quoted => Checked(r)'
           /\ ~(reply'[r].source = "llm")
<1> DEFINE h == HeuristicReport(bundle[r], quoted)
<1>1. bundle[r] \in Bundles /\ PlansInOrder(bundle[r])
  BY DEF IInv, TypeOK, RInv
<1>2. h \in Reports /\ Grounded(h, bundle[r])
  BY <1>1, HeuristicTyped, HeuristicGrounded
<1>3. h.insufficient = IsThin(bundle[r])
  BY DEF HeuristicReport
<1>4. ~quoted => bundle[r].query.banned \/ ~Rejected(h, bundle[r])
  <2>1. SUFFICES ASSUME quoted = FALSE, ~bundle[r].query.banned PROVE ~Rejected(h, bundle[r])
    OBVIOUS
  <2> QED BY <1>1, <2>1, HeuristicPasses DEF PlansInOrder
<1> HIDE DEF h
<1>5. /\ reply'[r].report = h /\ reply'[r].grounded = TRUE /\ reply'[r].provider = name
      /\ reply'[r].source = IF IsThin(bundle[r]) THEN "insufficient" ELSE "heuristic"
  BY DEF Heuristics, h
<1>6. Heuristics(r, quoted, name) \in Replies
  BY <1>2 DEF Heuristics, Replies, h
<1>7. SourceFits(r)'
  BY <1>3, <1>5 DEF SourceFits, Written, h
<1>8. ~quoted => Checked(r)'
  BY <1>2, <1>4, <1>5 DEF Checked
<1>9. ~(reply'[r].source = "llm")
  BY <1>5
<1> QED BY <1>6, <1>7, <1>8, <1>9

\* A request begins with everything ahead of it.
LEMMA BeginCounts ==
    ASSUME TypeOK, NEW r \in Requests, NEW f, Begin(r, f)
    PROVE  EvidenceKept(r)'
<1> DEFINE m == AtMost(Len(db.means), 6)
           p == AtMost(Len(db.plans), 2)
           d == AtMost(Len(db.diagnostics), 8)
           g == AtMost(Len(db.regressions), 8)
<1>1. /\ BundleNow.means = NewestMeans /\ BundleNow.latest = NewestPlan(1)
      /\ BundleNow.previous = NewestPlan(2)
      /\ BundleNow.diagnostics = FirstRows(db.diagnostics)
      /\ BundleNow.regressions = FirstRows(db.regressions)
  BY DEF BundleNow, EmptyBundle
<1>2. /\ Len(NewestMeans) = m /\ Len(FirstRows(db.diagnostics)) = d
      /\ Len(FirstRows(db.regressions)) = g
      /\ m \in Nat /\ d \in Nat /\ g \in Nat
  <2>1. /\ Len(NewestMeans) \in Nat /\ Len(FirstRows(db.diagnostics)) \in Nat
        /\ Len(FirstRows(db.regressions)) \in Nat
    BY ReadsTyped
  <2> QED BY <2>1, ReadSizes
<1>3. (IF NewestPlan(1) = NoPlan THEN 0 ELSE 1)
        + (IF NewestPlan(2) = NoPlan THEN 0 ELSE 1) = p
  BY ReadSizes
<1> HIDE DEF m, p, d, g
<1>4. EvidenceCount(BundleNow) = m + p + d + g
  BY <1>1, <1>2, <1>3 DEF EvidenceCount
<1>5. available'[r] = EvidenceCount(BundleNow) /\ pc'[r] = "metrics" /\ db' = db
  BY DEF Begin, TypeOK
<1>6. /\ MeansAhead(r)' = m /\ PlansAhead(r)' = p /\ DiagnosticsAhead(r)' = d
      /\ RegressionsAhead(r)' = g
  BY <1>5 DEF MeansAhead, PlansAhead, DiagnosticsAhead, RegressionsAhead, Reading,
      m, p, d, g
<1>7. p \in Nat
  BY <1>3
<1> QED BY <1>2, <1>4, <1>5, <1>6, <1>7 DEF EvidenceKept

\* The evidence counted by kind.
LEMMA CountAgain ==
    ASSUME NEW b \in Bundles
    PROVE  /\ EvidenceCount(b) \in Nat
           /\ EvidenceCount(b) = Len(b.means) + PlansOf(b) + Len(b.diagnostics)
                                  + Len(b.regressions)
<1> DEFINE m == Len(b.means)
           d == Len(b.diagnostics)
           g == Len(b.regressions)
           l == IF b.latest = NoPlan THEN 0 ELSE 1
           p == IF b.previous = NoPlan THEN 0 ELSE 1
<1>1. m \in Nat /\ d \in Nat /\ g \in Nat /\ l \in Nat /\ p \in Nat
  BY CountSum
<1>2. EvidenceCount(b) = m + d + g + l + p /\ PlansOf(b) = l + p
  BY CountSum DEF PlansOf
<1> HIDE DEF m, d, g, l, p
<1>3. m + d + g + l + p \in Nat /\ m + d + g + l + p = m + (l + p) + d + g
  BY <1>1
<1> QED BY <1>2, <1>3 DEF m, d, g

\* A bundle that is handed over has all of its evidence.
LEMMA GivenCounts ==
    ASSUME TypeOK, NEW r \in Requests, NEW b \in Bundles, InvestigateBundle(r, b)
    PROVE  EvidenceKept(r)'
<1>1. available'[r] = EvidenceCount(b) /\ pc'[r] = "ask" /\ bundle'[r] = b
  BY DEF InvestigateBundle, TypeOK
<1>2. /\ MeansAhead(r)' = Len(b.means) /\ PlansAhead(r)' = PlansOf(b)
      /\ DiagnosticsAhead(r)' = Len(b.diagnostics)
      /\ RegressionsAhead(r)' = Len(b.regressions)
  BY <1>1 DEF MeansAhead, PlansAhead, DiagnosticsAhead, RegressionsAhead, Reading
<1>3. EvidenceCount(b) <= Len(b.means) + PlansOf(b) + Len(b.diagnostics) + Len(b.regressions)
  BY CountAgain
<1> QED BY <1>1, <1>2, <1>3 DEF EvidenceKept

\* A read puts into the bundle what was ahead.
LEMMA ReadCounts ==
    ASSUME IInv, NEW r \in Requests,
           ReadMetrics(r) \/ ReadPlans(r) \/ ReadDiagnostics(r) \/ ReadRegressions(r)
    PROVE  EvidenceKept(r)'
<1>1. TypeOK /\ EvidenceKept(r) /\ bundle[r] \in Bundles
  BY DEF IInv, TypeOK
<1>2. CASE ReadMetrics(r)
  <2>1. /\ pc[r] = "metrics" /\ pc'[r] = "plans" /\ db' = db /\ available' = available
        /\ bundle'[r] = [bundle[r] EXCEPT !.means = NewestMeans]
    BY <1>1, <1>2 DEF ReadMetrics, Reads, TypeOK
  <2>2. bundle'[r].means = NewestMeans
    BY <1>1, <2>1 DEF Bundles
  <2>3. Len(bundle'[r].means) = AtMost(Len(db.means), 6)
    BY <1>1, <2>2, ReadSizes
  <2> QED BY <1>1, <2>1, <2>3 DEF EvidenceKept, MeansAhead, PlansAhead, DiagnosticsAhead,
        RegressionsAhead, Reading
<1>3. CASE ReadPlans(r)
  <2>1. /\ pc[r] = "plans" /\ pc'[r] = "diagnostics" /\ db' = db /\ available' = available
        /\ bundle'[r] = [bundle[r] EXCEPT !.latest = NewestPlan(1), !.previous = NewestPlan(2)]
    BY <1>1, <1>3 DEF ReadPlans, Reads, TypeOK
  <2>2. /\ bundle'[r].means = bundle[r].means
        /\ bundle'[r].latest = NewestPlan(1) /\ bundle'[r].previous = NewestPlan(2)
    BY <1>1, <2>1 DEF Bundles
  <2>3. PlansOf(bundle'[r]) = AtMost(Len(db.plans), 2)
    BY <1>1, <2>2, ReadSizes DEF PlansOf
  <2> QED BY <1>1, <2>1, <2>2, <2>3 DEF EvidenceKept, MeansAhead, PlansAhead,
        DiagnosticsAhead, RegressionsAhead, Reading
<1>4. CASE ReadDiagnostics(r)
  <2>1. /\ pc[r] = "diagnostics" /\ pc'[r] = "regressions" /\ db' = db
        /\ available' = available
        /\ bundle'[r] = [bundle[r] EXCEPT !.diagnostics = FirstRows(db.diagnostics)]
    BY <1>1, <1>4 DEF ReadDiagnostics, Reads, TypeOK
  <2>2. /\ bundle'[r].means = bundle[r].means
        /\ bundle'[r].diagnostics = FirstRows(db.diagnostics)
        /\ PlansOf(bundle'[r]) = PlansOf(bundle[r])
    BY <1>1, <2>1 DEF Bundles, PlansOf
  <2>3. Len(bundle'[r].diagnostics) = AtMost(Len(db.diagnostics), 8)
    BY <1>1, <2>2, ReadSizes
  <2> QED BY <1>1, <2>1, <2>2, <2>3 DEF EvidenceKept, MeansAhead, PlansAhead,
        DiagnosticsAhead, RegressionsAhead, Reading
<1>5. CASE ReadRegressions(r)
  <2>1. /\ pc[r] = "regressions" /\ pc'[r] = "ask" /\ db' = db /\ available' = available
        /\ bundle'[r] = [bundle[r] EXCEPT !.regressions = FirstRows(db.regressions)]
    BY <1>1, <1>5 DEF ReadRegressions, Reads, TypeOK
  <2>2. /\ bundle'[r].means = bundle[r].means
        /\ bundle'[r].diagnostics = bundle[r].diagnostics
        /\ bundle'[r].regressions = FirstRows(db.regressions)
        /\ PlansOf(bundle'[r]) = PlansOf(bundle[r])
    BY <1>1, <2>1 DEF Bundles, PlansOf
  <2>3. Len(bundle'[r].regressions) = AtMost(Len(db.regressions), 8)
    BY <1>1, <2>2, ReadSizes
  <2> QED BY <1>1, <2>1, <2>2, <2>3 DEF EvidenceKept, MeansAhead, PlansAhead,
        DiagnosticsAhead, RegressionsAhead, Reading
<1> QED BY <1>2, <1>3, <1>4, <1>5

\* A step of a request keeps the invariant.
LEMMA StepKeeps ==
    ASSUME IInv, NEW r \in Requests, Starts(r) \/ Continues(r)
    PROVE  IInv'
<1>1. /\ TypeOK /\ RInv(r) /\ bundle[r] \in Bundles /\ reply[r] \in Replies
      /\ blamed[r] \in BOOLEAN /\ turn[r] \in Nat \ {0} /\ PlansInOrder(bundle[r])
  BY DEF IInv, TypeOK, RInv
<1>2. ASSUME NEW f \in TypesOf(db.regressions) \cup {NoFocus}, Begin(r, f) PROVE IInv'
  <2>1. f \in Names \cup {NoFocus}
    BY <1>1, RowsTyped DEF TypeOK
  <2>2. EvidenceCount(BundleNow) \in Nat
    BY <1>1, BundleNowTyped, CountSum
  <2>3. [bundle[r] EXCEPT !.focus = f] \in Bundles /\ PlansInOrder([bundle[r] EXCEPT !.focus = f])
    BY <1>1, <2>1 DEF Bundles, PlansInOrder
  <2>4. bundle' = [bundle EXCEPT ![r] = [bundle[r] EXCEPT !.focus = f]]
    BY <1>2 DEF Begin
  <2>5. TypeOK'
    BY <1>2, <2>2, <2>3, <2>4 DEF IInv, TypeOK, Begin, Places
  <2>6. RInv(r)'
    BY <1>1, <1>2, <2>3, <2>4 DEF RInv, Answered, Begin, TypeOK
  <2>7. \A q \in Requests \ {r} : RInv(q)'
    BY <1>1, <1>2, <2>4, RInvKept DEF IInv, Begin, TypeOK
  <2>8. EvidenceKept(r)'
    BY <1>1, <1>2, BeginCounts
  <2>9. \A q \in Requests \ {r} : EvidenceKept(q)'
    BY <1>1, <1>2, <2>4, EvidenceSame DEF IInv, Begin, TypeOK
  <2> QED BY <2>5, <2>6, <2>7, <2>8, <2>9 DEF IInv
<1>3. CASE LookupFails(r)
  <2>1. TypeOK'
    BY <1>1, <1>3 DEF TypeOK, LookupFails, Places
  <2>2. RInv(r)'
    BY <1>1, <1>3 DEF RInv, Answered, LookupFails, TypeOK
  <2>3. \A q \in Requests \ {r} : RInv(q)'
    BY <1>1, <1>3, RInvKept DEF IInv, LookupFails, TypeOK
  <2>4. EvidenceKept(r)'
    BY <1>1, <1>3 DEF EvidenceKept, LookupFails, TypeOK
  <2>5. \A q \in Requests \ {r} : EvidenceKept(q)'
    BY <1>1, <1>3, EvidenceSame DEF IInv, LookupFails, TypeOK
  <2> QED BY <2>1, <2>2, <2>3, <2>4, <2>5 DEF IInv
<1>4. ASSUME NEW b \in Supplied, InvestigateBundle(r, b) PROVE IInv'
  <2>1. b \in Bundles /\ PlansInOrder(b) /\ EvidenceCount(b) \in Nat
    BY InvestigationAssumption, CountSum DEF PlansInOrder
  <2>2. TypeOK'
    BY <1>1, <1>4, <2>1 DEF TypeOK, InvestigateBundle, Places
  <2>3. RInv(r)'
    BY <1>1, <1>4, <2>1 DEF RInv, Answered, InvestigateBundle, TypeOK
  <2>4. \A q \in Requests \ {r} : RInv(q)'
    BY <1>1, <1>4, RInvKept DEF IInv, InvestigateBundle, TypeOK
  <2>5. EvidenceKept(r)'
    BY <1>1, <1>4, <2>1, GivenCounts
  <2>6. \A q \in Requests \ {r} : EvidenceKept(q)'
    BY <1>1, <1>4, EvidenceSame DEF IInv, InvestigateBundle, TypeOK
  <2> QED BY <2>2, <2>3, <2>4, <2>5, <2>6 DEF IInv
<1>5. CASE ReadMetrics(r) \/ ReadPlans(r) \/ ReadDiagnostics(r) \/ ReadRegressions(r)
  <2>1. /\ [bundle[r] EXCEPT !.means = NewestMeans] \in Bundles
        /\ [bundle[r] EXCEPT !.latest = NewestPlan(1), !.previous = NewestPlan(2)] \in Bundles
        /\ [bundle[r] EXCEPT !.diagnostics = FirstRows(db.diagnostics)] \in Bundles
        /\ [bundle[r] EXCEPT !.regressions = FirstRows(db.regressions)] \in Bundles
    BY <1>1, ReadsTyped DEF Bundles
  <2>2. /\ PlansInOrder([bundle[r] EXCEPT !.means = NewestMeans])
        /\ PlansInOrder([bundle[r] EXCEPT !.latest = NewestPlan(1), !.previous = NewestPlan(2)])
        /\ PlansInOrder([bundle[r] EXCEPT !.diagnostics = FirstRows(db.diagnostics)])
        /\ PlansInOrder([bundle[r] EXCEPT !.regressions = FirstRows(db.regressions)])
    BY <1>1, ReadsTyped DEF Bundles, PlansInOrder
  <2>3. EvidenceKept(r)'
    BY <1>5, ReadCounts
  <2>4. CASE ReadMetrics(r)
    BY <2>1, <2>2, <2>3, <2>4, ReadKeeps DEF ReadMetrics
  <2>5. CASE ReadPlans(r)
    BY <2>1, <2>2, <2>3, <2>5, ReadKeeps DEF ReadPlans
  <2>6. CASE ReadDiagnostics(r)
    BY <2>1, <2>2, <2>3, <2>6, ReadKeeps DEF ReadDiagnostics
  <2>7. CASE ReadRegressions(r)
    BY <2>1, <2>2, <2>3, <2>7, ReadKeeps DEF ReadRegressions
  <2> QED BY <1>5, <2>4, <2>5, <2>6, <2>7
<1>6. CASE SkipModel(r)
  <2> DEFINE name == IF providers = <<>> THEN "disabled" ELSE "heuristic"
  <2>1. reply' = [reply EXCEPT ![r] = Heuristics(r, FALSE, name)]
        /\ pc' = [pc EXCEPT ![r] = "check"] /\ pc[r] = "ask"
        /\ UNCHANGED <<db, providers, available, bundle, turn, blamed>>
    BY <1>6 DEF SkipModel
  <2>2. name \in ProviderNames \cup {"none", "disabled", "heuristic"}
    OBVIOUS
  <2> HIDE DEF name
  <2>3. reply'[r] = Heuristics(r, FALSE, name)
    BY <1>1, <2>1 DEF TypeOK
  <2>4. Heuristics(r, FALSE, name) \in Replies /\ SourceFits(r)'
    BY <2>1, <2>2, <2>3, HeuristicsFit
  <2> QED BY <2>1, <2>4, ReplyKeeps
<1>7. CASE AllFailed(r)
  <2>1. reply' = [reply EXCEPT ![r] = Heuristics(r, blamed[r], providers[1])]
        /\ pc' = [pc EXCEPT ![r] = "check"] /\ pc[r] = "ask"
        /\ UNCHANGED <<db, providers, available, bundle, turn, blamed>>
    BY <1>7 DEF AllFailed
  <2>2. providers[1] \in ProviderNames
    BY <1>1, <1>7 DEF AllFailed, Skipped, TypeOK
  <2>3. reply'[r] = Heuristics(r, blamed[r], providers[1])
    BY <1>1, <2>1 DEF TypeOK
  <2>4. Heuristics(r, blamed[r], providers[1]) \in Replies /\ SourceFits(r)'
    BY <1>1, <2>1, <2>2, <2>3, HeuristicsFit
  <2> QED BY <2>1, <2>4, ReplyKeeps
<1>8. ASSUME NEW rep \in PossibleAnswers(r), ProviderAnswers(r, rep) PROVE IInv'
  <2> DEFINE new == [report |-> rep, source |-> "llm", provider |-> providers[turn[r]],
                     grounded |-> FALSE]
  <2>1. reply' = [reply EXCEPT ![r] = new] /\ pc' = [pc EXCEPT ![r] = "check"]
        /\ UNCHANGED <<db, providers, available, bundle, turn, blamed>> /\ ~IsThin(bundle[r])
        /\ pc[r] = "ask"
    BY <1>8 DEF ProviderAnswers, Asking, Skipped
  <2>2. rep \in Reports
    BY <1>1, InvestigationAssumption, HeuristicTyped DEF PossibleAnswers
  <2>3. providers[turn[r]] \in ProviderNames
    BY <1>1, <1>8 DEF ProviderAnswers, Asking, TypeOK
  <2>4. new \in Replies
    BY <2>2, <2>3 DEF Replies
  <2>5. reply'[r] = new
    BY <1>1, <2>1 DEF TypeOK
  <2>6. PossibleAnswers(r)' = PossibleAnswers(r)
    BY <2>1 DEF PossibleAnswers
  <2>7. Written(rep, bundle[r])
    BY DEF Written, PossibleAnswers
  <2>8. SourceFits(r)'
    <3>1. reply'[r].report = rep /\ reply'[r].source = "llm" /\ bundle' = bundle
      BY <2>1, <2>5
    <3> HIDE DEF new
    <3> QED BY <2>1, <2>6, <2>7, <3>1 DEF SourceFits
  <2> HIDE DEF new
  <2> QED BY <2>1, <2>4, <2>8, ReplyKeeps
<1>9. ASSUME NEW q \in BOOLEAN, ProviderFails(r, q) PROVE IInv'
  <2>1. TypeOK'
    BY <1>1, <1>9 DEF TypeOK, ProviderFails
  <2>2. \A p \in Requests : RInv(p)'
    BY <1>9, RInvKept DEF IInv, ProviderFails
  <2>3. \A p \in Requests : EvidenceKept(p)'
    BY <1>9, EvidenceSame DEF IInv, ProviderFails
  <2> QED BY <2>1, <2>2, <2>3 DEF IInv
<1>10. CASE Accept(r)
  <2> DEFINE new == [reply[r] EXCEPT !.grounded = TRUE]
  <2>1. reply' = [reply EXCEPT ![r] = new] /\ pc' = [pc EXCEPT ![r] = "respond"]
        /\ UNCHANGED <<db, providers, available, bundle, turn, blamed>>
        /\ ~Rejected(reply[r].report, bundle[r]) /\ pc[r] = "check"
    BY <1>10 DEF Accept
  <2>2. new \in Replies /\ new.report = reply[r].report /\ new.source = reply[r].source
        /\ new.grounded = TRUE
    BY <1>1 DEF Replies
  <2>3. reply'[r] = new
    BY <1>1, <2>1 DEF TypeOK
  <2> HIDE DEF new
  <2>4. SourceFits(r)'
    BY <1>1, <2>1, <2>2, <2>3 DEF SourceFits, Written, RInv, PossibleAnswers
  <2>5. Checked(r)'
    BY <2>1, <2>2, <2>3 DEF Checked, Rejected
  <2> QED BY <2>1, <2>2, <2>4, <2>5, ReplyKeeps
<1>11. CASE Reject(r)
  <2> DEFINE name == reply[r].provider
  <2>1. reply' = [reply EXCEPT ![r] = Heuristics(r, FALSE, name)]
        /\ pc' = [pc EXCEPT ![r] = "respond"] /\ pc[r] = "check"
        /\ UNCHANGED <<db, providers, available, bundle, turn, blamed>>
    BY <1>11 DEF Reject
  <2>2. name \in ProviderNames \cup {"none", "disabled", "heuristic"}
    BY <1>1 DEF Replies
  <2> HIDE DEF name
  <2>3. reply'[r] = Heuristics(r, FALSE, name)
    BY <1>1, <2>1 DEF TypeOK
  <2>4. Heuristics(r, FALSE, name) \in Replies /\ SourceFits(r)' /\ Checked(r)'
    BY <2>1, <2>2, <2>3, HeuristicsFit
  <2> QED BY <2>1, <2>4, ReplyKeeps
<1>12. CASE Respond(r)
  <2> DEFINE rep == reply[r].report
             source == IF rep.insufficient /\ reply[r].source = "llm" THEN "insufficient"
                       ELSE reply[r].source
             new == [reply[r] EXCEPT !.source = source]
  <2>1. reply' = [reply EXCEPT ![r] = new] /\ pc' = [pc EXCEPT ![r] = "answered"]
        /\ UNCHANGED <<db, providers, available, bundle, turn, blamed>> /\ pc[r] = "respond"
    BY <1>12 DEF Respond
  <2>2. new \in Replies /\ new.report = rep /\ new.source = source
        /\ new.grounded = reply[r].grounded
    BY <1>1 DEF Replies
  <2>3. reply'[r] = new
    BY <1>1, <2>1 DEF TypeOK
  <2>4. /\ source = "llm" => reply[r].source = "llm" /\ ~rep.insufficient
        /\ source = "heuristic" => reply[r].source = "heuristic"
        /\ source = "insufficient" => rep.insufficient
        /\ source # "none"
    BY <1>1, <2>1 DEF RInv, SourceFits
  <2> HIDE DEF new, source
  <2>5. SourceFits(r)'
    BY <1>1, <2>1, <2>2, <2>3, <2>4 DEF SourceFits, Written, RInv, PossibleAnswers
  <2>6. Checked(r)'
    BY <1>1, <2>1, <2>2, <2>3 DEF Checked, RInv
  <2>7. ~(new.source = "llm" /\ new.report.insufficient)
    BY <2>2, <2>4
  <2> QED BY <2>1, <2>2, <2>5, <2>6, <2>7, ReplyKeeps
<1> QED BY <1>2, <1>3, <1>4, <1>5, <1>6, <1>7, <1>8, <1>9, <1>10, <1>11, <1>12
        DEF Starts, Continues

\* Every step keeps the invariant.
LEMMA NextKeeps == IInv /\ [Next]_vars => IInv'
<1>1. IInv /\ UNCHANGED vars => IInv'
  <2> SUFFICES ASSUME IInv, UNCHANGED vars PROVE IInv'
    OBVIOUS
  <2>1. TypeOK'
    BY DEF IInv, TypeOK, vars
  <2>2. \A r \in Requests : RInv(r)'
    BY RInvKept DEF IInv, vars
  <2>3. \A r \in Requests : EvidenceKept(r)'
    BY EvidenceSame DEF IInv, vars
  <2> QED BY <2>1, <2>2, <2>3 DEF IInv
<1>2. IInv /\ Next => IInv'
  BY CommitKeeps, StepKeeps DEF Next
<1> QED BY <1>1, <1>2

\* Every state has the types, keeps what is known of each request, and still
\* has every piece of evidence ahead of or behind the request's queries.
THEOREM Invariance == Spec => []IInv
BY InitIInv, NextKeeps, PTL DEF Spec

\* Every variable keeps its type.
THEOREM TypeCorrect == Spec => []TypeOK
<1>1. IInv => TypeOK
  BY DEF IInv
<1> QED BY <1>1, Invariance, PTL

\* Whatever a provider says, a served report cites only its own bundle.
THEOREM Grounding == Spec => []CitationsGrounded
<1>1. IInv => CitationsGrounded
  BY DEF IInv, RInv, Checked, CitationsGrounded, Answered
<1> QED BY <1>1, Invariance, PTL

\* The unchecked fallback would pass the check that its predecessor failed.
THEOREM Passing == Spec => []AnswersWouldPass
<1>1. IInv => AnswersWouldPass
  BY DEF IInv, RInv, Checked, AnswersWouldPass, Answered
<1> QED BY <1>1, Invariance, PTL

\* The source of a response is what its report was made from.
THEOREM Truth == Spec => []SourceTruthful
<1>1. IInv => SourceTruthful
  <2> SUFFICES ASSUME IInv, NEW r \in Requests, Answered(r)
               PROVE  LET rep == reply[r].report IN
                      /\ reply[r].source = "insufficient" <=> rep.insufficient
                      /\ reply[r].source = "llm" => ~IsThin(bundle[r]) /\ rep \in PossibleAnswers(r)
                      /\ reply[r].source = "heuristic" =>
                          \E quoted \in BOOLEAN : rep = HeuristicReport(bundle[r], quoted)
    BY DEF SourceTruthful
  <2>1. SourceFits(r) /\ ~(reply[r].source = "llm" /\ reply[r].report.insufficient)
    BY DEF IInv, RInv, Answered
  <2>2. reply[r].source \in {"llm", "heuristic", "insufficient"}
    BY <2>1 DEF IInv, TypeOK, Replies, SourceFits
  <2> QED BY <2>1, <2>2 DEF SourceFits
<1> QED BY <1>1, Invariance, PTL

\* Captures that commit between the four statements take nothing away: two
\* pieces of evidence at the start are enough for the heuristics.
THEOREM EvidenceUsed == Spec => []EnoughEvidenceIsUsed
<1>1. IInv => EnoughEvidenceIsUsed
  <2> SUFFICES ASSUME IInv, NEW r \in Requests, Answered(r), available[r] >= 2
               PROVE  ~IsThin(bundle[r])
    BY DEF EnoughEvidenceIsUsed
  <2> DEFINE b == bundle[r]
  <2>1. b \in Bundles /\ available[r] \in Nat
    BY DEF IInv, TypeOK
  <2>2. /\ MeansAhead(r) = Len(b.means) /\ PlansAhead(r) = PlansOf(b)
        /\ DiagnosticsAhead(r) = Len(b.diagnostics)
        /\ RegressionsAhead(r) = Len(b.regressions)
    BY DEF MeansAhead, PlansAhead, DiagnosticsAhead, RegressionsAhead, Reading, Answered
  <2>3. available[r] <= Len(b.means) + PlansOf(b) + Len(b.diagnostics) + Len(b.regressions)
    BY <2>2 DEF IInv, EvidenceKept, Answered
  <2> HIDE DEF b
  <2>4. EvidenceCount(b) >= 2
    BY <2>1, <2>3, CountAgain
  <2>5. EvidenceCount(b) \in Nat
    BY <2>1, CountAgain
  <2> QED BY <2>4, <2>5 DEF IsThin, b
<1> QED BY <1>1, Invariance, PTL

\* The evaluation's full marks are not a matter of its twelve bundles: the
\* heuristics earn them for every bundle.
THEOREM FullMarksEverywhere == Spec => []HeuristicsGetFullMarks
<1>1. ASSUME NEW b \in Bundles, NEW quoted PROVE FullMarks(b, HeuristicReport(b, quoted))
  <2> DEFINE rep == HeuristicReport(b, quoted)
  <2>1. rep.evidence \subseteq SignalInventory(b)
    BY HeuristicGrounded DEF Grounded
  <2>2. rep.rewrite # "none" /\ rep.insufficient = IsThin(b)
    BY DEF HeuristicReport, Rewrite
  <2> HIDE DEF rep
  <2> QED BY <2>1, <2>2 DEF FullMarks, rep
<1>2. IInv => HeuristicsGetFullMarks
  BY <1>1 DEF IInv, TypeOK, RInv, SourceFits, Written, HeuristicsGetFullMarks, Answered
<1> QED BY <1>2, Invariance, PTL

-----------------------------------------------------------------------------
(* The refinement.                                                         *)

\* What a request shows of itself to the abstract specification.
StateOf(r) ==
    IF Answered(r) THEN "answered" ELSE IF pc[r] = "failed" THEN "refused"
    ELSE IF Reading(r) THEN "new" ELSE "open"
KnownOf(r) == IF Reading(r) \/ pc[r] = "failed" THEN {} ELSE SignalInventory(bundle[r])
CitedOf(r) ==
    IF Answered(r) THEN reply[r].report.evidence \cup reply[r].report.citations ELSE {}

LEMMA Bars ==
    /\ stateBar = [r \in Requests |-> StateOf(r)]
    /\ knownBar = [r \in Requests |-> KnownOf(r)]
    /\ citedBar = [r \in Requests |-> CitedOf(r)]
BY DEF stateBar, knownBar, citedBar, StateOf, KnownOf, CitedOf

LEMMA BarsPrimed ==
    /\ stateBar' = [r \in Requests |-> StateOf(r)']
    /\ knownBar' = [r \in Requests |-> KnownOf(r)']
    /\ citedBar' = [r \in Requests |-> CitedOf(r)']
BY DEF stateBar, knownBar, citedBar, StateOf, KnownOf, CitedOf

\* A request whose place and bundle stay, and whose reply stays once it is
\* served, shows the same.
LEMMA SameShown ==
    ASSUME NEW r \in Requests, pc'[r] = pc[r], bundle'[r] = bundle[r],
           Answered(r) => reply'[r] = reply[r]
    PROVE  StateOf(r)' = StateOf(r) /\ KnownOf(r)' = KnownOf(r) /\ CitedOf(r)' = CitedOf(r)
BY DEF StateOf, KnownOf, CitedOf, Answered, Reading

\* If only r changes what it shows, the bars change at r.
LEMMA ShownAt ==
    ASSUME NEW r \in Requests,
           \A q \in Requests \ {r} : /\ StateOf(q)' = StateOf(q) /\ KnownOf(q)' = KnownOf(q)
                                     /\ CitedOf(q)' = CitedOf(q)
    PROVE  /\ stateBar' = [stateBar EXCEPT ![r] = StateOf(r)']
           /\ Promise!Unchanged(knownBar, r) /\ Promise!Unchanged(citedBar, r)
           /\ KnownOf(r)' = KnownOf(r) => knownBar' = knownBar
           /\ CitedOf(r)' = CitedOf(r) => citedBar' = citedBar
           /\ StateOf(r)' = StateOf(r) => stateBar' = stateBar
           /\ stateBar[r] = StateOf(r) /\ knownBar[r] = KnownOf(r) /\ citedBar[r] = CitedOf(r)
           /\ knownBar'[r] = KnownOf(r)' /\ citedBar'[r] = CitedOf(r)'
<1>1. /\ stateBar' = [q \in Requests |-> StateOf(q)']
      /\ knownBar' = [q \in Requests |-> KnownOf(q)']
      /\ citedBar' = [q \in Requests |-> CitedOf(q)']
  BY BarsPrimed
<1>2. /\ stateBar = [q \in Requests |-> StateOf(q)]
      /\ knownBar = [q \in Requests |-> KnownOf(q)]
      /\ citedBar = [q \in Requests |-> CitedOf(q)]
  BY Bars
<1>3. stateBar' = [stateBar EXCEPT ![r] = StateOf(r)']
  BY <1>1, <1>2
<1>4. Promise!Unchanged(knownBar, r)
  BY <1>1, <1>2 DEF Promise!Unchanged
<1>5. Promise!Unchanged(citedBar, r)
  BY <1>1, <1>2 DEF Promise!Unchanged
<1>6. KnownOf(r)' = KnownOf(r) => knownBar' = knownBar
  BY <1>1, <1>2
<1>7. CitedOf(r)' = CitedOf(r) => citedBar' = citedBar
  BY <1>1, <1>2
<1>8. StateOf(r)' = StateOf(r) => stateBar' = stateBar
  BY <1>1, <1>2
<1> QED BY <1>1, <1>2, <1>3, <1>4, <1>5, <1>6, <1>7, <1>8

LEMMA RefinesInit == Init => Promise!Init
<1> SUFFICES ASSUME Init PROVE Promise!Init
  OBVIOUS
<1>1. \A r \in Requests : StateOf(r) = "new" /\ KnownOf(r) = {} /\ CitedOf(r) = {}
  BY DEF Init, StateOf, KnownOf, CitedOf, Answered, Reading
<1> QED BY <1>1, Bars DEF Promise!Init

\* A step of r that shows nothing.
LEMMA HiddenStep ==
    ASSUME NEW r \in Requests,
           \A q \in Requests \ {r} : /\ StateOf(q)' = StateOf(q) /\ KnownOf(q)' = KnownOf(q)
                                     /\ CitedOf(q)' = CitedOf(q),
           StateOf(r)' = StateOf(r), KnownOf(r)' = KnownOf(r), CitedOf(r)' = CitedOf(r)
    PROVE  UNCHANGED Promise!vars
BY ShownAt DEF Promise!vars

LEMMA RefinesStep ==
    ASSUME IInv, IInv', NEW r \in Requests, Starts(r) \/ Continues(r)
    PROVE  [Promise!Next]_(Promise!vars)
<1>1. /\ TypeOK /\ RInv(r) /\ bundle'[r] \in Bundles
  BY DEF IInv, TypeOK
<1>2. \A q \in Requests \ {r} : pc'[q] = pc[q] /\ bundle'[q] = bundle[q] /\ reply'[q] = reply[q]
  <2>1. ASSUME Starts(r)
        PROVE  \A q \in Requests \ {r} :
                  pc'[q] = pc[q] /\ bundle'[q] = bundle[q] /\ reply'[q] = reply[q]
    BY <1>1, <2>1 DEF TypeOK, Starts, Begin, LookupFails, InvestigateBundle
  <2>2. ASSUME Continues(r)
        PROVE  \A q \in Requests \ {r} :
                  pc'[q] = pc[q] /\ bundle'[q] = bundle[q] /\ reply'[q] = reply[q]
    BY <1>1, <2>2 DEF TypeOK, Continues, Reads, ReadMetrics, ReadPlans, ReadDiagnostics,
        ReadRegressions, SkipModel, AllFailed, ProviderAnswers, ProviderFails, Accept,
        Reject, Respond
  <2> QED BY <2>1, <2>2
<1>3. \A q \in Requests \ {r} : /\ StateOf(q)' = StateOf(q) /\ KnownOf(q)' = KnownOf(q)
                                /\ CitedOf(q)' = CitedOf(q)
  BY <1>2, SameShown
<1>4. ASSUME Reading(r), pc'[r] \in {"metrics", "plans", "diagnostics", "regressions"}
      PROVE  UNCHANGED Promise!vars
  <2>1. StateOf(r)' = StateOf(r) /\ KnownOf(r)' = KnownOf(r) /\ CitedOf(r)' = CitedOf(r)
    BY <1>4 DEF StateOf, KnownOf, CitedOf, Answered, Reading
  <2> QED BY <1>3, <2>1, HiddenStep
<1>5. ASSUME Reading(r), pc'[r] = "ask" PROVE Promise!Next
  <2>1. StateOf(r) = "new" /\ StateOf(r)' = "open" /\ CitedOf(r)' = CitedOf(r)
    BY <1>5 DEF StateOf, CitedOf, Answered, Reading
  <2>2. KnownOf(r)' \subseteq Signals
    <3>1. SignalInventory(bundle'[r]) \subseteq Signals
      BY <1>1, InventoryTyped
    <3> QED BY <1>5, <3>1 DEF KnownOf, Reading
  <2>3. Promise!Open(r)
    BY <1>3, <2>1, <2>2, ShownAt DEF Promise!Open
  <2> QED BY <2>3 DEF Promise!Next
<1>6. ASSUME ~Reading(r), pc[r] # "failed", ~Answered(r), bundle'[r] = bundle[r],
             pc'[r] \in {"ask", "check", "respond"}
      PROVE  UNCHANGED Promise!vars
  <2>1. StateOf(r)' = StateOf(r) /\ KnownOf(r)' = KnownOf(r) /\ CitedOf(r)' = CitedOf(r)
    BY <1>6 DEF StateOf, KnownOf, CitedOf, Answered, Reading
  <2> QED BY <1>3, <2>1, HiddenStep
<1>7. CASE Respond(r)
  <2>1. /\ pc[r] = "respond" /\ pc'[r] = "answered" /\ bundle' = bundle
        /\ reply'[r].report = reply[r].report
    BY <1>1, <1>7 DEF Respond, TypeOK, Replies
  <2>2. Grounded(reply[r].report, bundle[r])
    BY <1>1, <2>1 DEF RInv, Checked
  <2>3. /\ StateOf(r) = "open" /\ StateOf(r)' = "answered" /\ KnownOf(r)' = KnownOf(r)
        /\ KnownOf(r) = SignalInventory(bundle[r])
        /\ CitedOf(r)' = reply[r].report.evidence \cup reply[r].report.citations
    BY <2>1 DEF StateOf, KnownOf, CitedOf, Answered, Reading
  <2>4. CitedOf(r)' \subseteq KnownOf(r)
    BY <2>2, <2>3 DEF Grounded
  <2>5. Promise!Answer(r)
    BY <1>3, <2>3, <2>4, ShownAt DEF Promise!Answer
  <2> QED BY <2>5 DEF Promise!Next
<1>8. CASE LookupFails(r)
  <2>1. pc[r] = "new" /\ pc'[r] = "failed"
    BY <1>1, <1>8 DEF LookupFails, TypeOK
  <2>2. /\ StateOf(r) = "new" /\ StateOf(r)' = "refused" /\ KnownOf(r)' = KnownOf(r)
        /\ CitedOf(r)' = CitedOf(r)
    BY <2>1 DEF StateOf, KnownOf, CitedOf, Answered, Reading
  <2>3. Promise!Refuse(r)
    BY <1>3, <2>2, ShownAt DEF Promise!Refuse
  <2> QED BY <2>3 DEF Promise!Next
<1>9. CASE ReadMetrics(r) \/ ReadPlans(r) \/ ReadDiagnostics(r)
  BY <1>1, <1>4, <1>9 DEF Reads, ReadMetrics, ReadPlans, ReadDiagnostics, Reading, TypeOK
<1>10. CASE ReadRegressions(r)
  BY <1>1, <1>5, <1>10 DEF Reads, ReadRegressions, Reading, TypeOK
<1>11. CASE SkipModel(r) \/ AllFailed(r)
  BY <1>1, <1>6, <1>11 DEF SkipModel, AllFailed, Reading, Answered, TypeOK
<1>12. CASE Accept(r) \/ Reject(r)
  BY <1>1, <1>6, <1>12 DEF Accept, Reject, Reading, Answered, TypeOK
<1>13. ASSUME NEW rep \in PossibleAnswers(r), ProviderAnswers(r, rep)
       PROVE  UNCHANGED Promise!vars
  BY <1>1, <1>6, <1>13 DEF ProviderAnswers, Asking, Reading, Answered, TypeOK
<1>14. ASSUME NEW q \in BOOLEAN, ProviderFails(r, q) PROVE UNCHANGED Promise!vars
  BY <1>1, <1>6, <1>14 DEF ProviderFails, Asking, Reading, Answered, TypeOK
<1>15. ASSUME NEW f \in TypesOf(db.regressions) \cup {NoFocus}, Begin(r, f)
       PROVE  UNCHANGED Promise!vars
  BY <1>1, <1>4, <1>15 DEF Begin, Reading, TypeOK
<1>16. ASSUME NEW b \in Supplied, InvestigateBundle(r, b) PROVE Promise!Next
  BY <1>1, <1>5, <1>16 DEF InvestigateBundle, Reading, TypeOK
<1> QED BY <1>7, <1>8, <1>9, <1>10, <1>11, <1>12, <1>13, <1>14, <1>15, <1>16
        DEF Starts, Continues

LEMMA RefinesNext == IInv /\ IInv' /\ [Next]_vars => [Promise!Next]_(Promise!vars)
<1> SUFFICES ASSUME IInv, IInv', [Next]_vars PROVE [Promise!Next]_(Promise!vars)
  OBVIOUS
<1>1. ASSUME pc' = pc, bundle' = bundle, reply' = reply PROVE UNCHANGED Promise!vars
  <2>1. \A r \in Requests : /\ StateOf(r)' = StateOf(r) /\ KnownOf(r)' = KnownOf(r)
                            /\ CitedOf(r)' = CitedOf(r)
    BY <1>1, SameShown
  <2>2. stateBar' = stateBar
    BY <2>1, Bars, BarsPrimed
  <2>3. knownBar' = knownBar
    BY <2>1, Bars, BarsPrimed
  <2>4. citedBar' = citedBar
    BY <2>1, Bars, BarsPrimed
  <2> QED BY <2>2, <2>3, <2>4 DEF Promise!vars
<1>2. CASE UNCHANGED vars
  BY <1>1, <1>2 DEF vars
<1>3. ASSUME NEW c \in Captures, CaptureCommits(c) PROVE UNCHANGED Promise!vars
  BY <1>1, <1>3 DEF CaptureCommits
<1>4. ASSUME NEW r \in Requests, Starts(r) \/ Continues(r)
      PROVE  [Promise!Next]_(Promise!vars)
  BY <1>4, RefinesStep
<1> QED BY <1>2, <1>3, <1>4 DEF Next

\* An investigation keeps the promise of GroundedAnswers.
THEOREM Refinement == Spec => AnswersAreGrounded
BY RefinesInit, RefinesNext, Invariance, PTL DEF Spec, AnswersAreGrounded, Promise!Spec
=============================================================================
