----------------------- MODULE ReportGenerationProofs -----------------------
(***************************************************************************)
(* Proofs about ReportGeneration for any number of requests and providers. *)
(* The reports of one place in the pool of requests are picked by its next *)
(* DELETE, so two reports never share a writer, and there are at most as   *)
(* many reports as writers.                                                *)
(***************************************************************************)
EXTENDS ReportGeneration, FiniteSetTheorems, TLAPS

\* A step that leaves the rows alone and does not bring r to its DELETE or
\* INSERT keeps what holds of r.
LEMMA OwnKept ==
    ASSUME NEW r \in Requests, OwnReportsGo(r), reports' = reports,
           pc'[r] = "delete" => pc[r] = "delete" /\ target'[r] = target[r],
           pc'[r] = "insert" => pc[r] = "insert" /\ deleted'[r] = deleted[r]
    PROVE  OwnReportsGo(r)'
BY DEF OwnReportsGo

LEMMA InitIInv == Init => IInv
<1> SUFFICES ASSUME Init PROVE IInv
  OBVIOUS
<1>1. TypeOK
  BY DEF Init, TypeOK, Places, Authors
<1>2. IsFiniteSet(reports)
  BY FS_EmptySet DEF Init
<1>3. DistinctWriters /\ \A r \in Requests : OwnReportsGo(r)
  BY DEF Init, DistinctWriters, OwnReportsGo
<1> QED BY <1>1, <1>2, <1>3 DEF IInv

\* The steps before COMMIT leave the rows alone.
LEMMA QuietKeeps ==
    ASSUME IInv, NEW r \in Requests,
           \/ Begin(r) \/ ReadEvidence(r) \/ ProviderAnswers(r) \/ ProviderFails(r)
           \/ StartDelete(r) \/ Delete(r) \/ Fail(r)
    PROVE  IInv' /\ reports' = reports
<1>1. TypeOK /\ OwnReportsGo(r)
  BY DEF IInv
<1>2. reports' = reports
  BY DEF Begin, ReadEvidence, ProviderAnswers, ProviderFails, StartDelete, Delete, Fail
<1>3. \A s \in Requests \ {r} : /\ pc'[s] = pc[s] /\ target'[s] = target[s]
                                /\ deleted'[s] = deleted[s]
  BY <1>1 DEF Begin, ReadEvidence, ProviderAnswers, ProviderFails, StartDelete,
              Delete, Fail, Close, Goto, TypeOK
<1>4. \A s \in Requests \ {r} : OwnReportsGo(s)'
  BY <1>2, <1>3, OwnKept DEF IInv
<1>5. TypeOK' /\ OwnReportsGo(r)'
  <2>1. CASE Begin(r)
    <3>1. TypeOK'
      BY <1>1, <2>1 DEF TypeOK, Begin, Goto, Places
    <3>2. OwnReportsGo(r)'
      BY <1>1, <2>1 DEF TypeOK, Begin, Goto, OwnReportsGo
    <3> QED BY <3>1, <3>2
  <2>2. CASE ReadEvidence(r)
    <3>1. Providers # <<>> => 0 < Len(Providers)
      BY ProvidersAssumption
    <3>2. TypeOK'
      BY <1>1, <2>2, <3>1 DEF TypeOK, ReadEvidence, Goto, Places, Authors
    <3>3. OwnReportsGo(r)'
      BY <1>1, <2>2 DEF TypeOK, ReadEvidence, Goto, OwnReportsGo
    <3> QED BY <3>2, <3>3
  <2>3. CASE ProviderAnswers(r)
    <3>1. Providers[asked[r] + 1] \in Authors
      BY <1>1, <2>3, ProvidersAssumption DEF TypeOK, ProviderAnswers, Authors
    <3>2. TypeOK'
      BY <1>1, <2>3, <3>1 DEF TypeOK, ProviderAnswers, Goto, Places
    <3>3. OwnReportsGo(r)'
      BY <1>1, <2>3 DEF TypeOK, ProviderAnswers, Goto, OwnReportsGo
    <3> QED BY <3>2, <3>3
  <2>4. CASE ProviderFails(r)
    <3>1. /\ asked[r] \in Nat /\ asked[r] < Len(Providers)
          /\ asked' = [asked EXCEPT ![r] = asked[r] + 1] /\ asked'[r] = asked[r] + 1
      BY <1>1, <2>4 DEF TypeOK, ProviderFails
    <3>2. asked'[r] # Len(Providers) => asked'[r] < Len(Providers)
      BY <3>1, ProvidersAssumption
    <3>3. TypeOK'
      BY <1>1, <2>4, <3>1, <3>2 DEF TypeOK, ProviderFails, Goto, Places
    <3>4. OwnReportsGo(r)'
      BY <1>1, <2>4 DEF TypeOK, ProviderFails, Goto, OwnReportsGo
    <3> QED BY <3>3, <3>4
  <2>5. CASE StartDelete(r)
    <3>1. TypeOK'
      BY <1>1, <2>5 DEF TypeOK, StartDelete, Goto, Places
    <3>2. OwnReportsGo(r)'
      BY <1>1, <2>5 DEF TypeOK, StartDelete, Goto, OwnReportsGo
    <3> QED BY <3>1, <3>2
  <2>6. CASE Delete(r)
    <3>1. TypeOK'
      BY <1>1, <2>6 DEF TypeOK, Delete, Goto, Places
    <3>2. OwnReportsGo(r)'
      BY <1>1, <2>6 DEF TypeOK, Delete, Goto, OwnReportsGo
    <3> QED BY <3>1, <3>2
  <2>7. CASE Fail(r)
    <3>1. TypeOK'
      BY <1>1, <2>7 DEF TypeOK, Fail, Close, Goto, Places
    <3>2. OwnReportsGo(r)'
      BY <1>1, <2>7 DEF TypeOK, Fail, Close, Goto, OwnReportsGo
    <3> QED BY <3>1, <3>2
  <2> QED BY <2>1, <2>2, <2>3, <2>4, <2>5, <2>6, <2>7
<1> QED BY <1>2, <1>4, <1>5 DEF IInv, DistinctWriters

\* COMMIT removes what the request has deleted, its own earlier report
\* among it, and adds the new one.
LEMMA CommitKeeps ==
    ASSUME IInv, NEW r \in Requests, Commit(r)
    PROVE  IInv' /\ reports' # {}
<1>1. TypeOK /\ OwnReportsGo(r) /\ DistinctWriters /\ IsFiniteSet(reports)
  BY DEF IInv
<1>2. /\ pc[r] = "insert"
      /\ reports' = (reports \ deleted[r]) \cup {NewReport(r)}
      /\ pc' = [pc EXCEPT ![r] = "idle"]
      /\ target' = [target EXCEPT ![r] = {}] /\ deleted' = [deleted EXCEPT ![r] = {}]
      /\ UNCHANGED <<clock, began, asked, text>>
  BY DEF Commit, Close, Goto
<1>3. NewReport(r) \in Rows /\ NewReport(r).by = r
  <2>1. ModelName \in Authors
    BY ProvidersAssumption DEF ModelName, Authors
  <2> QED BY <1>1, <2>1 DEF NewReport, Rows, TypeOK
<1>4. TypeOK'
  BY <1>1, <1>2, <1>3 DEF TypeOK, Places
<1>5. IsFiniteSet(reports')
  BY <1>1, <1>2, FS_Difference, FS_AddElement
<1>6. \A x \in reports \ deleted[r] : x.by # r
  BY <1>1, <1>2 DEF OwnReportsGo
<1>7. DistinctWriters'
  BY <1>1, <1>2, <1>3, <1>6 DEF DistinctWriters
<1>8. ASSUME NEW s \in Requests PROVE OwnReportsGo(s)'
  <2>1. CASE s = r
    BY <1>1, <1>2, <2>1 DEF OwnReportsGo, TypeOK
  <2>2. CASE s # r
    <3>1. pc'[s] = pc[s] /\ target'[s] = target[s] /\ deleted'[s] = deleted[s]
      BY <1>1, <1>2, <2>2 DEF TypeOK
    <3>2. \A x \in reports' : x.by = s => x \in reports
      BY <1>2, <1>3, <2>2
    <3> QED BY <3>1, <3>2 DEF IInv, OwnReportsGo
  <2> QED BY <2>1, <2>2
<1> QED BY <1>2, <1>4, <1>5, <1>7, <1>8 DEF IInv

LEMMA NextKeeps ==
    ASSUME IInv, [Next]_vars
    PROVE  IInv' /\ (reports # {} => reports' # {})
<1>1. CASE UNCHANGED vars
  BY <1>1 DEF vars, IInv, TypeOK, DistinctWriters, OwnReportsGo
<1>2. ASSUME NEW r \in Requests, Begin(r) \/ RequestStep(r) \/ Fail(r)
      PROVE  IInv' /\ (reports # {} => reports' # {})
  BY <1>2, QuietKeeps, CommitKeeps DEF RequestStep
<1> QED BY <1>1, <1>2 DEF Next

\* Every state has the types, finitely many reports, no two of them by one
\* writer, and a request's own earlier reports are among those its DELETE
\* takes away.
THEOREM Invariance == Spec => []IInv
<1>1. IInv /\ [Next]_vars => IInv'
  BY NextKeeps
<1> QED BY <1>1, InitIInv, PTL DEF Spec

\* Every variable keeps its type.
THEOREM TypeCorrect == Spec => []TypeOK
<1>1. IInv => TypeOK
  BY DEF IInv
<1> QED BY <1>1, Invariance, PTL

\* The writer of a report tells it apart from the others, so there are no
\* more reports than requests may run at once.
LEMMA WritersCount == IInv => DuplicatesBounded
<1> SUFFICES ASSUME IInv PROVE Cardinality(reports) <= Cardinality(Requests)
  BY DEF DuplicatesBounded
<1> DEFINE writer == [x \in reports |-> x.by]
<1>1. writer \in Injection(reports, Requests)
  <2>1. writer \in [reports -> Requests]
    BY DEF IInv, TypeOK, Rows
  <2>2. \A x, y \in reports : writer[x] = writer[y] => x = y
    BY DEF IInv, DistinctWriters
  <2> QED BY <2>1, <2>2 DEF Injection, IsInjective
<1> HIDE DEF writer
<1> QED BY <1>1, RequestsAssumption, FS_Injection

\* A query never has more reports than requests can run at once: the unlocked
\* look-up and insert of the report makes no more than one row each.
THEOREM DuplicatesAreBounded == Spec => []DuplicatesBounded
BY WritersCount, Invariance, PTL

\* No step takes the last report away.
THEOREM ReportsStay == Spec => ReportsKept
<1>1. IInv /\ [Next]_vars => [reports # {} => reports' # {}]_vars
  BY NextKeeps
<1> QED BY <1>1, Invariance, PTL DEF Spec, ReportsKept
=============================================================================
