---------------------- MODULE IngestTransactionsProofs ----------------------
(***************************************************************************)
(* Proofs about IngestTransactions for any number of workers, collection   *)
(* runs, events and fingerprints and for every retry limit.  The inductive *)
(* invariant IInv says what an open transaction has inserted at each place *)
(* of its code; unique keys make the insertions of open transactions       *)
(* disjoint, and that is what the three results below follow from.         *)
(***************************************************************************)
EXTENDS IngestTransactions, SequenceTheorems, TLAPS

-----------------------------------------------------------------------------
(* What a step of one writer leaves to the others.                         *)

\* A step of w: the state of every other writer is kept, the table may grow.
StepOf(w) ==
    /\ \A v \in Writers \ {w} : held'[v] = held[v] /\ pc'[v] = pc[v]
    /\ \A v \in Workers \ {w} : /\ event'[v] = event[v] /\ attempt'[v] = attempt[v]
                                /\ races'[v] = races[v] /\ found'[v] = found[v]
    /\ \A c \in Runs \ {w} : todo'[c] = todo[c] /\ written'[c] = written[c]
    /\ table \subseteq table'

\* What holds of the places of the other writers still does.
LEMMA OthersKept ==
    ASSUME IInv, NEW w \in Writers, StepOf(w)
    PROVE  /\ \A v \in Workers \ {w} : WorkerPlace(v)' /\ RacePlace(v)'
           /\ \A c \in Runs \ {w} : RunPlace(c)'
<1>1. ASSUME NEW v \in Workers \ {w} PROVE WorkerPlace(v)' /\ RacePlace(v)'
  <2>1. WorkerPlace(v) /\ RacePlace(v)
    BY DEF IInv
  <2>2. /\ held'[v] = held[v] /\ pc'[v] = pc[v] /\ event'[v] = event[v]
        /\ attempt'[v] = attempt[v] /\ races'[v] = races[v] /\ found'[v] = found[v]
        /\ table \subseteq table'
    BY DEF StepOf, Writers
  <2>3. Stores(v) => Stores(v)'
    BY <2>2 DEF Stores, Visible
  <2>4. WorkerPlace(v)'
    BY <2>1, <2>2, <2>3 DEF WorkerPlace, Visible
  <2>5. RacePlace(v)'
    BY <2>1, <2>2 DEF RacePlace
  <2> QED BY <2>4, <2>5
<1>2. ASSUME NEW c \in Runs \ {w} PROVE RunPlace(c)'
  <2>1. /\ held'[c] = held[c] /\ pc'[c] = pc[c] /\ todo'[c] = todo[c]
        /\ written'[c] = written[c] /\ table \subseteq table'
    BY DEF StepOf, Writers
  <2>2. RunPlace(c)
    BY DEF IInv
  <2> QED BY <2>1, <2>2 DEF RunPlace, Visible
<1> QED BY <1>1, <1>2

\* Keys stay exclusive when a transaction gives its keys up, commits them, or
\* inserts a key that nobody has.
LEMMA ExclusiveKept ==
    ASSUME IInv, NEW w \in Writers, StepOf(w),
           \/ held'[w] = held[w] /\ table' = table
           \/ held'[w] = {} /\ table' = table
           \/ held'[w] = {} /\ table' = table \cup held[w]
           \/ \E k \in Keys : /\ held'[w] = held[w] \cup {k} /\ table' = table
                              /\ k \notin table
                              /\ \A v \in Writers \ {w} : k \notin held[v]
    PROVE  LocksExclusive'
<1>1. /\ \A v \in Writers \ {w} : held'[v] = held[v]
      /\ \A v \in Writers : held[v] \cap table = {}
      /\ \A v \in Writers : \A u \in Writers \ {v} : held[v] \cap held[u] = {}
  BY DEF StepOf, IInv, LocksExclusive
<1>2. ASSUME NEW v \in Writers PROVE held'[v] \cap table' = {}
  BY <1>1
<1>3. ASSUME NEW v \in Writers, NEW u \in Writers \ {v}
      PROVE  held'[v] \cap held'[u] = {}
  BY <1>1
<1> QED BY <1>2, <1>3 DEF LocksExclusive

\* A step of w keeps IInv if it keeps the parts that speak of w and the table.
LEMMA StepKeeps ==
    ASSUME IInv, TypeOK', NEW w \in Writers, StepOf(w),
           w \in Workers => WorkerPlace(w)' /\ RacePlace(w)',
           w \in Runs => RunPlace(w)',
           LocksExclusive', StoredTogether'
    PROVE  IInv'
BY OthersKept DEF IInv

\* As long as the runs stand still, so does what they were asked to store.
LEMMA AskedKept ==
    ASSUME UNCHANGED snapshots
    PROVE  UNCHANGED <<[c \in Runs |-> written[c] \o todo[c]], captured>>
BY DEF snapshots

\* What a run has inserted are fingerprints.
LEMMA RunHolds ==
    ASSUME IInv, NEW c \in Runs
    PROVE  held[c] \subseteq Fingerprints
BY DEF IInv, TypeOK, RunPlace

\* As long as the rows stay, events stay with their fingerprints.
LEMMA SameRows ==
    ASSUME IInv, UNCHANGED store
    PROVE  StoredTogether'
BY DEF IInv, StoredTogether, store

-----------------------------------------------------------------------------
(* The steps of a worker.                                                  *)

\* COMMIT stores the event with its fingerprint, or nothing at all.
LEMMA PublishStep ==
    ASSUME IInv, NEW w \in Workers, pc[w] = "commit", Publish(w), UNCHANGED snapshots
    PROVE  /\ table \subseteq table' /\ table' \subseteq Keys
           /\ table' = table \cup held[w]
           /\ regRows' \in [Events -> Nat]
           /\ StoredTogether'
           /\ [Store!StoreNext]_(Store!storeVars)
<1>1. /\ TypeOK /\ WorkerPlace(w) /\ StoredTogether
      /\ w \in Writers /\ event[w] \in Events
      /\ held[w] \cap table = {}
  BY DEF IInv, WorkerPlace, Writers, LocksExclusive
<1>2. table' = table \cup held[w] /\ table' \subseteq Keys
  BY <1>1 DEF Publish, TypeOK
<1>3. regRows' \in [Events -> Nat]
  BY <1>1 DEF Publish, TypeOK
<1>4. CASE ~Stores(w)
  <2>1. held[w] = {} /\ ~found[w]
    BY <1>1, <1>4 DEF WorkerPlace
  <2>2. UNCHANGED store
    BY <1>2, <2>1 DEF Publish, store
  <2> QED BY <1>2, <1>3, <2>2, SameRows, AskedKept DEF store, Store!storeVars
<1>5. CASE Stores(w)
  <2> DEFINE e == event[w]
  <2>1. /\ e \notin table
        /\ table' = table \cup {e, FpOf[e]}
    BY <1>1, <1>2, <1>5 DEF Stores, Visible
  <2>2. regRows[e] = 0
    BY <1>1, <2>1 DEF StoredTogether
  <2>3. regRows' \in {regRows, [regRows EXCEPT ![e] = 1]}
    <3>1. CASE found[w]
      <4>1. regRows' = [regRows EXCEPT ![e] = regRows[e] + 1]
        BY <3>1 DEF Publish
      <4> QED BY <2>2, <4>1
    <3>2. CASE ~found[w]
      BY <3>2 DEF Publish
    <3> QED BY <3>1, <3>2
  <2>4. StoredTogether'
    <3> SUFFICES ASSUME NEW d \in Events
                 PROVE  /\ d \in table' => FpOf[d] \in table'
                        /\ d \notin table' => regRows'[d] = 0
      BY DEF StoredTogether
    <3>1. CASE d = e
      BY <2>1, <3>1
    <3>2. CASE d # e
      <4>1. d \in table' <=> d \in table
        BY <1>1, <2>1, <3>2, KeysAssumption
      <4>2. regRows'[d] = regRows[d]
        BY <1>1, <2>3, <3>2 DEF TypeOK
      <4> QED BY <1>1, <1>2, <4>1, <4>2 DEF StoredTogether
    <3> QED BY <3>1, <3>2
  <2>5. Store!StoreEvent(e)
    BY <2>1, <2>3, AskedKept DEF Store!StoreEvent
  <2> QED BY <1>1, <1>2, <1>3, <2>4, <2>5 DEF Store!StoreNext
<1> QED BY <1>4, <1>5

\* A failed attempt leaves no key behind, whatever made it fail.
LEMMA FailStep ==
    ASSUME IInv, NEW w \in Workers, pc[w] # "idle", Fail(w),
           races' \in [Workers -> Nat],
           \A v \in Workers \ {w} : races'[v] = races[v],
           races'[w] <= 2,
           races'[w] >= 1 => FpOf[event[w]] \in table',
           races'[w] = 2 => event[w] \in table',
           table' = table \/ table' = table \cup held[w],
           table' \subseteq Keys, regRows' \in [Events -> Nat], StoredTogether'
    PROVE  IInv'
<1>1. TypeOK /\ w \in Writers /\ w \notin Runs /\ event[w] \in Events
  BY WritersAssumption DEF IInv, Writers, WorkerPlace
<1>2. /\ held' = [held EXCEPT ![w] = {}]
      /\ found' = [found EXCEPT ![w] = FALSE]
      /\ pc' = [pc EXCEPT ![w] = IF attempt[w] < MaxRetries THEN "backoff" ELSE "idle"]
      /\ UNCHANGED <<touched, event, attempt, snapshots, regCount>>
  BY DEF Fail, Goto
<1>3. TypeOK'
  BY <1>1, <1>2 DEF TypeOK, WorkerPlaces, Writers, snapshots
<1>4. StepOf(w)
  BY <1>1, <1>2 DEF StepOf, TypeOK, Writers, snapshots
<1>5. WorkerPlace(w)'
  BY <1>1, <1>2 DEF WorkerPlace, TypeOK
<1>6. RacePlace(w)'
  BY <1>1, <1>2 DEF RacePlace, TypeOK
<1>7. LocksExclusive'
  BY <1>1, <1>2, <1>4, ExclusiveKept DEF TypeOK
<1> QED BY <1>1, <1>3, <1>4, <1>5, <1>6, <1>7, StepKeeps

\* A failure that is not a lost race.
LEMMA PlainFailStep ==
    ASSUME IInv, NEW w \in Workers, pc[w] # "idle", Fail(w), UNCHANGED races,
           store' = store \/ (pc[w] = "commit" /\ Publish(w))
    PROVE  IInv'
<1>1. TypeOK /\ RacePlace(w)
  BY DEF IInv
<1>2. /\ table \subseteq table' /\ table' \subseteq Keys
      /\ table' = table \/ table' = table \cup held[w]
      /\ regRows' \in [Events -> Nat]
      /\ StoredTogether'
  <2>1. UNCHANGED snapshots
    BY DEF Fail
  <2> QED BY <1>1, <2>1, SameRows, PublishStep DEF store, TypeOK
<1> QED BY <1>1, <1>2, FailStep DEF RacePlace, TypeOK

\* Inserting a free key that nobody else has inserted leads to the place p.
LEMMA InsertStep ==
    ASSUME IInv, NEW w \in Workers, NEW k \in Keys, NEW p,
           \/ pc[w] = "fpInsert" /\ k = FpOf[event[w]] /\ p = "metric"
           \/ pc[w] = "metric" /\ k = event[w] /\ p = "detect",
           Insert(w, k, p)
    PROVE  IInv'
<1>1. /\ TypeOK /\ w \in Writers /\ w \notin Runs /\ event[w] \in Events
      /\ WorkerPlace(w) /\ RacePlace(w) /\ StoredTogether
  BY WritersAssumption DEF IInv, Writers, WorkerPlace
<1>2. CASE k \in table /\ races' = [races EXCEPT ![w] = @ + 1] /\ Fail(w)
  <2>1. UNCHANGED store
    BY DEF Insert
  <2>2. /\ races[w] \in Nat /\ races[w] <= 1
        /\ races[w] = 1 => pc[w] = "metric"
    BY <1>1 DEF RacePlace, TypeOK
  <2>3. /\ races' \in [Workers -> Nat]
        /\ \A v \in Workers \ {w} : races'[v] = races[v]
        /\ races'[w] = races[w] + 1
    BY <1>1, <1>2 DEF TypeOK
  <2>4. FpOf[event[w]] \in table
    BY <1>1, <1>2 DEF StoredTogether
  <2>5. races'[w] = 2 => event[w] \in table
    BY <1>2, <2>2, <2>3
  <2>6. table' = table /\ table' \subseteq Keys /\ regRows' \in [Events -> Nat]
    BY <1>1, <2>1 DEF store, TypeOK
  <2> QED BY <1>2, <2>1, <2>2, <2>3, <2>4, <2>5, <2>6, SameRows, FailStep
<1>3. CASE /\ k \notin table
           /\ held' = [held EXCEPT ![w] = @ \cup {k}]
           /\ Goto(w, p)
           /\ UNCHANGED <<touched, event, attempt, races, found, snapshots, regCount>>
  <2>1. /\ held' = [held EXCEPT ![w] = held[w] \cup {k}]
        /\ pc' = [pc EXCEPT ![w] = p]
        /\ p \in {"metric", "detect"}
        /\ UNCHANGED <<table, regRows>> /\ UNCHANGED store
    BY <1>3 DEF Goto, Insert, store
  <2>2. TypeOK'
    BY <1>1, <1>3, <2>1 DEF TypeOK, WorkerPlaces, Writers, snapshots
  <2>3. StepOf(w)
    BY <1>1, <1>3, <2>1 DEF StepOf, TypeOK, Writers, snapshots
  <2>4. \A v \in Writers \ {w} : k \notin held[v]
    <3>1. Wants(w, k) /\ pc[w] # "touch"
      BY DEF Wants
    <3>2. ~Blocked(w)
      BY DEF Insert
    <3> QED BY <3>1, <3>2 DEF Blocked, WaitsFor
  <2>5. LocksExclusive'
    BY <1>1, <1>3, <2>1, <2>3, <2>4, ExclusiveKept DEF TypeOK
  <2>6. held'[w] = held[w] \cup {k} /\ pc'[w] = p /\ ~found[w]
    BY <1>1, <2>1 DEF TypeOK, WorkerPlace
  <2>7. WorkerPlace(w)'
    BY <1>1, <1>3, <2>1, <2>6, KeysAssumption DEF WorkerPlace, Stores, Visible
  <2>8. RacePlace(w)'
    BY <1>1, <1>3, <2>1, <2>6 DEF RacePlace
  <2> QED BY <1>1, <2>1, <2>2, <2>3, <2>5, <2>7, <2>8, SameRows, StepKeeps
<1> QED BY <1>2, <1>3 DEF Insert

\* Every step of a worker and every failure of it keeps IInv.
LEMMA WorkerKeeps ==
    ASSUME IInv, NEW w \in Workers,
           \/ \E e \in Events : Deliver(w, e)
           \/ WorkerStep(w)
           \/ StatementFails(w) \/ CommitUnacknowledged(w) \/ WorkerDies(w)
    PROVE  IInv'
<1>1. /\ TypeOK /\ w \in Writers /\ w \notin Runs
      /\ WorkerPlace(w) /\ RacePlace(w) /\ StoredTogether /\ LocksExclusive
  BY WritersAssumption DEF IInv, Writers
<1>2. ASSUME NEW e \in Events, Deliver(w, e) PROVE IInv'
  <2>1. /\ pc[w] = "idle" /\ pc' = [pc EXCEPT ![w] = "check"]
        /\ event' = [event EXCEPT ![w] = e] /\ attempt' = [attempt EXCEPT ![w] = 0]
        /\ races' = [races EXCEPT ![w] = 0]
        /\ UNCHANGED <<table, regRows, held, touched, found, snapshots, regCount>>
        /\ UNCHANGED store
    BY <1>2 DEF Deliver, Goto, store
  <2>2. TypeOK'
    BY <1>1, <2>1, RetriesAssumption DEF TypeOK, WorkerPlaces, Writers, snapshots
  <2>3. StepOf(w)
    BY <1>1, <2>1 DEF StepOf, TypeOK, Writers, snapshots
  <2>4. WorkerPlace(w)'
    BY <1>1, <2>1 DEF WorkerPlace, TypeOK
  <2>5. RacePlace(w)'
    BY <1>1, <2>1 DEF RacePlace, TypeOK
  <2> QED BY <1>1, <2>1, <2>2, <2>3, <2>4, <2>5, SameRows, ExclusiveKept, StepKeeps
<1>3. CASE CheckDuplicate(w)
  <2>1. /\ pc[w] = "check"
        /\ pc' = [pc EXCEPT ![w] = IF event[w] \in Visible(w) THEN "commit" ELSE "fp"]
        /\ UNCHANGED <<table, regRows, held, touched, event, attempt, races, found, snapshots, regCount>>
        /\ UNCHANGED store
    BY <1>3 DEF CheckDuplicate, Goto, store
  <2>2. TypeOK'
    BY <1>1, <2>1 DEF TypeOK, WorkerPlaces, Writers, snapshots
  <2>3. StepOf(w)
    BY <1>1, <2>1 DEF StepOf, TypeOK, Writers, snapshots
  <2>4. WorkerPlace(w)'
    BY <1>1, <2>1 DEF WorkerPlace, TypeOK
  <2>5. RacePlace(w)'
    <3>1. races[w] \in Nat /\ (event[w] \notin table => races[w] <= 1)
      BY <1>1, <2>1 DEF RacePlace, TypeOK
    <3> QED BY <1>1, <2>1, <3>1 DEF RacePlace, TypeOK, Visible
  <2> QED BY <1>1, <2>1, <2>2, <2>3, <2>4, <2>5, SameRows, ExclusiveKept, StepKeeps
<1>4. CASE FindFp(w)
  <2>1. /\ pc[w] = "fp"
        /\ pc' = [pc EXCEPT ![w] = IF FpOf[event[w]] \in Visible(w) THEN "metric" ELSE "fpInsert"]
        /\ UNCHANGED <<table, regRows, held, touched, event, attempt, races, found, snapshots, regCount>>
        /\ UNCHANGED store
    BY <1>4 DEF FindFp, Goto, store
  <2>2. TypeOK'
    BY <1>1, <2>1 DEF TypeOK, WorkerPlaces, Writers, snapshots
  <2>3. StepOf(w)
    BY <1>1, <2>1 DEF StepOf, TypeOK, Writers, snapshots
  <2>4. WorkerPlace(w)'
    BY <1>1, <2>1 DEF WorkerPlace, TypeOK, Visible
  <2>5. RacePlace(w)'
    <3>1. races[w] \in Nat /\ (FpOf[event[w]] \notin table => races[w] = 0)
      BY <1>1, <2>1 DEF RacePlace, TypeOK
    <3> QED BY <1>1, <2>1, <3>1 DEF RacePlace, TypeOK, Visible
  <2> QED BY <1>1, <2>1, <2>2, <2>3, <2>4, <2>5, SameRows, ExclusiveKept, StepKeeps
<1>5. CASE InsertFp(w)
  <2>1. pc[w] = "fpInsert" /\ Insert(w, FpOf[event[w]], "metric")
    BY <1>5 DEF InsertFp
  <2>2. FpOf[event[w]] \in Keys
    BY <1>1, <2>1, KeysAssumption DEF WorkerPlace, Keys
  <2> QED BY <2>1, <2>2, InsertStep
<1>6. CASE InsertMetric(w)
  <2>1. pc[w] = "metric" /\ Insert(w, event[w], "detect")
    BY <1>6 DEF InsertMetric
  <2>2. event[w] \in Keys
    BY <1>1, <2>1 DEF WorkerPlace, Keys
  <2> QED BY <2>1, <2>2, InsertStep
<1>7. CASE Detect(w)
  <2>1. /\ pc[w] = "detect" /\ pc' = [pc EXCEPT ![w] = "commit"]
        /\ found' \in {found, [found EXCEPT ![w] = TRUE]}
        /\ regCount' \in {regCount, regCount + 1}
        /\ UNCHANGED <<table, regRows, held, touched, event, attempt, races, snapshots>>
        /\ UNCHANGED store
    BY <1>7 DEF Detect, Goto, store
  <2>2. TypeOK'
    <3>1. found \in [Workers -> BOOLEAN] /\ [found EXCEPT ![w] = TRUE] \in [Workers -> BOOLEAN]
      BY <1>1 DEF TypeOK
    <3>2. found' \in [Workers -> BOOLEAN]
      BY <2>1, <3>1
    <3>3. pc' \in [Writers -> WorkerPlaces \cup RunPlaces]
          /\ \A v \in Workers : pc'[v] \in WorkerPlaces
          /\ \A c \in Runs : pc'[c] \in RunPlaces
      BY <1>1, <2>1 DEF TypeOK, WorkerPlaces, Writers, snapshots
    <3>4. regCount' \in Nat
      BY <1>1, <2>1 DEF TypeOK
    <3> QED BY <1>1, <2>1, <3>2, <3>3, <3>4 DEF TypeOK, snapshots
  <2>3. StepOf(w)
    BY <1>1, <2>1 DEF StepOf, TypeOK, Writers, snapshots
  <2>4. WorkerPlace(w)'
    BY <1>1, <2>1 DEF WorkerPlace, TypeOK, Stores, Visible
  <2>5. RacePlace(w)'
    BY <1>1, <2>1 DEF RacePlace, TypeOK
  <2> QED BY <1>1, <2>1, <2>2, <2>3, <2>4, <2>5, SameRows, ExclusiveKept, StepKeeps
<1>8. CASE Commit(w)
  <2>1. /\ pc[w] = "commit" /\ Publish(w) /\ pc' = [pc EXCEPT ![w] = "idle"]
        /\ held' = [held EXCEPT ![w] = {}] /\ found' = [found EXCEPT ![w] = FALSE]
        /\ UNCHANGED <<touched, event, attempt, races, snapshots, regCount>>
    BY <1>8 DEF Commit, Goto
  <2>2. /\ table \subseteq table' /\ table' \subseteq Keys /\ StoredTogether'
        /\ table' = table \cup held[w] /\ regRows' \in [Events -> Nat]
    BY <2>1, PublishStep
  <2>3. TypeOK'
    BY <1>1, <2>1, <2>2 DEF TypeOK, WorkerPlaces, Writers, snapshots
  <2>4. StepOf(w)
    BY <1>1, <2>1, <2>2 DEF StepOf, TypeOK, Writers, snapshots
  <2>5. WorkerPlace(w)'
    BY <1>1, <2>1 DEF WorkerPlace, TypeOK
  <2>6. RacePlace(w)'
    BY <1>1, <2>1 DEF RacePlace, TypeOK
  <2>7. LocksExclusive'
    BY <1>1, <2>1, <2>2, <2>4, ExclusiveKept DEF TypeOK
  <2> QED BY <1>1, <2>2, <2>3, <2>4, <2>5, <2>6, <2>7, StepKeeps
<1>9. CASE BackoffElapsed(w)
  <2>1. /\ pc[w] = "backoff" /\ pc' = [pc EXCEPT ![w] = "check"]
        /\ attempt' = [attempt EXCEPT ![w] = attempt[w] + 1]
        /\ UNCHANGED <<table, regRows, held, touched, event, races, found, snapshots, regCount>>
        /\ UNCHANGED store
    BY <1>9 DEF BackoffElapsed, Goto, store
  <2>2. TypeOK'
    <3>1. attempt[w] \in 0..MaxRetries /\ attempt[w] < MaxRetries
      BY <1>1, <2>1 DEF TypeOK, WorkerPlace
    <3>2. attempt[w] + 1 \in 0..MaxRetries
      BY <3>1, RetriesAssumption
    <3> QED BY <1>1, <2>1, <3>2 DEF TypeOK, WorkerPlaces, Writers, snapshots
  <2>3. StepOf(w)
    BY <1>1, <2>1 DEF StepOf, TypeOK, Writers, snapshots
  <2>4. WorkerPlace(w)'
    BY <1>1, <2>1 DEF WorkerPlace, TypeOK
  <2>5. RacePlace(w)'
    BY <1>1, <2>1 DEF RacePlace, TypeOK
  <2> QED BY <1>1, <2>1, <2>2, <2>3, <2>4, <2>5, SameRows, ExclusiveKept, StepKeeps
<1>10. CASE StatementFails(w)
  <2>1. Fail(w) /\ store' = store /\ UNCHANGED races
    BY <1>10 DEF StatementFails
  <2>2. pc[w] # "idle"
    BY <1>10 DEF StatementFails
  <2> QED BY <2>1, <2>2, PlainFailStep
<1>11. CASE CommitUnacknowledged(w)
  BY <1>11, PlainFailStep DEF CommitUnacknowledged
<1>12. CASE WorkerDies(w)
  <2>1. /\ pc' = [pc EXCEPT ![w] = "idle"]
        /\ held' = [held EXCEPT ![w] = {}] /\ found' = [found EXCEPT ![w] = FALSE]
        /\ UNCHANGED <<table, regRows, touched, event, attempt, races, snapshots, regCount>>
        /\ UNCHANGED store
    BY <1>12 DEF WorkerDies, Goto, store
  <2>2. TypeOK'
    BY <1>1, <2>1 DEF TypeOK, WorkerPlaces, Writers, snapshots
  <2>3. StepOf(w)
    BY <1>1, <2>1 DEF StepOf, TypeOK, Writers, snapshots
  <2>4. WorkerPlace(w)'
    BY <1>1, <2>1 DEF WorkerPlace, TypeOK
  <2>5. RacePlace(w)'
    BY <1>1, <2>1 DEF RacePlace, TypeOK
  <2>6. LocksExclusive'
    BY <1>1, <2>1, <2>3, ExclusiveKept DEF TypeOK
  <2> QED BY <1>1, <2>1, <2>2, <2>3, <2>4, <2>5, <2>6, SameRows, StepKeeps
<1> QED BY <1>2, <1>3, <1>4, <1>5, <1>6, <1>7, <1>8, <1>9, <1>10, <1>11, <1>12
        DEF WorkerStep

-----------------------------------------------------------------------------
(* The steps of a collection run.                                          *)

\* The end of a run releases its keys and, if it commits, stores them: then it
\* has stored every row of its snapshot and committed every key it lacked.
LEMMA EndRunStep ==
    ASSUME IInv, NEW c \in Runs, EndRun(c),
           \/ UNCHANGED <<table, captured>>
           \/ /\ pc[c] = "commit" /\ table' = table \cup held[c]
              /\ captured' = [captured EXCEPT ![c] = written[c]]
    PROVE  IInv' /\ [Store!StoreNext]_(Store!storeVars)
<1>1. /\ TypeOK /\ c \in Writers /\ c \notin Workers
      /\ RunPlace(c) /\ StoredTogether
  BY WritersAssumption DEF IInv, Writers
<1>2. /\ held' = [held EXCEPT ![c] = {}] /\ touched' = [touched EXCEPT ![c] = {}]
      /\ todo' = [todo EXCEPT ![c] = <<>>] /\ written' = [written EXCEPT ![c] = <<>>]
      /\ pc' = [pc EXCEPT ![c] = "idle"]
      /\ UNCHANGED <<event, attempt, races, found, regRows, regCount>>
  BY DEF EndRun, Goto, runOnly
<1>3. held[c] \subseteq Fingerprints /\ table \subseteq table' /\ table' \subseteq Keys
  BY <1>1, RunHolds DEF TypeOK, Keys
<1>4. TypeOK'
  <2>1. /\ todo' \in [Runs -> Seq(Fingerprints)]
        /\ written' \in [Runs -> Seq(Fingerprints)]
    BY <1>1, <1>2 DEF TypeOK
  <2>2. CASE captured' = captured
    BY <1>1, <1>2, <1>3, <2>1, <2>2 DEF TypeOK, RunPlaces, Writers
  <2>3. CASE captured' = [captured EXCEPT ![c] = written[c]]
    <3>1. /\ captured \in [Runs -> Seq(Fingerprints)]
          /\ written[c] \in Seq(Fingerprints)
      BY <1>1 DEF TypeOK
    <3>2. captured' \in [Runs -> Seq(Fingerprints)]
      BY <2>3, <3>1
    <3> QED BY <1>1, <1>2, <1>3, <2>1, <3>2 DEF TypeOK, RunPlaces, Writers
  <2> QED BY <2>2, <2>3
<1>5. StepOf(c)
  BY <1>1, <1>2, <1>3 DEF StepOf, TypeOK, Writers
<1>6. RunPlace(c)'
  BY <1>1, <1>2 DEF RunPlace, TypeOK
<1>7. LocksExclusive'
  BY <1>1, <1>2, <1>5, ExclusiveKept DEF TypeOK
<1>8. StoredTogether'
  BY <1>1, <1>2, <1>3, KeysAssumption DEF StoredTogether
<1>9. [Store!StoreNext]_(Store!storeVars)
  <2> DEFINE asked == [r \in Runs |-> written[r] \o todo[r]]
  <2>1. asked' = [asked EXCEPT ![c] = <<>>]
    <3>1. <<>> \o <<>> = <<>>
      BY ConcatEmptySeq
    <3>2. /\ \A r \in Runs \ {c} : written'[r] = written[r] /\ todo'[r] = todo[r]
          /\ written'[c] = <<>> /\ todo'[c] = <<>>
      BY <1>1, <1>2 DEF TypeOK
    <3> QED BY <3>1, <3>2
  <2>2. CASE UNCHANGED <<table, captured>>
    BY <1>2, <2>1, <2>2 DEF Store!StoreNothing, Store!StoreNext
  <2>3. CASE /\ pc[c] = "commit" /\ table' = table \cup held[c]
             /\ captured' = [captured EXCEPT ![c] = written[c]]
    <3>1. asked[c] = written[c]
      BY <1>1, <2>3, ConcatEmptySeq DEF RunPlace, TypeOK
    <3>2. table' = table \cup {written[c][i] : i \in DOMAIN written[c]}
      BY <1>1, <2>3 DEF RunPlace, Visible
    <3>3. /\ table' = table \cup {asked[c][i] : i \in DOMAIN asked[c]}
          /\ captured' = [captured EXCEPT ![c] = asked[c]]
      BY <2>3, <3>1, <3>2
    <3>4. Store!StoreRun(c)
      BY <1>2, <2>1, <3>3 DEF Store!StoreRun
    <3> QED BY <3>4 DEF Store!StoreNext
  <2> QED BY <2>2, <2>3
<1> QED BY <1>1, <1>4, <1>5, <1>6, <1>7, <1>8, <1>9, StepKeeps

\* Moving the first row over from the rest to the rows stored keeps the snapshot.
LEMMA RowMoved ==
    ASSUME NEW S, NEW done \in Seq(S), NEW rest \in Seq(S), rest # <<>>
    PROVE  Append(done, Head(rest)) \o Tail(rest) = done \o rest
<1>1. /\ Head(rest) \in S /\ Tail(rest) \in Seq(S)
      /\ Len(rest) \in Nat \ {0} /\ Len(Tail(rest)) = Len(rest) - 1
      /\ \A i \in 1..(Len(rest) - 1) : Tail(rest)[i] = rest[i + 1]
      /\ Head(rest) = rest[1]
  BY HeadTailProperties, LenProperties, EmptySeq
<1> DEFINE l == Append(done, Head(rest)) \o Tail(rest)
           r == done \o rest
           d == Len(done)
           n == Len(rest)
<1>2. d \in Nat /\ n \in Nat \ {0}
  BY <1>1, LenProperties
<1>3. /\ r \in Seq(S) /\ Len(r) = d + n
      /\ \A i \in 1..(d + n) : r[i] = IF i <= d THEN done[i] ELSE rest[i - d]
  BY ConcatProperties
<1>4. /\ Append(done, Head(rest)) \in Seq(S) /\ Len(Append(done, Head(rest))) = d + 1
      /\ \A i \in 1..d : Append(done, Head(rest))[i] = done[i]
      /\ Append(done, Head(rest))[d + 1] = rest[1]
  BY <1>1, AppendProperties
<1>5. /\ l \in Seq(S) /\ Len(l) = d + 1 + (n - 1)
      /\ \A i \in 1..(d + 1 + (n - 1)) :
           l[i] = IF i <= d + 1 THEN Append(done, Head(rest))[i] ELSE Tail(rest)[i - (d + 1)]
  BY <1>1, <1>4, ConcatProperties
<1> HIDE DEF l, r, d, n
<1>6. Len(l) = Len(r) /\ Len(l) = d + n
  BY <1>2, <1>3, <1>5
<1>7. ASSUME NEW i \in 1..Len(l) PROVE l[i] = r[i]
  <2>1. i \in 1..(d + n) /\ i \in 1..(d + 1 + (n - 1))
    BY <1>2, <1>6
  <2>2. CASE i <= d
    <3>1. i \in 1..d /\ i <= d + 1
      BY <1>2, <2>1, <2>2
    <3>2. l[i] = Append(done, Head(rest))[i]
      BY <1>5, <2>1, <3>1
    <3>3. r[i] = done[i]
      BY <1>3, <2>1, <2>2
    <3> QED BY <1>4, <3>1, <3>2, <3>3
  <2>3. CASE i = d + 1
    <3>1. l[i] = Append(done, Head(rest))[d + 1]
      <4>1. i <= d + 1
        BY <1>2, <2>3
      <4>2. l[i] = Append(done, Head(rest))[i]
        BY <1>5, <2>1, <4>1
      <4> QED BY <2>3, <4>2
    <3>2. r[i] = rest[1]
      BY <1>2, <1>3, <2>1, <2>3
    <3> QED BY <1>4, <3>1, <3>2
  <2>4. CASE i > d + 1
    <3>1. l[i] = Tail(rest)[i - (d + 1)] /\ i - (d + 1) \in 1..(n - 1)
      <4>1. ~(i <= d + 1) /\ i - (d + 1) \in 1..(n - 1)
        BY <1>2, <2>1, <2>4
      <4> QED BY <1>5, <2>1, <4>1
    <3>2. Tail(rest)[i - (d + 1)] = rest[i - (d + 1) + 1]
      BY <1>1, <3>1 DEF n
    <3>3. r[i] = rest[i - d] /\ i - d = i - (d + 1) + 1
      BY <1>2, <1>3, <2>1, <2>4
    <3> QED BY <3>1, <3>2, <3>3
  <2> QED BY <1>2, <2>1, <2>2, <2>3, <2>4
<1>8. l = r
  BY <1>3, <1>5, <1>6, <1>7, SeqEqual
<1> QED BY <1>8 DEF l, r

\* Storing a row, its fingerprint inserted or touched.
LEMMA RowStored ==
    ASSUME IInv, NEW c \in Runs, RunTouchFp(c) \/ RunInsertFp(c)
    PROVE  /\ todo' = [todo EXCEPT ![c] = Tail(todo[c])]
           /\ written' = [written EXCEPT ![c] = Append(written[c], Head(todo[c]))]
           /\ pc' = [pc EXCEPT ![c] = IF Len(todo[c]) = 1 THEN "commit" ELSE "fp"]
           /\ todo[c] \in Seq(Fingerprints) /\ Head(todo[c]) \in Fingerprints
           /\ Tail(todo[c]) \in Seq(Fingerprints)
           /\ Len(todo[c]) = 1 <=> Tail(todo[c]) = <<>>
           /\ written[c] \in Seq(Fingerprints)
           /\ written'[c] \in Seq(Fingerprints)
           /\ {written'[c][i] : i \in DOMAIN written'[c]}
                = {written[c][i] : i \in DOMAIN written[c]} \cup {Head(todo[c])}
           /\ written'[c] \o todo'[c] = written[c] \o todo[c]
<1> DEFINE rows == todo[c]
           done == written[c]
<1>1. /\ todo' = [todo EXCEPT ![c] = Tail(rows)]
      /\ written' = [written EXCEPT ![c] = Append(done, Head(rows))]
      /\ pc' = [pc EXCEPT ![c] = IF Len(rows) = 1 THEN "commit" ELSE "fp"]
  BY DEF RunTouchFp, RunInsertFp, NextRow, Goto
<1>2. rows \in Seq(Fingerprints) /\ rows # <<>> /\ done \in Seq(Fingerprints)
  BY DEF RunTouchFp, RunInsertFp, IInv, RunPlace, TypeOK
<1>3. todo'[c] = Tail(rows) /\ written'[c] = Append(done, Head(rows))
  BY <1>1 DEF IInv, TypeOK
<1> HIDE DEF rows, done
<1>4. /\ Head(rows) \in Fingerprints /\ Tail(rows) \in Seq(Fingerprints)
      /\ Len(rows) \in Nat \ {0} /\ Len(Tail(rows)) = Len(rows) - 1
  BY <1>2, HeadTailProperties, LenProperties, EmptySeq
<1>5. Len(rows) = 1 <=> Tail(rows) = <<>>
  <2>1. Len(Tail(rows)) = 0 <=> Tail(rows) = <<>>
    BY <1>4, EmptySeq
  <2> QED BY <1>4, <2>1
<1>6. /\ Append(done, Head(rows)) \in Seq(Fingerprints)
      /\ Len(done) \in Nat /\ Len(Append(done, Head(rows))) = Len(done) + 1
      /\ \A i \in 1..Len(done) : Append(done, Head(rows))[i] = done[i]
      /\ Append(done, Head(rows))[Len(done) + 1] = Head(rows)
  BY <1>2, <1>4, AppendProperties, LenProperties
<1>7. {Append(done, Head(rows))[i] : i \in DOMAIN Append(done, Head(rows))}
        = {done[i] : i \in DOMAIN done} \cup {Head(rows)}
  <2>1. DOMAIN done = 1..Len(done) /\ DOMAIN Append(done, Head(rows)) = 1..(Len(done) + 1)
    BY <1>2, <1>6
  <2>2. 1..(Len(done) + 1) = 1..Len(done) \cup {Len(done) + 1}
    BY <1>6
  <2> QED BY <1>6, <2>1, <2>2
<1>8. Append(done, Head(rows)) \o Tail(rows) = done \o rows
  BY <1>2, RowMoved
<1> QED BY <1>1, <1>2, <1>3, <1>4, <1>5, <1>6, <1>7, <1>8 DEF rows, done

\* The other steps of a run move on in the snapshot and may insert one key.
LEMMA RunMoves ==
    ASSUME IInv, NEW c \in Runs,
           StartRun(c) \/ RunFindFp(c) \/ RunTouchFp(c) \/ RunInsertFp(c)
    PROVE  IInv' /\ [Store!StoreNext]_(Store!storeVars)
<1>1. /\ TypeOK /\ c \in Writers /\ c \notin Workers
      /\ RunPlace(c) /\ StoredTogether
  BY WritersAssumption DEF IInv, Writers
<1>2. /\ UNCHANGED <<table, event, attempt, races, found, regRows, regCount>>
      /\ UNCHANGED store
  BY DEF StartRun, RunFindFp, RunTouchFp, RunInsertFp, runOnly, store
<1>3. /\ todo' \in [Runs -> Seq(Fingerprints)]
      /\ written' \in [Runs -> Seq(Fingerprints)]
      /\ captured' \in [Runs -> Seq(Fingerprints)]
      /\ \A v \in Runs \ {c} : todo'[v] = todo[v] /\ written'[v] = written[v]
      /\ \E place \in RunPlaces : pc' = [pc EXCEPT ![c] = place]
  <2>1. CASE StartRun(c)
    <3>1. PICK rows \in StatRows :
            /\ todo' = [todo EXCEPT ![c] = rows]
            /\ pc' = [pc EXCEPT ![c] = IF rows = <<>> THEN "commit" ELSE "fp"]
      BY <2>1 DEF StartRun, Goto
    <3>2. /\ rows \in Seq(Fingerprints) /\ <<>> \in Seq(Fingerprints)
          /\ (IF rows = <<>> THEN "commit" ELSE "fp") \in RunPlaces
      BY KeysAssumption DEF RunPlaces
    <3>3. captured' = [captured EXCEPT ![c] = <<>>] /\ written' = written
      BY <2>1 DEF StartRun
    <3>4. /\ todo \in [Runs -> Seq(Fingerprints)] /\ written \in [Runs -> Seq(Fingerprints)]
          /\ captured \in [Runs -> Seq(Fingerprints)]
      BY <1>1 DEF TypeOK
    <3> QED BY <3>1, <3>2, <3>3, <3>4
  <2>2. CASE RunFindFp(c)
    BY <1>1, <2>2 DEF RunFindFp, Goto, TypeOK, RunPlaces, RunPlace, snapshots
  <2>3. CASE RunTouchFp(c) \/ RunInsertFp(c)
    <3>1. captured' = captured
      BY <2>3 DEF RunTouchFp, RunInsertFp, NextRow
    <3>2. (IF Len(todo[c]) = 1 THEN "commit" ELSE "fp") \in RunPlaces
      BY DEF RunPlaces
    <3>3. Append(written[c], Head(todo[c])) \in Seq(Fingerprints)
      BY <1>1, <2>3, RowStored, AppendProperties
    <3>4. /\ todo' = [todo EXCEPT ![c] = Tail(todo[c])] /\ Tail(todo[c]) \in Seq(Fingerprints)
          /\ written' = [written EXCEPT ![c] = Append(written[c], Head(todo[c]))]
          /\ pc' = [pc EXCEPT ![c] = IF Len(todo[c]) = 1 THEN "commit" ELSE "fp"]
      BY <2>3, RowStored
    <3>5. /\ todo \in [Runs -> Seq(Fingerprints)] /\ written \in [Runs -> Seq(Fingerprints)]
          /\ captured \in [Runs -> Seq(Fingerprints)]
      BY <1>1 DEF TypeOK
    <3> QED BY <3>1, <3>2, <3>3, <3>4, <3>5
  <2> QED BY <2>1, <2>2, <2>3
<1>4. /\ touched' \in [Runs -> SUBSET Fingerprints]
      /\ \/ held' = held
         \/ \E k \in Fingerprints :
              /\ held' = [held EXCEPT ![c] = held[c] \cup {k}]
              /\ k \notin table
              /\ \A v \in Writers \ {c} : k \notin held[v]
  <2>1. CASE StartRun(c) \/ RunFindFp(c)
    BY <1>1, <2>1 DEF StartRun, RunFindFp, TypeOK
  <2>2. CASE RunTouchFp(c) \/ RunInsertFp(c)
    <3> DEFINE k == Head(todo[c])
    <3>1. k \in Fingerprints
      BY <2>2, RowStored
    <3>2. CASE RunTouchFp(c)
      BY <1>1, <3>1, <3>2 DEF RunTouchFp, TypeOK
    <3>3. CASE RunInsertFp(c)
      <4>1. Wants(c, k) /\ pc[c] # "touch" /\ ~Blocked(c)
        BY <3>3 DEF RunInsertFp, Wants
      <4>2. \A v \in Writers \ {c} : k \notin held[v]
        BY <4>1 DEF Blocked, WaitsFor
      <4> QED BY <1>1, <3>1, <3>3, <4>2 DEF RunInsertFp, TypeOK
    <3> QED BY <2>2, <3>2, <3>3
  <2> QED BY <2>1, <2>2
<1>5. TypeOK'
  <2>1. held' \in [Writers -> SUBSET Keys]
    <3>1. held \in [Writers -> SUBSET Keys] /\ Fingerprints \subseteq Keys
      BY <1>1 DEF TypeOK, Keys
    <3>2. CASE held' = held
      BY <3>1, <3>2
    <3>3. ASSUME NEW k \in Fingerprints, held' = [held EXCEPT ![c] = held[c] \cup {k}]
          PROVE  held' \in [Writers -> SUBSET Keys]
      <4>1. held[c] \cup {k} \in SUBSET Keys
        BY <1>1, <3>1
      <4> QED BY <1>1, <3>1, <3>3, <4>1
    <3> QED BY <1>4, <3>2, <3>3
  <2>2. /\ pc' \in [Writers -> WorkerPlaces \cup RunPlaces]
        /\ \A w \in Workers : pc'[w] \in WorkerPlaces
        /\ \A v \in Runs : pc'[v] \in RunPlaces
    <3>1. PICK place \in RunPlaces : pc' = [pc EXCEPT ![c] = place]
      BY <1>3
    <3>2. /\ pc \in [Writers -> WorkerPlaces \cup RunPlaces]
          /\ \A w \in Workers : pc[w] \in WorkerPlaces /\ w \in Writers
          /\ \A v \in Runs : pc[v] \in RunPlaces /\ v \in Writers
      BY <1>1 DEF TypeOK, Writers
    <3> QED BY <1>1, <3>1, <3>2
  <2> QED BY <1>1, <1>2, <1>3, <1>4, <2>1, <2>2 DEF TypeOK
<1>6. StepOf(c)
  BY <1>1, <1>2, <1>3, <1>4 DEF StepOf, TypeOK, Writers
<1>7. RunPlace(c)'
  <2>1. CASE StartRun(c)
    BY <1>1, <2>1 DEF StartRun, Goto, TypeOK, RunPlace
  <2>2. CASE RunFindFp(c)
    BY <1>1, <2>2 DEF RunFindFp, Goto, TypeOK, RunPlace, Visible, snapshots
  <2>3. CASE RunTouchFp(c) \/ RunInsertFp(c)
    <3> DEFINE old == {written[c][i] : i \in DOMAIN written[c]}
               new == {written'[c][i] : i \in DOMAIN written'[c]}
    <3>1. new = old \cup {Head(todo[c])}
      BY <2>3, RowStored
    <3>2. held[c] \subseteq old /\ old \subseteq table \cup held[c]
      BY <1>1 DEF RunPlace, Visible
    <3>3. /\ held[c] \subseteq held'[c] /\ held'[c] \subseteq held[c] \cup {Head(todo[c])}
          /\ Head(todo[c]) \in table \cup held'[c]
      <4>1. CASE RunTouchFp(c)
        BY <1>1, <4>1 DEF RunTouchFp, RunPlace, Visible
      <4>2. CASE RunInsertFp(c)
        BY <1>1, <4>2 DEF RunInsertFp, TypeOK
      <4> QED BY <2>3, <4>1, <4>2
    <3>4. held'[c] \subseteq new /\ new \subseteq table' \cup held'[c]
      BY <1>2, <3>1, <3>2, <3>3
    <3>5. /\ pc'[c] = IF Len(todo[c]) = 1 THEN "commit" ELSE "fp"
          /\ todo'[c] = Tail(todo[c])
          /\ Len(todo[c]) = 1 <=> Tail(todo[c]) = <<>>
      BY <1>1, <2>3, RowStored DEF TypeOK
    <3> HIDE DEF old
    <3>6. held'[c] \subseteq {written'[c][i] : i \in DOMAIN written'[c]}
          /\ \A i \in DOMAIN written'[c] : written'[c][i] \in table' \cup held'[c]
      BY <3>4
    <3> QED BY <3>5, <3>6 DEF RunPlace, Visible
  <2> QED BY <2>1, <2>2, <2>3
<1>8. LocksExclusive'
  BY <1>1, <1>2, <1>4, <1>6, ExclusiveKept DEF TypeOK, Keys
<1>9. [Store!StoreNext]_(Store!storeVars)
  <2> DEFINE asked == [r \in Runs |-> written[r] \o todo[r]]
  <2>1. CASE StartRun(c)
    <3>1. PICK rows \in StatRows : todo' = [todo EXCEPT ![c] = rows]
      BY <2>1 DEF StartRun
    <3>2. written[c] = <<>> /\ todo[c] = <<>> /\ rows \in Seq(Fingerprints)
      BY <1>1, <2>1, KeysAssumption DEF StartRun, RunPlace
    <3>3. asked[c] = <<>> /\ asked' = [asked EXCEPT ![c] = rows]
      <4>1. <<>> \o rows = rows /\ <<>> \o <<>> = <<>>
        BY <3>2, ConcatEmptySeq
      <4>2. /\ \A r \in Runs \ {c} : written'[r] = written[r] /\ todo'[r] = todo[r]
            /\ written'[c] = <<>> /\ todo'[c] = rows
        BY <1>1, <2>1, <3>1, <3>2 DEF StartRun, TypeOK
      <4> QED BY <3>2, <4>1, <4>2
    <3>4. Store!StoreAsk(c)
      BY <1>2, <2>1, <3>3 DEF StartRun, Store!StoreAsk
    <3> QED BY <3>4 DEF Store!StoreNext
  <2>2. CASE RunFindFp(c)
    BY <1>2, <2>2, AskedKept DEF RunFindFp, Store!storeVars
  <2>3. CASE RunTouchFp(c) \/ RunInsertFp(c)
    <3>1. captured' = captured
      BY <2>3 DEF RunTouchFp, RunInsertFp, NextRow
    <3>2. \A r \in Runs : written'[r] \o todo'[r] = written[r] \o todo[r]
      BY <1>3, <2>3, RowStored
    <3> QED BY <1>2, <3>1, <3>2 DEF Store!storeVars
  <2> QED BY <2>1, <2>2, <2>3
<1> QED BY <1>1, <1>2, <1>5, <1>6, <1>7, <1>8, <1>9, SameRows, StepKeeps

LEMMA RunKeeps ==
    ASSUME IInv, NEW c \in Runs, StartRun(c) \/ RunStep(c) \/ RunFails(c)
    PROVE  IInv' /\ [Store!StoreNext]_(Store!storeVars)
<1>1. CASE StartRun(c) \/ RunFindFp(c) \/ RunTouchFp(c) \/ RunInsertFp(c)
  BY <1>1, RunMoves
<1>2. CASE RunRaceLost(c) \/ RunCommit(c) \/ RunFails(c)
  <2>1. /\ EndRun(c)
        /\ \/ UNCHANGED <<table, captured>>
           \/ /\ pc[c] = "commit" /\ table' = table \cup held[c]
              /\ captured' = [captured EXCEPT ![c] = written[c]]
    BY <1>2 DEF RunRaceLost, RunCommit, RunFails
  <2> QED BY <2>1, EndRunStep
<1> QED BY <1>1, <1>2 DEF RunStep

-----------------------------------------------------------------------------
(* The invariant and what follows from it.                                 *)

\* A deadlock is among collection runs only: a worker that waits for its
\* event id holds its fingerprint alone, and whoever waits for a key that a
\* worker holds waits for one that has nothing left to wait for.
LEMMA DeadlockOfRuns == IInv => WorkersNeverDeadlock
<1> SUFFICES ASSUME IInv, NEW S \in SUBSET Writers, Deadlocked(S),
                    NEW w \in S, w \in Workers
             PROVE  FALSE
  BY DEF WorkersNeverDeadlock, Writers
<1>1. PICK v \in S : WaitsFor(w, v)
  BY DEF Deadlocked
<1>2. PICK u \in S : WaitsFor(u, w)
  BY DEF Deadlocked
<1>3. WorkerPlace(w) /\ TypeOK
  BY DEF IInv
<1>4. held[w] # {}
  BY <1>2, WritersAssumption DEF WaitsFor
<1>5. pc[w] = "metric" /\ event[w] \in held[v]
  <2>1. pc[w] \in {"fpInsert", "metric"}
    BY <1>1, <1>3, WritersAssumption DEF WaitsFor, Wants, TypeOK, WorkerPlaces
  <2>2. pc[w] = "metric"
    BY <1>3, <1>4, <2>1 DEF WorkerPlace
  <2> QED BY <1>1, <2>2, WritersAssumption DEF WaitsFor, Wants
<1>6. event[w] \in Events /\ event[w] \notin Fingerprints
  BY <1>3, <1>5, KeysAssumption DEF WorkerPlace
<1>7. v \in Workers
  BY <1>5, <1>6, RunHolds DEF Writers
<1>8. pc[v] \in {"detect", "commit"}
  <2>1. WorkerPlace(v) /\ pc[v] \in WorkerPlaces
    BY <1>7 DEF IInv, TypeOK
  <2>2. pc[v] = "metric" => event[w] = FpOf[event[v]] /\ event[v] \in Events
    BY <1>5, <2>1 DEF WorkerPlace
  <2>3. pc[v] # "metric"
    BY <1>6, <2>2, KeysAssumption
  <2> QED BY <1>5, <2>1, <2>3 DEF WorkerPlace, WorkerPlaces
<1>9. PICK x \in S : WaitsFor(v, x)
  BY DEF Deadlocked
<1> QED BY <1>7, <1>8, <1>9, WritersAssumption DEF WaitsFor, Wants

LEMMA DeadlockKeeps ==
    ASSUME IInv, DeadlockVictim
    PROVE  IInv' /\ [Store!StoreNext]_(Store!storeVars)
<1>1. PICK S \in SUBSET Writers :
        /\ Deadlocked(S)
        /\ \E v \in S : IF v \in Workers THEN Fail(v) /\ UNCHANGED <<store, races>>
                                        ELSE EndRun(v) /\ UNCHANGED <<table, captured>>
  BY DEF DeadlockVictim
<1>2. S \subseteq Runs
  BY <1>1, DeadlockOfRuns DEF WorkersNeverDeadlock
<1>3. PICK c \in Runs : EndRun(c) /\ UNCHANGED <<table, captured>>
  BY <1>1, <1>2, WritersAssumption
<1> QED BY <1>3, EndRunStep

LEMMA InitIInv == Init => IInv
<1> SUFFICES ASSUME Init PROVE IInv
  OBVIOUS
<1>1. TypeOK
  BY RetriesAssumption DEF Init, TypeOK, WorkerPlaces, RunPlaces, Writers
<1>2. LocksExclusive
  BY DEF Init, LocksExclusive
<1>3. ASSUME NEW w \in Workers PROVE WorkerPlace(w) /\ RacePlace(w)
  BY DEF Init, WorkerPlace, RacePlace, Writers
<1>4. ASSUME NEW c \in Runs PROVE RunPlace(c)
  BY DEF Init, RunPlace, Writers
<1>5. StoredTogether
  BY DEF Init, StoredTogether
<1> QED BY <1>1, <1>2, <1>3, <1>4, <1>5 DEF IInv

\* A worker changes the rows in COMMIT only, and there as the store allows.
LEMMA WorkerStores ==
    ASSUME IInv, NEW w \in Workers,
           \/ \E e \in Events : Deliver(w, e)
           \/ WorkerStep(w)
           \/ StatementFails(w) \/ CommitUnacknowledged(w) \/ WorkerDies(w)
    PROVE  [Store!StoreNext]_(Store!storeVars)
<1>1. CASE Commit(w) \/ CommitUnacknowledged(w)
  BY <1>1, PublishStep DEF Commit, CommitUnacknowledged, Fail
<1>2. CASE InsertFp(w) \/ InsertMetric(w)
  <2>1. UNCHANGED store /\ UNCHANGED snapshots
    BY <1>2 DEF InsertFp, InsertMetric, Insert, Fail
  <2> QED BY <2>1, AskedKept DEF store, Store!storeVars
<1>3. CASE ~(Commit(w) \/ CommitUnacknowledged(w) \/ InsertFp(w) \/ InsertMetric(w))
  <2>1. UNCHANGED store /\ UNCHANGED snapshots
    BY <1>3 DEF WorkerStep, Deliver, CheckDuplicate, FindFp, Detect, BackoffElapsed,
                StatementFails, WorkerDies, Fail
  <2> QED BY <2>1, AskedKept DEF store, Store!storeVars
<1> QED BY <1>1, <1>2, <1>3

LEMMA NextKeeps ==
    ASSUME IInv, [Next]_vars
    PROVE  IInv' /\ [Store!StoreNext]_(Store!storeVars)
<1>1. CASE \E w \in Workers :
             \/ \E e \in Events : Deliver(w, e)
             \/ WorkerStep(w)
             \/ StatementFails(w) \/ CommitUnacknowledged(w) \/ WorkerDies(w)
  BY <1>1, WorkerKeeps, WorkerStores
<1>2. CASE \E c \in Runs : StartRun(c) \/ RunStep(c) \/ RunFails(c)
  BY <1>2, RunKeeps
<1>3. CASE DeadlockVictim
  BY <1>3, DeadlockKeeps
<1>4. CASE UNCHANGED vars
  <2>1. IInv'
    <3>1. TypeOK' /\ LocksExclusive' /\ StoredTogether'
      BY <1>4 DEF vars, IInv, TypeOK, LocksExclusive, StoredTogether
    <3>2. \A w \in Workers : WorkerPlace(w)' /\ RacePlace(w)'
      BY <1>4 DEF vars, IInv, WorkerPlace, RacePlace, Stores, Visible
    <3>3. \A c \in Runs : RunPlace(c)'
      BY <1>4 DEF vars, IInv, RunPlace, Visible
    <3> QED BY <3>1, <3>2, <3>3 DEF IInv
  <2>2. UNCHANGED Store!storeVars
    BY <1>4 DEF vars, Store!storeVars
  <2> QED BY <2>1, <2>2
<1> QED BY <1>1, <1>2, <1>3, <1>4 DEF Next

\* Every state has the types, exclusive locks, and workers whose place in
\* their transaction fits what they hold and see.
THEOREM Invariance == Spec => []IInv
<1>1. IInv /\ [Next]_vars => IInv'
  BY NextKeeps
<1> QED BY <1>1, InitIInv, PTL DEF Spec

\* Every variable keeps its type; no worker goes beyond MaxRetries attempts.
THEOREM TypeCorrect == Spec => []TypeOK
<1>1. IInv => TypeOK
  BY DEF IInv
<1> QED BY <1>1, Invariance, PTL

\* At most two lost races per delivery, whatever the number of writers.
THEOREM RacesAreFew == Spec => []RacesBounded
<1>1. IInv => RacesBounded
  BY DEF IInv, RacesBounded, RacePlace
<1> QED BY <1>1, Invariance, PTL

\* Consumer workers take part in no deadlock, whatever the number of writers.
THEOREM NoWorkerDeadlock == Spec => []WorkersNeverDeadlock
BY DeadlockOfRuns, Invariance, PTL

\* Ingestion with its transactions, races, retries and lost acknowledgements
\* implements IdempotentStore: initial states map to initial states and every
\* step is a step of the store or leaves it alone.  A run's COMMIT is the one
\* step that stores its snapshot, every row and fingerprint of it, and the run
\* that ends in any other way has stored nothing.
THEOREM Refinement == Spec => ImplementsStore
<1>1. Init => Store!StoreInit
  BY ConcatEmptySeq DEF Init, Store!StoreInit
<1>2. IInv /\ [Next]_vars => [Store!StoreNext]_(Store!storeVars)
  BY NextKeeps
<1> QED BY <1>1, <1>2, Invariance, PTL DEF Spec, ImplementsStore, Store!StoreSpec
=============================================================================
