----------------------- MODULE TelemetryConsumerProofs -----------------------
(***************************************************************************)
(* Proofs about TelemetryConsumer for every set of partitions and records, *)
(* every retry limit and every batch size.  The argument is one inductive  *)
(* invariant, IInv, defined beside the specification; with it the consumer *)
(* implements BoundedLossDelivery.  The last part is about MCSpec of       *)
(* MCTelemetryConsumer, which also counts the failed attempts, for every   *)
(* value of its budgets.                                                   *)
(***************************************************************************)
EXTENDS MCTelemetryConsumer, FiniteSetTheorems, TLAPS

-----------------------------------------------------------------------------
(* Spans of the log.                                                       *)

\* A span holds the places between its bounds and is finite.
LEMMA SpanElements ==
    ASSUME NEW lo, NEW hi, NEW p, NEW o
    PROVE  <<p, o>> \in Span(lo, hi)
             <=> p \in Partitions /\ o \in (lo[p] + 1)..hi[p]
BY DEF Span

LEMMA SpanFinite ==
    ASSUME NEW lo \in [Partitions -> Int], NEW hi \in [Partitions -> Int]
    PROVE  IsFiniteSet(Span(lo, hi))
<1> DEFINE Slice == [p \in Partitions |-> {p} \X ((lo[p] + 1)..hi[p])]
           Slices == {Slice[p] : p \in Partitions}
<1>1. Slice \in Surjection(Partitions, Slices)
  BY DEF Surjection
<1>2. IsFiniteSet(Slices)
  BY <1>1, FS_Surjection, PartitionsAssumption
<1>3. ASSUME NEW S \in Slices PROVE IsFiniteSet(S)
  <2>1. PICK p \in Partitions : S = {p} \X ((lo[p] + 1)..hi[p])
    OBVIOUS
  <2>2. IsFiniteSet({p})
    BY FS_Singleton
  <2>3. IsFiniteSet((lo[p] + 1)..hi[p])
    <3>1. lo[p] + 1 \in Int /\ hi[p] \in Int
      OBVIOUS
    <3> QED BY <3>1, FS_Interval
  <2> QED BY <2>1, <2>2, <2>3, FS_Product
<1>4. Span(lo, hi) = UNION Slices
  BY DEF Span
<1> HIDE DEF Slices
<1> QED BY <1>2, <1>3, <1>4, FS_UNION

\* A span inside another has no more elements.
LEMMA SpanMonotone ==
    ASSUME NEW lo \in [Partitions -> Int], NEW hi \in [Partitions -> Int],
           NEW lo2 \in [Partitions -> Int], NEW hi2 \in [Partitions -> Int],
           \A p \in Partitions : lo[p] <= lo2[p] /\ hi2[p] <= hi[p]
    PROVE  Cardinality(Span(lo2, hi2)) <= Cardinality(Span(lo, hi))
<1>1. Span(lo2, hi2) \subseteq Span(lo, hi)
  <2> SUFFICES ASSUME NEW p \in Partitions, NEW o \in (lo2[p] + 1)..hi2[p]
               PROVE  o \in (lo[p] + 1)..hi[p]
    BY DEF Span
  <2>1. lo[p] <= lo2[p] /\ hi2[p] <= hi[p]
    OBVIOUS
  <2>2. lo[p] \in Int /\ hi[p] \in Int /\ lo2[p] \in Int /\ hi2[p] \in Int
    OBVIOUS
  <2> QED BY <2>1, <2>2
<1>2. IsFiniteSet(Span(lo, hi))
  BY SpanFinite
<1> QED BY <1>1, <1>2, FS_Subset

\* A span without places has no elements.
LEMMA SpanEmpty ==
    ASSUME NEW lo \in [Partitions -> Int]
    PROVE  Cardinality(Span(lo, lo)) = 0
<1>1. \A p \in Partitions : (lo[p] + 1)..lo[p] = {}
  <2> SUFFICES ASSUME NEW p \in Partitions PROVE (lo[p] + 1)..lo[p] = {}
    OBVIOUS
  <2>1. lo[p] \in Int
    OBVIOUS
  <2> QED BY <2>1
<1>2. Span(lo, lo) = {}
  BY <1>1 DEF Span
<1> QED BY <1>2, FS_EmptySet

-----------------------------------------------------------------------------
(* What one step does to the parts of IInv.                                *)

\* The record in process is a record of the log, in its own partition.
LEMMA CurrentRecord ==
    ASSUME TypeOK, OffsetsOrdered, next[cur] < position[cur]
    PROVE  /\ next[cur] + 1 \in 1..Len(log[cur])
           /\ Current \in Records
           /\ PartitionOf[Current] = cur
<1>1. cur \in Partitions /\ next[cur] \in Nat /\ position[cur] \in Nat
  BY DEF TypeOK
<1>2. log[cur] \in Seq(Records)
  BY DEF TypeOK
<1>3. position[cur] <= Len(log[cur])
  BY <1>1 DEF OffsetsOrdered
<1>4. Len(log[cur]) \in Nat
  BY <1>2
<1>5. next[cur] + 1 \in 1..Len(log[cur])
  BY <1>1, <1>3, <1>4
<1> QED BY <1>1, <1>2, <1>5 DEF Current, OffsetsOrdered

\* A mark once left stays: rows and messages are only added, and the status
\* row moves on to the record in process, which is not behind the loop.
LEMMA SettledKept ==
    ASSUME TypeOK, OffsetsOrdered, TypeOK', log' = log,
           metrics \subseteq metrics',
           \A r \in Records : dlqTopic[r] <= dlqTopic'[r],
           \/ status' = status
           \/ /\ next[cur] < position[cur]
              /\ Current \in Heartbeats /\ status' = Current,
           NEW p \in Partitions, NEW o \in 1..next[p], Settled(p, o)
    PROVE  Settled(p, o)'
<1> DEFINE r == log[p][o]
<1>1. log[p] \in Seq(Records) /\ next[p] \in Nat /\ position[p] \in Nat
  BY DEF TypeOK
<1>2. next[p] <= Len(log[p])
  BY <1>1 DEF OffsetsOrdered
<1>3. o \in 1..Len(log[p]) /\ r \in Records /\ PartitionOf[r] = p
  BY <1>1, <1>2 DEF OffsetsOrdered
<1>4. CASE dlqTopic[r] > 0
  <2>1. dlqTopic[r] \in Nat /\ dlqTopic'[r] \in Nat /\ dlqTopic[r] <= dlqTopic'[r]
    BY <1>3 DEF TypeOK
  <2> QED BY <1>4, <2>1 DEF Settled
<1>5. CASE r \in QueryEvents /\ IdStored(r)
  BY <1>5 DEF Settled, IdStored
<1>6. CASE r \in Heartbeats /\ \E l \in o..Len(log[p]) : status = log[p][l]
  <2>1. CASE status' = status
    BY <1>6, <2>1 DEF Settled
  <2>2. CASE /\ next[cur] < position[cur]
             /\ Current \in Heartbeats /\ status' = Current
    <3>1. /\ next[cur] + 1 \in 1..Len(log[cur])
          /\ PartitionOf[Current] = cur
      BY <2>2, CurrentRecord
    <3>2. PartitionOf[Current] = PartitionOf[r]
      BY <1>6, <2>2, RecordsAssumption
    <3>3. cur = p
      BY <1>3, <3>1, <3>2
    <3>4. next[p] + 1 \in o..Len(log[p])
      BY <1>1, <3>1, <3>3
    <3>5. status' = log[p][next[p] + 1]
      BY <2>2, <3>3 DEF Current
    <3> QED BY <1>6, <3>4, <3>5 DEF Settled
  <2> QED BY <2>1, <2>2
<1> QED BY <1>4, <1>5, <1>6 DEF Settled


\* A transaction that commits stores the event id of its record or shows its
\* heartbeat, and takes nothing away.
LEMMA PersistEffect ==
    ASSUME TypeOK, OffsetsOrdered, next[cur] < position[cur],
           Ingestible(Current), Persist(Current)
    PROVE  /\ metrics \subseteq metrics' /\ metrics' \subseteq QueryEvents
           /\ status' = status \/ (Current \in Heartbeats /\ status' = Current)
           /\ \/ /\ Current \in QueryEvents
                 /\ \E m \in metrics' : EventId[m] = EventId[Current]
              \/ Current \in Heartbeats /\ status' = Current
<1>1. Current \in QueryEvents \cup Heartbeats
  BY CurrentRecord DEF Records, Ingestible
<1>2. metrics \subseteq QueryEvents
  BY DEF TypeOK
<1>3. metrics \subseteq metrics' /\ metrics' \subseteq QueryEvents
  BY <1>1, <1>2 DEF Persist
<1>4. CASE Current \in QueryEvents
  <2>1. \E m \in metrics' : EventId[m] = EventId[Current]
    <3>1. CASE IsDuplicate(Current)
      BY <1>3, <3>1 DEF IsDuplicate, IdStored
    <3>2. CASE ~IsDuplicate(Current)
      BY <1>4, <3>2 DEF Persist
    <3> QED BY <3>1, <3>2
  <2>2. Current \notin Heartbeats
    BY <1>4, RecordsAssumption
  <2> QED BY <1>3, <1>4, <2>1, <2>2 DEF Persist
<1>5. CASE Current \in Heartbeats
  BY <1>3, <1>5 DEF Persist
<1> QED BY <1>1, <1>4, <1>5

\* Stepping past a record keeps the offsets ordered and shrinks what is left.
LEMMA AdvanceKeeps ==
    ASSUME TypeOK, OffsetsOrdered, TaskPlace, OneBatchUnprocessed,
           pc \in InBatch, Advance, log' = log, committed' = committed
    PROVE  /\ next' \in [Partitions -> Nat] /\ pc' \in Places
           /\ cur' \in Partitions /\ attempt' \in 0..MaxRetries
           /\ OffsetsOrdered' /\ TaskPlace' /\ OneBatchUnprocessed'
<1>1. next[cur] < position[cur]
  BY DEF TaskPlace
<1>2. /\ next \in [Partitions -> Nat] /\ position \in [Partitions -> Nat]
      /\ base \in [Partitions -> Nat] /\ cur \in Partitions
  BY DEF TypeOK
<1>3. /\ next' = [next EXCEPT ![cur] = next[cur] + 1]
      /\ next' \in [Partitions -> Nat]
  BY <1>2 DEF Advance
<1>4. position' = position /\ base' = base /\ attempt' = 0
  BY DEF Advance
<1>5. \A p \in Partitions : next[p] <= next'[p] /\ next'[p] <= position[p]
  <2> SUFFICES ASSUME NEW p \in Partitions
               PROVE  next[p] <= next'[p] /\ next'[p] <= position[p]
    OBVIOUS
  <2>1. CASE p = cur
    BY <1>1, <1>2, <1>3, <2>1
  <2>2. CASE p # cur
    BY <1>2, <1>3, <2>2 DEF OffsetsOrdered
  <2> QED BY <2>1, <2>2
<1>6. \/ pc' = "attempt" /\ cur' = cur /\ next'[cur] < position[cur]
      \/ pc' = "lag" /\ cur' \in Partitions /\ next'[cur'] < position[cur']
      \/ /\ pc' = "poll" /\ cur' = cur
         /\ \A p \in Partitions : ~(next'[p] < position[p])
  BY DEF Advance
<1>7. pc' \in Places /\ cur' \in Partitions /\ attempt' \in 0..MaxRetries
  BY <1>2, <1>4, <1>6, SettingsAssumption DEF Places, InBatch
<1>8. OffsetsOrdered'
  <2> SUFFICES ASSUME NEW p \in Partitions
               PROVE  /\ base[p] <= next'[p] /\ next'[p] <= position[p]
                      /\ position[p] <= Len(log[p])
                      /\ committed[p] <= position[p]
                      /\ \A o \in 1..Len(log[p]) : PartitionOf[log[p][o]] = p
    BY <1>4 DEF OffsetsOrdered
  <2>1. base[p] <= next[p]
    BY DEF OffsetsOrdered
  <2>2. base[p] \in Nat /\ next[p] \in Nat /\ next'[p] \in Nat
    BY <1>2, <1>3
  <2>3. base[p] <= next'[p]
    BY <1>5, <2>1, <2>2
  <2> QED BY <1>5, <2>3 DEF OffsetsOrdered
<1>9. TaskPlace'
  <2>1. CASE pc' = "poll"
    <3>1. \A p \in Partitions : next'[p] = position[p]
      <4> SUFFICES ASSUME NEW p \in Partitions PROVE next'[p] = position[p]
        OBVIOUS
      <4>1. next'[p] \in Nat /\ position[p] \in Nat
        BY <1>2, <1>3
      <4>2. ~(next'[p] < position[p])
        BY <1>6, <2>1
      <4> QED BY <1>5, <4>1, <4>2
    <3> QED BY <1>4, <2>1, <3>1 DEF TaskPlace, InBatch
  <2>2. CASE pc' # "poll"
    <3>1. pc' \in {"attempt", "lag"} /\ next'[cur'] < position[cur']
      BY <1>6, <2>2
    <3> QED BY <1>4, <3>1 DEF TaskPlace, InBatch
  <2> QED BY <2>1, <2>2
<1>10. OneBatchUnprocessed'
  <2>1. Cardinality(Span(next', position)) <= Cardinality(Span(next, position))
    <3>1. /\ next \in [Partitions -> Int] /\ position \in [Partitions -> Int]
          /\ next' \in [Partitions -> Int]
      BY <1>2, <1>3
    <3>2. \A p \in Partitions : next[p] <= next'[p] /\ position[p] <= position[p]
      BY <1>2, <1>5
    <3> QED BY <3>1, <3>2, SpanMonotone
  <2>2. /\ Cardinality(Span(next, position)) \in Nat
        /\ Cardinality(Span(next', position)) \in Nat
    <3>1. IsFiniteSet(Span(next, position)) /\ IsFiniteSet(Span(next', position))
      <4>1. /\ next \in [Partitions -> Int] /\ position \in [Partitions -> Int]
            /\ next' \in [Partitions -> Int]
        BY <1>2, <1>3
      <4> QED BY <4>1, SpanFinite
    <3> QED BY <3>1, FS_CardinalityType
  <2>3. Cardinality(Span(next, position)) <= MaxPollRecords
    BY DEF OneBatchUnprocessed, Unprocessed
  <2>4. Cardinality(Span(next', position)) <= MaxPollRecords
    BY <2>1, <2>2, <2>3, SettingsAssumption
  <2> QED BY <1>4, <2>4 DEF OneBatchUnprocessed, Unprocessed, Span
<1> QED BY <1>3, <1>7, <1>8, <1>9, <1>10


\* What every step of the task does to the marks records leave.
MarksKept ==
    /\ log' = log
    /\ metrics \subseteq metrics'
    /\ \A r \in Records : dlqTopic[r] <= dlqTopic'[r]
    /\ \/ status' = status
       \/ /\ next[cur] < position[cur]
          /\ Current \in Heartbeats /\ status' = Current

\* A step that does not advance keeps what is settled behind the loop.
LEMMA SettledBehindKept ==
    ASSUME TypeOK, OffsetsOrdered, SettledBehindLoop, TypeOK', MarksKept,
           base' = base, next' = next
    PROVE  SettledBehindLoop'
<1> SUFFICES ASSUME NEW p \in Partitions, NEW o \in (base[p] + 1)..next[p]
             PROVE  o <= Len(log'[p]) /\ Settled(p, o)'
  BY DEF SettledBehindLoop
<1>1. base[p] \in Nat /\ next[p] \in Nat
  BY DEF TypeOK
<1>2. o \in 1..next[p]
  BY <1>1
<1>3. o <= Len(log[p]) /\ Settled(p, o)
  BY DEF SettledBehindLoop
<1> QED BY <1>2, <1>3, SettledKept DEF MarksKept

\* A step that advances past a settled record does too.
LEMMA AdvanceSettles ==
    ASSUME TypeOK, OffsetsOrdered, SettledBehindLoop, TypeOK', MarksKept,
           next[cur] < position[cur], Advance,
           NEW c, NEW n, c = cur, n = next[cur] + 1, Settled(c, n)'
    PROVE  SettledBehindLoop'
<1>1. /\ base' = base
      /\ next' = [next EXCEPT ![cur] = next[cur] + 1]
  BY DEF Advance
<1> SUFFICES ASSUME NEW p \in Partitions, NEW o \in (base[p] + 1)..next'[p]
             PROVE  o <= Len(log'[p]) /\ Settled(p, o)'
  BY <1>1 DEF SettledBehindLoop
<1>2. base[p] \in Nat /\ next[p] \in Nat /\ cur \in Partitions
  BY DEF TypeOK
<1>3. CASE o \in (base[p] + 1)..next[p]
  <2>1. o \in 1..next[p]
    BY <1>2, <1>3
  <2>2. o <= Len(log[p]) /\ Settled(p, o)
    BY <1>3 DEF SettledBehindLoop
  <2> QED BY <2>1, <2>2, SettledKept DEF MarksKept
<1>4. CASE o \notin (base[p] + 1)..next[p]
  <2>1. next \in [Partitions -> Nat]
    BY DEF TypeOK
  <2>2. p = c /\ o = n
    <3>1. CASE p # cur
      <4>1. next'[p] = next[p]
        BY <1>1, <2>1, <3>1
      <4> QED BY <1>4, <4>1
    <3>2. CASE p = cur
      <4>1. next'[p] = next[p] + 1
        BY <1>1, <2>1, <3>2
      <4> QED BY <1>2, <1>4, <3>2, <4>1
    <3> QED BY <3>1, <3>2
  <2>3. next[cur] + 1 <= Len(log[cur])
    <3>1. next[cur] + 1 \in 1..Len(log[cur])
      BY CurrentRecord
    <3> QED BY <3>1
  <2> QED BY <2>2, <2>3 DEF MarksKept
<1> QED BY <1>3, <1>4

\* A step that leaves the loop where it is keeps the offsets ordered and the
\* batch small; commits take the polled positions at most.
LEMMA LoopUnmoved ==
    ASSUME TypeOK, OffsetsOrdered, OneBatchUnprocessed,
           log' = log, base' = base, position' = position, next' = next,
           committed' \in {committed, position}
    PROVE  /\ OffsetsOrdered' /\ OneBatchUnprocessed'
           /\ committed' \in [Partitions -> Nat \cup {NoOffset}]
<1>1. \A p \in Partitions : position[p] \in Nat
  BY DEF TypeOK
<1>2. OffsetsOrdered'
  BY <1>1 DEF OffsetsOrdered
<1>3. OneBatchUnprocessed'
  BY DEF OneBatchUnprocessed, Unprocessed, Span
<1>4. committed' \in [Partitions -> Nat \cup {NoOffset}]
  BY DEF TypeOK
<1> QED BY <1>2, <1>3, <1>4


\* The parts of IInv after a step that leaves log and loop where they are.
LEMMA StepInPlace ==
    ASSUME IInv, log' = log, base' = base, position' = position, next' = next,
           committed' \in {committed, position},
           pc' \in Places, cur' = cur, attempt' \in 0..MaxRetries,
           metrics \subseteq metrics', metrics' \subseteq QueryEvents,
           \/ status' = status
           \/ /\ next[cur] < position[cur]
              /\ Current \in Heartbeats /\ status' = Current,
           dlqTopic' \in [Records -> Nat], dlqTable' \in [Records -> Nat],
           \A r \in Records : dlqTopic[r] <= dlqTopic'[r],
           DlqRowHasMessage', TaskPlace'
    PROVE  IInv'
<1>1. TypeOK /\ OffsetsOrdered /\ OneBatchUnprocessed /\ SettledBehindLoop
  BY DEF IInv
<1>2. /\ OffsetsOrdered' /\ OneBatchUnprocessed'
      /\ committed' \in [Partitions -> Nat \cup {NoOffset}]
  BY <1>1, LoopUnmoved
<1>3. TypeOK'
  BY <1>1, <1>2 DEF TypeOK
<1>4. MarksKept
  BY DEF MarksKept
<1>5. SettledBehindLoop'
  BY <1>1, <1>3, <1>4, SettledBehindKept
<1> QED BY <1>2, <1>3, <1>5 DEF IInv

\* Adding one to an entry of a count: the entry grows, the others stay.
LEMMA AddOneCounts ==
    ASSUME NEW S, NEW f \in [S -> Nat], NEW r \in S
    PROVE  /\ AddOne(f, r) \in [S -> Nat]
           /\ AddOne(f, r)[r] = f[r] + 1
           /\ \A x \in S : f[x] <= AddOne(f, r)[x]
           /\ \A x \in S \ {r} : AddOne(f, r)[x] = f[x]
BY DEF AddOne

\* A counted function keeps the entries below it.
LEMMA CountBelow ==
    ASSUME TypeOK, NEW f \in [Records -> Nat], DlqRowHasMessage,
           \A r \in Records : dlqTopic[r] <= f[r]
    PROVE  \A r \in Records : dlqTable[r] <= f[r]
<1> SUFFICES ASSUME NEW r \in Records PROVE dlqTable[r] <= f[r]
  OBVIOUS
<1>1. dlqTable[r] \in Nat /\ dlqTopic[r] \in Nat /\ f[r] \in Nat
  BY DEF TypeOK
<1> QED BY <1>1 DEF DlqRowHasMessage

-----------------------------------------------------------------------------
(* The initial state and the steps.                                        *)

\* The initial state.
LEMMA InitInvariant == Init => IInv
<1> SUFFICES ASSUME Init PROVE IInv
  OBVIOUS
<1>1. TypeOK
  BY SettingsAssumption DEF Init, TypeOK, Places, Gone
<1>2. OffsetsOrdered
  BY DEF Init, OffsetsOrdered, NoOffset
<1>3. TaskPlace
  BY DEF Init, TaskPlace, InBatch
<1>4. OneBatchUnprocessed
  <2>1. next = position /\ next \in [Partitions -> Int]
    BY DEF Init
  <2>2. Cardinality(Span(next, next)) = 0
    BY <2>1, SpanEmpty
  <2> QED BY <2>1, <2>2, SettingsAssumption DEF OneBatchUnprocessed, Unprocessed
<1>5. DlqRowHasMessage
  BY DEF Init, DlqRowHasMessage
<1>6. SettledBehindLoop
  BY DEF Init, SettledBehindLoop
<1> QED BY <1>1, <1>2, <1>3, <1>4, <1>5, <1>6 DEF IInv

\* Appending a record moves no place of the log that is already there.
LEMMA ProduceKeeps ==
    ASSUME IInv, NEW r \in Records, Produce(r)
    PROVE  IInv'
<1> DEFINE p0 == PartitionOf[r]
<1> USE DEF IInv
<1>1. p0 \in Partitions
  BY RecordsAssumption
<1>2. /\ log' = [log EXCEPT ![p0] = Append(log[p0], r)]
      /\ log \in [Partitions -> Seq(Records)]
      /\ UNCHANGED <<committed, base, position, next, pc, cur, attempt,
                     metrics, status, dlqTable, dlqTopic>>
  BY DEF Produce, TypeOK, loopVars, dbVars
<1>3. \A p \in Partitions :
        /\ log'[p] \in Seq(Records)
        /\ Len(log[p]) \in Nat /\ Len(log'[p]) \in Nat
        /\ Len(log[p]) <= Len(log'[p])
        /\ \A o \in 1..Len(log[p]) : log'[p][o] = log[p][o]
        /\ \A o \in 1..Len(log'[p]) : o \in 1..Len(log[p]) \/ (p = p0 /\ log'[p][o] = r)
  <2> SUFFICES ASSUME NEW p \in Partitions
               PROVE  /\ log'[p] \in Seq(Records)
                      /\ Len(log[p]) \in Nat /\ Len(log'[p]) \in Nat
                      /\ Len(log[p]) <= Len(log'[p])
                      /\ \A o \in 1..Len(log[p]) : log'[p][o] = log[p][o]
                      /\ \A o \in 1..Len(log'[p]) :
                           o \in 1..Len(log[p]) \/ (p = p0 /\ log'[p][o] = r)
    OBVIOUS
  <2>1. log[p] \in Seq(Records)
    BY <1>2
  <2>2. CASE p = p0
    <3>1. log'[p] = Append(log[p], r)
      BY <1>1, <1>2, <2>2
    <3> QED BY <2>1, <2>2, <3>1
  <2>3. CASE p # p0
    <3>1. log'[p] = log[p]
      BY <1>2, <2>3
    <3> QED BY <2>1, <3>1
  <2> QED BY <2>2, <2>3
<1>4. TypeOK'
  <2>1. log' \in [Partitions -> Seq(Records)]
    BY <1>1, <1>2, <1>3
  <2> QED BY <1>2, <2>1 DEF TypeOK
<1>5. \A p \in Partitions : next[p] \in Nat /\ position[p] \in Nat /\ base[p] \in Nat
  BY DEF TypeOK
<1>6. OffsetsOrdered'
  <2> SUFFICES ASSUME NEW p \in Partitions
               PROVE  /\ position[p] <= Len(log'[p])
                      /\ \A o \in 1..Len(log'[p]) : PartitionOf[log'[p][o]] = p
    BY <1>2 DEF OffsetsOrdered
  <2>1. position[p] <= Len(log[p])
    BY DEF OffsetsOrdered
  <2>2. position[p] <= Len(log'[p])
    BY <1>3, <1>5, <2>1
  <2>3. \A o \in 1..Len(log[p]) : PartitionOf[log[p][o]] = p
    BY DEF OffsetsOrdered
  <2> QED BY <1>3, <2>2, <2>3
<1>7. pc = "record" => Current' = Current
  <2> SUFFICES ASSUME pc = "record" PROVE Current' = Current
    OBVIOUS
  <2>1. next[cur] + 1 \in 1..Len(log[cur]) /\ cur \in Partitions
    BY CurrentRecord DEF TaskPlace, InBatch, TypeOK
  <2> QED BY <1>2, <1>3, <2>1 DEF Current
<1>8. TaskPlace'
  BY <1>2, <1>7 DEF TaskPlace
<1>9. OneBatchUnprocessed'
  BY <1>2 DEF OneBatchUnprocessed, Unprocessed, Span
<1>10. DlqRowHasMessage'
  BY <1>2 DEF DlqRowHasMessage
<1>11. SettledBehindLoop'
  <2> SUFFICES ASSUME NEW p \in Partitions, NEW o \in (base[p] + 1)..next[p]
               PROVE  o <= Len(log'[p]) /\ Settled(p, o)'
    BY <1>2 DEF SettledBehindLoop
  <2>1. o <= Len(log[p]) /\ Settled(p, o)
    BY DEF SettledBehindLoop
  <2>2. o \in 1..Len(log[p]) /\ o <= Len(log'[p])
    BY <1>3, <1>5, <2>1
  <2>3. log'[p][o] = log[p][o]
    BY <1>3, <2>2
  <2>4. CASE log[p][o] \in Heartbeats /\ \E l \in o..Len(log[p]) : status = log[p][l]
    <3>1. PICK l \in o..Len(log[p]) : status = log[p][l]
      BY <2>4
    <3>2. l \in 1..Len(log[p]) /\ l \in o..Len(log'[p])
      BY <1>3, <2>2, <3>1
    <3>3. status' = log'[p][l]
      BY <1>2, <1>3, <3>1, <3>2
    <3> QED BY <2>2, <2>3, <2>4, <3>2, <3>3 DEF Settled
  <2>5. CASE ~(log[p][o] \in Heartbeats /\ \E l \in o..Len(log[p]) : status = log[p][l])
    BY <1>2, <2>1, <2>2, <2>3, <2>5 DEF Settled, IdStored
  <2> QED BY <2>4, <2>5
<1> QED BY <1>4, <1>6, <1>8, <1>9, <1>10, <1>11


\* Resolving the positions leaves no record unprocessed and none stepped past.
LEMMA ResolveKeeps ==
    ASSUME IInv, ResolvePositions, log' = log, committed' = committed,
           pc' \in {"poll", "leaked"}, cur' = cur,
           UNCHANGED <<metrics, status, dlqTable, dlqTopic>>
    PROVE  IInv'
<1> USE DEF IInv
<1>1. \A p \in Partitions :
        /\ StartOffset(p) \in Nat /\ StartOffset(p) <= Len(log[p])
        /\ committed[p] <= StartOffset(p)
  <2> SUFFICES ASSUME NEW p \in Partitions
               PROVE  /\ StartOffset(p) \in Nat /\ StartOffset(p) <= Len(log[p])
                      /\ committed[p] <= StartOffset(p)
    OBVIOUS
  <2>1. /\ Len(log[p]) \in Nat /\ committed[p] \in Nat \cup {NoOffset}
        /\ position[p] \in Nat
        /\ committed[p] <= position[p] /\ position[p] <= Len(log[p])
    BY DEF TypeOK, OffsetsOrdered
  <2> QED BY <2>1 DEF StartOffset, NoOffset
<1>2. /\ position' = [p \in Partitions |-> StartOffset(p)]
      /\ next' = position' /\ base' = position' /\ attempt' = 0
  BY DEF ResolvePositions
<1>3. position' \in [Partitions -> Nat]
  BY <1>1, <1>2
<1>4. TypeOK'
  BY <1>2, <1>3, SettingsAssumption DEF TypeOK, Places, Gone
<1>5. OffsetsOrdered'
  BY <1>1, <1>2, <1>3 DEF OffsetsOrdered
<1>6. TaskPlace'
  BY <1>2 DEF TaskPlace, InBatch
<1>7. OneBatchUnprocessed'
  <2>1. Cardinality(Span(position', position')) = 0
    <3>1. position' \in [Partitions -> Int]
      BY <1>3
    <3> QED BY <3>1, SpanEmpty
  <2> QED BY <1>2, <2>1, SettingsAssumption DEF OneBatchUnprocessed, Unprocessed, Span
<1>8. DlqRowHasMessage'
  BY DEF DlqRowHasMessage
<1>9. SettledBehindLoop'
  <2> SUFFICES ASSUME NEW p \in Partitions, NEW o \in (base'[p] + 1)..next'[p]
               PROVE  FALSE
    BY DEF SettledBehindLoop
  <2>1. base'[p] = next'[p] /\ next'[p] \in Nat
    BY <1>2, <1>3
  <2> QED BY <2>1
<1> QED BY <1>4, <1>5, <1>6, <1>7, <1>8, <1>9

\* A batch is fetched: at most MaxPollRecords places become unprocessed.
LEMMA PollKeeps ==
    ASSUME IInv, Poll
    PROVE  IInv'
<1> USE DEF IInv
<1>1. PICK end \in [Partitions -> UNION {0..Len(log[p]) : p \in Partitions}] :
         /\ \A p \in Partitions : position[p] <= end[p] /\ end[p] <= Len(log[p])
         /\ Cardinality(Span(position, end)) <= MaxPollRecords
         /\ position' = end
         /\ cur' \in {p \in Partitions : position[p] < end[p]}
  BY DEF Poll
<1>2. /\ pc = "poll" /\ pc' = "lag"
      /\ UNCHANGED <<log, committed, base, next, attempt,
                     metrics, status, dlqTable, dlqTopic>>
  BY DEF Poll, kafkaVars, dbVars
<1>3. position' \in [Partitions -> Nat]
  <2>1. \A p \in Partitions : Len(log[p]) \in Nat
    BY DEF TypeOK
  <2>2. \A p \in Partitions : end[p] \in Nat
    BY <2>1
  <2> QED BY <1>1, <2>2
<1>4. next = position
  <2>1. next \in [Partitions -> Nat] /\ position \in [Partitions -> Nat]
    BY DEF TypeOK
  <2>2. \A p \in Partitions : next[p] = position[p]
    BY <1>2 DEF TaskPlace
  <2> QED BY <2>1, <2>2
<1>5. TypeOK'
  BY <1>1, <1>2, <1>3 DEF TypeOK, Places, InBatch
<1>6. OffsetsOrdered'
  <2> SUFFICES ASSUME NEW p \in Partitions
               PROVE  /\ next[p] <= position'[p]
                      /\ position'[p] <= Len(log[p])
                      /\ committed[p] <= position'[p]
    BY <1>2 DEF OffsetsOrdered
  <2>1. /\ position[p] <= position'[p] /\ position'[p] <= Len(log[p])
        /\ committed[p] <= position[p]
    BY <1>1 DEF OffsetsOrdered
  <2>2. /\ position[p] \in Nat /\ position'[p] \in Nat
        /\ committed[p] \in Nat \cup {NoOffset}
    BY <1>3 DEF TypeOK
  <2> QED BY <1>4, <2>1, <2>2 DEF NoOffset
<1>7. TaskPlace'
  BY <1>1, <1>2, <1>4 DEF TaskPlace, InBatch
<1>8. OneBatchUnprocessed'
  BY <1>1, <1>2, <1>4 DEF OneBatchUnprocessed, Unprocessed, Span
<1>9. DlqRowHasMessage'
  BY <1>2 DEF DlqRowHasMessage
<1>10. SettledBehindLoop'
  <2>1. MarksKept
    <3>1. \A r \in Records : dlqTopic[r] \in Nat
      BY DEF TypeOK
    <3> QED BY <1>2, <3>1 DEF MarksKept
  <2> QED BY <1>2, <1>5, <2>1, SettledBehindKept
<1> QED BY <1>5, <1>6, <1>7, <1>8, <1>9, <1>10

\* A step past the current record, which the step settles.
LEMMA AdvancingStep ==
    ASSUME IInv, pc \in InBatch, Advance, log' = log, committed' = committed,
           metrics \subseteq metrics', metrics' \subseteq QueryEvents,
           \/ status' = status
           \/ Current \in Heartbeats /\ status' = Current,
           dlqTopic' = dlqTopic, dlqTable' \in [Records -> Nat],
           DlqRowHasMessage',
           NEW c, NEW n, c = cur, n = next[cur] + 1, Settled(c, n)'
    PROVE  IInv'
<1> USE DEF IInv
<1>1. next[cur] < position[cur]
  BY DEF TaskPlace
<1>2. /\ next' \in [Partitions -> Nat] /\ pc' \in Places
      /\ cur' \in Partitions /\ attempt' \in 0..MaxRetries
      /\ OffsetsOrdered' /\ TaskPlace' /\ OneBatchUnprocessed'
  BY AdvanceKeeps
<1>3. TypeOK'
  BY <1>2 DEF TypeOK, Advance
<1>4. MarksKept
  <2>1. \A r \in Records : dlqTopic[r] \in Nat
    BY DEF TypeOK
  <2> QED BY <1>1, <2>1 DEF MarksKept
<1>5. SettledBehindLoop'
  BY <1>1, <1>3, <1>4, AdvanceSettles
<1> QED BY <1>2, <1>3, <1>5

\* An attempt that commits settles its record.
LEMMA IngestKeeps ==
    ASSUME IInv, Ingest
    PROVE  IInv'
<1> USE DEF IInv
<1>1. pc \in InBatch /\ next[cur] < position[cur]
  BY DEF Ingest, InBatch, TaskPlace
<1>2. /\ metrics \subseteq metrics' /\ metrics' \subseteq QueryEvents
      /\ status' = status \/ (Current \in Heartbeats /\ status' = Current)
      /\ \/ /\ Current \in QueryEvents
            /\ \E m \in metrics' : EventId[m] = EventId[Current]
         \/ Current \in Heartbeats /\ status' = Current
  BY <1>1, PersistEffect DEF Ingest
<1>3. log' = log /\ committed' = committed /\ dlqTable' = dlqTable /\ dlqTopic' = dlqTopic
  BY DEF Ingest, kafkaVars
<1>4. DlqRowHasMessage' /\ dlqTable' \in [Records -> Nat]
  BY <1>3 DEF DlqRowHasMessage, TypeOK
<1>5. ASSUME NEW c, NEW n, c = cur, n = next[cur] + 1
      PROVE  Settled(c, n)'
  <2>1. log'[c][n] = Current /\ n \in 1..Len(log'[c])
    BY <1>1, <1>3, <1>5, CurrentRecord DEF Current
  <2>2. CASE Current \in QueryEvents /\ \E m \in metrics' : EventId[m] = EventId[Current]
    BY <2>1, <2>2 DEF Settled, IdStored
  <2>3. CASE Current \in Heartbeats /\ status' = Current
    <3>1. n \in n..Len(log'[c])
      BY <2>1
    <3> QED BY <2>1, <2>3, <3>1 DEF Settled
  <2> QED BY <1>2, <2>2, <2>3
<1> QED BY <1>1, <1>2, <1>3, <1>4, <1>5, AdvancingStep DEF Ingest


\* The failed attempt: asleep if retries are left, else on the way to the DLQ.
LEMMA ExceptKeeps ==
    ASSUME IInv, pc = "attempt", Except, log' = log, committed' = committed,
           metrics \subseteq metrics', metrics' \subseteq QueryEvents,
           \/ status' = status
           \/ Current \in Heartbeats /\ status' = Current,
           dlqTopic' = dlqTopic, dlqTable' = dlqTable
    PROVE  IInv'
<1> USE DEF IInv
<1>1. next[cur] < position[cur]
  BY DEF TaskPlace, InBatch
<1>2. /\ base' = base /\ position' = position /\ next' = next
      /\ cur' = cur /\ attempt' = attempt
      /\ pc' = IF attempt < MaxRetries THEN "backoff" ELSE "publish"
  BY DEF Except
<1>3. /\ pc' \in Places /\ attempt' \in 0..MaxRetries
      /\ dlqTopic' \in [Records -> Nat] /\ dlqTable' \in [Records -> Nat]
      /\ \A r \in Records : dlqTopic[r] <= dlqTopic'[r]
  BY <1>2 DEF TypeOK, Places, InBatch
<1>4. TaskPlace'
  BY <1>1, <1>2 DEF TaskPlace, InBatch
<1>5. DlqRowHasMessage'
  BY DEF DlqRowHasMessage
<1> QED BY <1>1, <1>2, <1>3, <1>4, <1>5, StepInPlace

\* The task or the process ends; a message or a row may have been added.
LEMMA EndKeeps ==
    ASSUME IInv, pc' \in Gone, committed' \in {committed, position},
           UNCHANGED <<log, base, position, next, cur, attempt, metrics, status>>,
           \/ UNCHANGED <<dlqTopic, dlqTable>>
           \/ /\ pc = "publish" /\ dlqTopic' = AddOne(dlqTopic, Current)
              /\ UNCHANGED dlqTable
           \/ /\ pc = "record" /\ dlqTable' = AddOne(dlqTable, Current)
              /\ UNCHANGED dlqTopic
    PROVE  IInv'
<1> USE DEF IInv
<1>1. pc' \in Places /\ attempt' \in 0..MaxRetries /\ TaskPlace'
  BY DEF TypeOK, Places, Gone, TaskPlace, InBatch
<1>2. /\ dlqTopic \in [Records -> Nat] /\ dlqTable \in [Records -> Nat]
      /\ metrics \subseteq QueryEvents
  BY DEF TypeOK
<1>3. /\ dlqTopic' \in [Records -> Nat] /\ dlqTable' \in [Records -> Nat]
      /\ \A r \in Records : dlqTopic[r] <= dlqTopic'[r]
      /\ DlqRowHasMessage'
  <2>1. CASE UNCHANGED <<dlqTopic, dlqTable>>
    BY <1>2, <2>1 DEF DlqRowHasMessage
  <2>2. CASE /\ pc = "publish" /\ dlqTopic' = AddOne(dlqTopic, Current)
             /\ UNCHANGED dlqTable
    <3>1. Current \in Records
      BY <2>2, CurrentRecord DEF TaskPlace, InBatch
    <3>2. /\ dlqTopic' \in [Records -> Nat]
          /\ \A r \in Records : dlqTopic[r] <= dlqTopic'[r]
      BY <1>2, <2>2, <3>1, AddOneCounts
    <3>3. \A r \in Records : dlqTable[r] <= dlqTopic'[r]
      BY <3>2, CountBelow
    <3> QED BY <1>2, <2>2, <3>2, <3>3 DEF DlqRowHasMessage
  <2>3. CASE /\ pc = "record" /\ dlqTable' = AddOne(dlqTable, Current)
             /\ UNCHANGED dlqTopic
    <3>1. Current \in Records /\ dlqTable[Current] < dlqTopic[Current]
      BY <2>3, CurrentRecord DEF TaskPlace, InBatch
    <3>2. /\ dlqTable' \in [Records -> Nat]
          /\ dlqTable'[Current] = dlqTable[Current] + 1
          /\ \A r \in Records \ {Current} : dlqTable'[r] = dlqTable[r]
      BY <1>2, <2>3, <3>1, AddOneCounts
    <3>3. \A r \in Records : dlqTable'[r] <= dlqTopic[r]
      <4> SUFFICES ASSUME NEW r \in Records PROVE dlqTable'[r] <= dlqTopic[r]
        OBVIOUS
      <4>1. dlqTable[r] \in Nat /\ dlqTopic[r] \in Nat
        BY <1>2
      <4>2. CASE r = Current
        BY <3>1, <3>2, <4>1, <4>2
      <4>3. CASE r # Current
        BY <3>2, <4>3 DEF DlqRowHasMessage
      <4> QED BY <4>2, <4>3
    <3> QED BY <1>2, <2>3, <3>2, <3>3 DEF DlqRowHasMessage
  <2> QED BY <2>1, <2>2, <2>3
<1> QED BY <1>1, <1>2, <1>3, StepInPlace

\* The broker acknowledged one more dead-letter message.
LEMMA PublishDlqKeeps ==
    ASSUME IInv, PublishDlq
    PROVE  IInv'
<1> USE DEF IInv
<1>1. /\ pc = "publish" /\ pc' = "record" /\ dlqTopic' = AddOne(dlqTopic, Current)
      /\ UNCHANGED <<log, committed, base, position, next, cur, attempt,
                     metrics, status, dlqTable>>
  BY DEF PublishDlq, kafkaVars, dbVars
<1>2. Current \in Records /\ next[cur] < position[cur]
  BY <1>1, CurrentRecord DEF TaskPlace, InBatch
<1>3. /\ dlqTopic \in [Records -> Nat] /\ dlqTable \in [Records -> Nat]
      /\ metrics \subseteq QueryEvents /\ attempt \in 0..MaxRetries
  BY DEF TypeOK
<1>4. /\ dlqTopic' \in [Records -> Nat]
      /\ dlqTopic'[Current] = dlqTopic[Current] + 1
      /\ \A r \in Records : dlqTopic[r] <= dlqTopic'[r]
  BY <1>1, <1>2, <1>3, AddOneCounts
<1>5. \A r \in Records : dlqTable[r] <= dlqTopic'[r]
  BY <1>4, CountBelow
<1>6. DlqRowHasMessage'
  BY <1>1, <1>5 DEF DlqRowHasMessage
<1>7. Current' = Current
  BY <1>1 DEF Current
<1>8. dlqTable[Current] < dlqTopic'[Current]
  <2>1. /\ dlqTable[Current] <= dlqTopic[Current]
        /\ dlqTable[Current] \in Nat /\ dlqTopic[Current] \in Nat
    BY <1>2, <1>3 DEF DlqRowHasMessage
  <2> QED BY <1>4, <2>1
<1>9. TaskPlace'
  BY <1>1, <1>2, <1>7, <1>8 DEF TaskPlace, InBatch
<1>10. pc' \in Places
  BY <1>1 DEF Places, InBatch
<1> QED BY <1>1, <1>3, <1>4, <1>6, <1>9, <1>10, StepInPlace

\* The dlq_events row is written: the record is dead-lettered and done.
LEMMA RecordDlqKeeps ==
    ASSUME IInv, RecordDlq
    PROVE  IInv'
<1> USE DEF IInv
<1>1. /\ pc = "record" /\ pc \in InBatch /\ dlqTable' = AddOne(dlqTable, Current)
      /\ Advance
      /\ UNCHANGED <<log, committed, metrics, status, dlqTopic>>
  BY DEF RecordDlq, kafkaVars, InBatch
<1>2. /\ Current \in Records
      /\ next[cur] + 1 \in 1..Len(log[cur])
      /\ dlqTable[Current] < dlqTopic[Current]
  BY <1>1, CurrentRecord DEF TaskPlace
<1>3. dlqTopic \in [Records -> Nat] /\ dlqTable \in [Records -> Nat]
  BY DEF TypeOK
<1>4. /\ dlqTable' \in [Records -> Nat]
      /\ dlqTable'[Current] = dlqTable[Current] + 1
      /\ \A r \in Records \ {Current} : dlqTable'[r] = dlqTable[r]
  BY <1>1, <1>2, <1>3, AddOneCounts
<1>5. DlqRowHasMessage'
  <2> SUFFICES ASSUME NEW r \in Records PROVE dlqTable'[r] <= dlqTopic[r]
    BY <1>1 DEF DlqRowHasMessage
  <2>1. dlqTable[r] \in Nat /\ dlqTopic[r] \in Nat
    BY <1>3
  <2>2. CASE r = Current
    BY <1>2, <1>4, <2>1, <2>2
  <2>3. CASE r # Current
    BY <1>4, <2>3 DEF DlqRowHasMessage
  <2> QED BY <2>2, <2>3
<1>6. ASSUME NEW c, NEW n, c = cur, n = next[cur] + 1
      PROVE  Settled(c, n)'
  <2>1. log'[c][n] = Current
    BY <1>1, <1>6 DEF Current
  <2>2. dlqTopic'[Current] > 0
    <3>1. dlqTable[Current] \in Nat /\ dlqTopic[Current] \in Nat
      BY <1>2, <1>3
    <3> QED BY <1>1, <1>2, <3>1
  <2> QED BY <2>1, <2>2 DEF Settled
<1>7. metrics \subseteq metrics' /\ metrics' \subseteq QueryEvents
  BY <1>1 DEF TypeOK
<1> QED BY <1>1, <1>4, <1>5, <1>6, <1>7, AdvancingStep

\* Every step of the specification keeps IInv.
LEMMA NextKeeps == IInv /\ [Next]_vars => IInv'
<1> SUFFICES ASSUME IInv, [Next]_vars PROVE IInv'
  OBVIOUS
<1>0. /\ metrics \subseteq QueryEvents /\ attempt \in 0..MaxRetries
      /\ dlqTopic \in [Records -> Nat] /\ dlqTable \in [Records -> Nat]
      /\ \A r \in Records : dlqTopic[r] <= dlqTopic[r]
  BY DEF IInv, TypeOK
<1>1. CASE \E r \in Records : Produce(r)
  BY <1>1, ProduceKeeps
<1>2. CASE Start \/ ProducerStartFails
  BY <1>2, ResolveKeeps DEF Start, ProducerStartFails, kafkaVars, dbVars
<1>3. CASE ConsumerStartFails
  BY <1>3, EndKeeps DEF ConsumerStartFails, kafkaVars, dbVars, Gone
<1>4. CASE AutoCommit
  <2>1. /\ committed' \in {committed, position}
        /\ UNCHANGED <<log, base, position, next, pc, cur, attempt,
                       metrics, status, dlqTable, dlqTopic>>
    BY <1>4 DEF AutoCommit, loopVars, dbVars
  <2>2. TaskPlace' /\ DlqRowHasMessage' /\ pc' \in Places
    BY <2>1 DEF IInv, TaskPlace, DlqRowHasMessage, TypeOK, Current
  <2> QED BY <1>0, <2>1, <2>2, StepInPlace
<1>5. CASE Poll
  BY <1>5, PollKeeps
<1>6. CASE LagChecked
  <2>1. /\ pc = "lag" /\ pc' = "attempt" /\ attempt' = 0
        /\ UNCHANGED <<log, committed, base, position, next, cur,
                       metrics, status, dlqTable, dlqTopic>>
    BY <1>6 DEF LagChecked, kafkaVars, dbVars
  <2>2. TaskPlace' /\ DlqRowHasMessage' /\ pc' \in Places /\ attempt' \in 0..MaxRetries
    BY <2>1, SettingsAssumption DEF IInv, TaskPlace, DlqRowHasMessage, Places, InBatch
  <2> QED BY <1>0, <2>1, <2>2, StepInPlace
<1>7. CASE Ingest
  BY <1>7, IngestKeeps
<1>8. CASE AttemptFails
  BY <1>0, <1>8, ExceptKeeps DEF AttemptFails, kafkaVars, dbVars
<1>9. CASE CommitUnacknowledged
  <2>1. next[cur] < position[cur]
    BY <1>9 DEF IInv, CommitUnacknowledged, TaskPlace, InBatch
  <2>2. /\ metrics \subseteq metrics' /\ metrics' \subseteq QueryEvents
        /\ status' = status \/ (Current \in Heartbeats /\ status' = Current)
    BY <1>9, <2>1, PersistEffect DEF IInv, CommitUnacknowledged
  <2> QED BY <1>9, <2>2, ExceptKeeps DEF CommitUnacknowledged, kafkaVars
<1>10. CASE BackoffElapsed
  <2>1. /\ pc = "backoff" /\ pc' = "attempt" /\ attempt' = attempt + 1
        /\ UNCHANGED <<log, committed, base, position, next, cur,
                       metrics, status, dlqTable, dlqTopic>>
    BY <1>10 DEF BackoffElapsed, kafkaVars, dbVars
  <2>2. TaskPlace' /\ DlqRowHasMessage' /\ pc' \in Places
    BY <2>1 DEF IInv, TaskPlace, DlqRowHasMessage, Places, InBatch
  <2>3. attempt' \in 0..MaxRetries
    <3>1. attempt < MaxRetries
      BY <2>1 DEF IInv, TaskPlace
    <3> QED BY <1>0, <2>1, <3>1, SettingsAssumption
  <2> QED BY <1>0, <2>1, <2>2, <2>3, StepInPlace
<1>11. CASE PublishDlq
  BY <1>11, PublishDlqKeeps
<1>12. CASE PublishFails
  BY <1>12, EndKeeps DEF PublishFails, LastCommit, dbVars, Gone
<1>13. CASE RecordDlq
  BY <1>13, RecordDlqKeeps
<1>14. CASE RecordFails
  BY <1>14, EndKeeps DEF RecordFails, LastCommit, Gone
<1>15. CASE Stop
  BY <1>15, EndKeeps DEF Stop, LastCommit, dbVars, Gone
<1>16. CASE Crash
  BY <1>16, EndKeeps DEF Crash, kafkaVars, dbVars, Gone
<1>17. CASE UNCHANGED vars
  BY <1>17 DEF vars, IInv, TypeOK, OffsetsOrdered, TaskPlace, Current,
     OneBatchUnprocessed, Unprocessed, Span, DlqRowHasMessage,
     SettledBehindLoop, Settled, IdStored
<1> QED BY <1>1, <1>2, <1>3, <1>4, <1>5, <1>6, <1>7, <1>8, <1>9, <1>10, <1>11,
           <1>12, <1>13, <1>14, <1>15, <1>16, <1>17
        DEF Next, StartUp, Attempt, Publish, Record

-----------------------------------------------------------------------------
(* The theorems.                                                           *)

\* IInv holds in every reachable state, for every value of the constants.
THEOREM Invariance == Spec => []IInv
<1>1. Init => IInv
  BY InitInvariant
<1>2. IInv /\ [Next]_vars => IInv'
  BY NextKeeps
<1> QED BY <1>1, <1>2, PTL DEF Spec

\* Every variable has its type in every reachable state.
THEOREM TypeCorrect == Spec => []TypeOK
<1>1. IInv => TypeOK
  BY DEF IInv
<1> QED BY <1>1, Invariance, PTL

\* consumer.py never steps past a record it neither persisted nor routed to
\* the dead-letter topic, whatever fails and whenever it is restarted.
THEOREM NothingSkippedInALife == Spec => []SettledBehindLoop
<1>1. IInv => SettledBehindLoop
  BY DEF IInv
<1> QED BY <1>1, Invariance, PTL

\* dlq_events never shows a dead letter the topic does not hold.
THEOREM DlqTableSound == Spec => []DlqRowHasMessage
<1>1. IInv => DlqRowHasMessage
  BY DEF IInv
<1> QED BY <1>1, Invariance, PTL

\* Auto-commit runs ahead of the processing by one getmany batch at most.
THEOREM BoundedLoss == Spec => []AtMostOneBatchAtRisk
<1>1. IInv => AtMostOneBatchAtRisk
  <2> SUFFICES ASSUME IInv PROVE AtMostOneBatchAtRisk
    OBVIOUS
  <2>1. /\ next \in [Partitions -> Nat] /\ position \in [Partitions -> Nat]
        /\ committed \in [Partitions -> Nat \cup {NoOffset}]
    BY DEF IInv, TypeOK
  <2>2. /\ next \in [Partitions -> Int] /\ position \in [Partitions -> Int]
        /\ committed \in [Partitions -> Int]
    BY <2>1 DEF NoOffset
  <2>3. \A p \in Partitions : next[p] <= next[p] /\ committed[p] <= position[p]
    BY <2>1 DEF IInv, OffsetsOrdered
  <2>4. Cardinality(Span(next, committed)) <= Cardinality(Span(next, position))
    BY <2>2, <2>3, SpanMonotone
  <2>5. /\ Cardinality(Span(next, committed)) \in Nat
        /\ Cardinality(Span(next, position)) \in Nat
    BY <2>2, SpanFinite, FS_CardinalityType
  <2>6. Cardinality(Span(next, position)) <= MaxPollRecords
    BY DEF IInv, OneBatchUnprocessed, Unprocessed
  <2> QED BY <2>4, <2>5, <2>6, SettingsAssumption DEF AtMostOneBatchAtRisk, AtRisk
<1> QED BY <1>1, Invariance, PTL

-----------------------------------------------------------------------------
(* The refinement.                                                         *)

\* Every commit is of all partitions at once.
CommitsTogether ==
    \A p, q \in Partitions : committed[p] = NoOffset => committed[q] = NoOffset

\* A step that leaves the commits alone or commits the positions.
LEMMA TogetherKept ==
    ASSUME TypeOK, CommitsTogether, committed' = committed \/ committed' = position
    PROVE  CommitsTogether'
BY DEF CommitsTogether, TypeOK, NoOffset

\* Every step keeps it.
LEMMA CommitsOfAll == IInv /\ CommitsTogether /\ [Next]_vars => CommitsTogether'
<1> SUFFICES ASSUME IInv, CommitsTogether, [Next]_vars PROVE CommitsTogether'
  OBVIOUS
<1>1. committed' = committed \/ committed' = position
  BY DEF Next, vars, Produce, StartUp, Start, ConsumerStartFails, ProducerStartFails,
     AutoCommit, Poll, LagChecked, Attempt, Ingest, AttemptFails, CommitUnacknowledged,
     BackoffElapsed, Publish, PublishDlq, PublishFails, Record, RecordDlq, RecordFails,
     Stop, Crash, LastCommit, kafkaVars
<1> QED BY <1>1, TogetherKept DEF IInv

\* The commit of the positions makes an offset known.
LEMMA CommitIsKnown ==
    ASSUME TypeOK, committed' = position
    PROVE  OffsetKnown' = TRUE
<1>1. \A p \in Partitions : committed'[p] # NoOffset
  BY DEF TypeOK, NoOffset
<1> QED BY <1>1, PartitionsAssumption DEF OffsetKnown

\* The commit on the way out of the loop may be the first.
LEMMA CommitMayBeKnown ==
    ASSUME TypeOK, LastCommit
    PROVE  Delivery!MayRemember
<1>1. CASE committed' = committed
  <2>1. OffsetKnown' = OffsetKnown
    BY <1>1 DEF OffsetKnown
  <2> QED BY <2>1 DEF Delivery!MayRemember
<1>2. CASE committed' = position
  BY <1>2, CommitIsKnown DEF Delivery!MayRemember
<1> QED BY <1>1, <1>2 DEF LastCommit

\* The record in process is the message at the cursor of its partition.
LEMMA CurrentIsAt ==
    ASSUME IInv, pc \in InBatch
    PROVE  cur \in Partitions /\ Current \in Records /\ Delivery!At(cur, Current)
<1>1. next[cur] < position[cur] /\ TypeOK /\ OffsetsOrdered
  BY DEF IInv, TaskPlace
<1>2. next[cur] + 1 \in 1..Len(log[cur]) /\ Current \in Records
  BY <1>1, CurrentRecord
<1>3. cur \in Partitions /\ next[cur] \in Nat /\ log[cur] \in Seq(Records)
  BY <1>1 DEF TypeOK
<1>4. next[cur] < Len(log[cur])
  BY <1>2, <1>3
<1> QED BY <1>2, <1>3, <1>4 DEF Delivery!At, Current

\* What a transaction leaves is one of the effects.
LEMMA PersistIsEffect ==
    ASSUME IInv, pc \in InBatch, Ingestible(Current), Persist(Current), dlqTopic' = dlqTopic
    PROVE  Delivery!Effect(Current)
<1>1. Current \in QueryEvents \cup Heartbeats
  BY CurrentIsAt DEF Records, Ingestible
<1>2. CASE Current \in QueryEvents /\ ~IsDuplicate(Current)
  <2>1. Current \notin Heartbeats /\ ~Delivery!HasRow(Current)
    BY <1>2, RecordsAssumption DEF IsDuplicate, IdStored, Delivery!HasRow
  <2> QED BY <1>2, <2>1 DEF Persist, Delivery!Effect
<1>3. CASE Current \in QueryEvents /\ IsDuplicate(Current)
  <2>1. Current \notin Heartbeats
    BY <1>3, RecordsAssumption
  <2> QED BY <1>3, <2>1 DEF Persist, Delivery!Effect, Delivery!marks
<1>4. CASE Current \in Heartbeats
  <2>1. Current \notin QueryEvents
    BY <1>4, RecordsAssumption
  <2> QED BY <1>4, <2>1 DEF Persist, Delivery!Effect
<1> QED BY <1>1, <1>2, <1>3, <1>4

\* Work on the record in process.
LEMMA WorkOnCurrent ==
    ASSUME IInv, pc \in InBatch, Delivery!Effect(Current), log' = log, next' = next, LastCommit
    PROVE  Delivery!Next
<1>1. cur \in Partitions /\ Current \in Records /\ Delivery!At(cur, Current)
  BY CurrentIsAt
<1>2. Delivery!MayRemember
  BY CommitMayBeKnown DEF IInv
<1>3. Delivery!Work(cur, Current)
  BY <1>1, <1>2 DEF Delivery!Work
<1> QED BY <1>1, <1>3 DEF Delivery!Next

\* A message about the record in process, or none.
LEMMA LetterIsEffect ==
    ASSUME metrics' = metrics, status' = status,
           dlqTopic' \in {dlqTopic, AddOne(dlqTopic, Current)}
    PROVE  Delivery!Effect(Current)
BY DEF Delivery!Effect, Delivery!marks, AddOne

\* A step past the record in process.
LEMMA PastCurrent ==
    ASSUME IInv, pc \in InBatch, Delivery!Effect(Current), Advance, log' = log,
           committed' = committed,
           NEW r, r = Current, Delivery!Accounted(r)'
    PROVE  Delivery!Next
<1>1. cur \in Partitions /\ r \in Records /\ Delivery!At(cur, r)
  BY CurrentIsAt
<1>2. OffsetKnown' = OffsetKnown
  BY DEF OffsetKnown
<1>3. next' = [next EXCEPT ![cur] = @ + 1]
  BY DEF Advance
<1>4. Delivery!StepPast(cur, r)
  BY <1>1, <1>2, <1>3 DEF Delivery!StepPast
<1> QED BY <1>1, <1>4 DEF Delivery!Next

\* Where a life of the consumer begins.
LEMMA StartIsRestart ==
    ASSUME IInv, CommitsTogether, ResolvePositions,
           UNCHANGED <<log, committed, metrics, status, dlqTopic>>
    PROVE  Delivery!Next
<1>1. /\ log \in [Partitions -> Seq(Records)] /\ next \in [Partitions -> Nat]
      /\ position \in [Partitions -> Nat]
      /\ committed \in [Partitions -> Nat \cup {NoOffset}]
  BY DEF IInv, TypeOK
<1>2. next' = [p \in Partitions |-> StartOffset(p)]
  BY DEF ResolvePositions
<1>3. \A p \in Partitions : Len(log[p]) \in Nat
  BY <1>1
<1>4. \A p \in Partitions : StartOffset(p) \in Nat /\ StartOffset(p) <= Len(log[p])
  <2> TAKE p \in Partitions
  <2>1. CASE committed[p] = NoOffset
    BY <1>3, <2>1 DEF StartOffset
  <2>2. CASE committed[p] # NoOffset
    <3>1. committed[p] \in Nat /\ position[p] \in Nat
      BY <1>1, <2>2
    <3>2. committed[p] <= position[p] /\ position[p] <= Len(log[p])
      BY DEF IInv, OffsetsOrdered
    <3> QED BY <1>3, <2>2, <3>1, <3>2 DEF StartOffset
  <2> QED BY <2>1, <2>2
<1>5. next' \in [Partitions -> Nat] /\ \A p \in Partitions : next'[p] <= Len(log[p])
  BY <1>2, <1>4
<1>6. CASE OffsetKnown
  <2>1. \A p \in Partitions : committed[p] # NoOffset
    BY <1>6 DEF OffsetKnown, CommitsTogether
  <2>2. committed \in [Partitions -> Nat]
    BY <1>1, <2>1
  <2>3. next' = committed
    BY <1>2, <2>1, <2>2 DEF StartOffset
  <2>4. /\ next \in [Partitions -> Int] /\ committed \in [Partitions -> Int]
        /\ position \in [Partitions -> Int]
    BY <1>1, <2>2
  <2>5. \A p \in Partitions : next[p] <= next[p] /\ committed[p] <= position[p]
    BY <1>1 DEF IInv, OffsetsOrdered
  <2>6. Cardinality(Span(next, committed)) <= Cardinality(Span(next, position))
    BY <2>4, <2>5, SpanMonotone
  <2>7. /\ Cardinality(Span(next, committed)) \in Nat
        /\ Cardinality(Span(next, position)) \in Nat
    BY <2>4, SpanFinite, FS_CardinalityType
  <2>8. Cardinality(Span(next, position)) <= MaxPollRecords
    BY DEF IInv, OneBatchUnprocessed, Unprocessed
  <2>9. Cardinality(Span(next, committed)) <= MaxPollRecords
    BY <2>6, <2>7, <2>8, SettingsAssumption
  <2>10. Delivery!LeftOut(next, next') = Span(next, committed)
    BY <2>3 DEF Delivery!LeftOut, Span
  <2>11. Cardinality(Delivery!LeftOut(next, next')) <= MaxPollRecords
    BY <2>9, <2>10
  <2>12. OffsetKnown' = OffsetKnown
    BY DEF OffsetKnown
  <2>13. IF OffsetKnown
         THEN Cardinality(Delivery!LeftOut(next, next')) <= MaxPollRecords
         ELSE \A p \in Partitions : next'[p] = Len(log[p])
    BY <1>6, <2>11
  <2>14. UNCHANGED <<log, OffsetKnown, Delivery!marks>>
    BY <2>12 DEF Delivery!marks
  \* The abstract specification's Cardinality is this one.
  <2>15. \A S : Delivery!Cardinality(S) = Cardinality(S)
    BY DEF Delivery!Cardinality, Cardinality
  <2>16. Delivery!Restart
    BY <1>5, <2>13, <2>14, <2>15, Zenon DEF Delivery!Restart, Delivery!marks
  <2> QED BY <2>16 DEF Delivery!Next
<1>7. CASE ~OffsetKnown
  <2>1. \A p \in Partitions : next'[p] = Len(log[p])
    BY <1>2, <1>7 DEF OffsetKnown, StartOffset
  <2>2. OffsetKnown' = OffsetKnown
    BY DEF OffsetKnown
  <2>3. Delivery!Restart
    BY <1>5, <1>7, <2>1, <2>2 DEF Delivery!Restart, Delivery!marks
  <2> QED BY <2>3 DEF Delivery!Next
<1> QED BY <1>6, <1>7

\* A step that shows nothing.
LEMMA Unseen ==
    ASSUME UNCHANGED <<log, committed, next, metrics, status, dlqTopic>>
    PROVE  UNCHANGED Delivery!vars
BY DEF Delivery!vars, Delivery!marks, OffsetKnown

\* A commit and nothing else, or not even that.
LEMMA CommitAlone ==
    ASSUME TypeOK, LastCommit, UNCHANGED <<log, next, metrics, status, dlqTopic>>
    PROVE  [Delivery!Next]_(Delivery!vars)
<1>1. CASE committed' = committed
  BY <1>1, Unseen
<1>2. CASE committed' = position
  <2>1. Delivery!Remember
    BY <1>2, CommitIsKnown DEF Delivery!Remember, Delivery!marks
  <2> QED BY <2>1 DEF Delivery!Next
<1> QED BY <1>1, <1>2 DEF LastCommit

\* Every step of the consumer is a step of its promise, or shows nothing.
LEMMA DeliversNext ==
    IInv /\ CommitsTogether /\ [Next]_vars => [Delivery!Next]_(Delivery!vars)
<1> SUFFICES ASSUME IInv, CommitsTogether, [Next]_vars
             PROVE  [Delivery!Next]_(Delivery!vars)
  OBVIOUS
<1>0. TypeOK
  BY DEF IInv
<1>1. ASSUME NEW r \in Records, Produce(r) PROVE Delivery!Next
  <2>1. /\ PartitionOf[r] \in Partitions
        /\ log' = [log EXCEPT ![PartitionOf[r]] = Append(@, r)]
        /\ UNCHANGED <<committed, next, metrics, status, dlqTopic>>
    BY <1>1, RecordsAssumption DEF Produce, loopVars, dbVars
  <2>2. OffsetKnown' = OffsetKnown
    BY <2>1 DEF OffsetKnown
  <2>3. Delivery!Append1(PartitionOf[r], r)
    BY <2>1, <2>2 DEF Delivery!Append1, Delivery!marks
  <2> QED BY <2>1, <2>3 DEF Delivery!Next
<1>2. CASE Start \/ ProducerStartFails
  BY <1>2, StartIsRestart DEF Start, ProducerStartFails, kafkaVars, dbVars
<1>3. CASE ConsumerStartFails \/ Poll \/ LagChecked \/ AttemptFails \/ BackoffElapsed \/ Crash
  BY <1>3, Unseen DEF ConsumerStartFails, Poll, LagChecked, AttemptFails, Except,
     BackoffElapsed, Crash, kafkaVars, dbVars
<1>4. CASE AutoCommit
  BY <1>0, <1>4, CommitAlone DEF AutoCommit, LastCommit, loopVars, dbVars
<1>5. CASE Ingest
  <2>1. /\ pc \in InBatch /\ Ingestible(Current) /\ Persist(Current) /\ Advance
        /\ log' = log /\ committed' = committed /\ dlqTopic' = dlqTopic
    BY <1>5 DEF Ingest, InBatch, kafkaVars
  <2>2. Delivery!Effect(Current)
    BY <2>1, PersistIsEffect
  <2>3. next[cur] < position[cur] /\ OffsetsOrdered
    BY <2>1 DEF IInv, TaskPlace
  <2>4. \/ /\ Current \in QueryEvents
           /\ \E m \in metrics' : EventId[m] = EventId[Current]
        \/ Current \in Heartbeats /\ status' = Current
    BY <1>0, <2>1, <2>3, PersistEffect
  <2>5. ASSUME NEW r, r = Current PROVE Delivery!Accounted(r)'
    BY <2>4, <2>5 DEF Delivery!Accounted, Delivery!HasRow
  <2>6. Delivery!Next
    BY <2>1, <2>2, <2>5, PastCurrent
  <2> QED BY <2>6
<1>6. CASE CommitUnacknowledged
  <2>1. /\ pc \in InBatch /\ Ingestible(Current) /\ Persist(Current)
        /\ log' = log /\ committed' = committed /\ dlqTopic' = dlqTopic /\ next' = next
    BY <1>6 DEF CommitUnacknowledged, InBatch, kafkaVars, Except
  <2>2. Delivery!Effect(Current)
    BY <2>1, PersistIsEffect
  <2> QED BY <2>1, <2>2, WorkOnCurrent DEF LastCommit
<1>7. CASE PublishDlq \/ PublishFails \/ RecordFails \/ (Stop /\ pc = "publish")
  <2>1. /\ pc \in InBatch /\ log' = log /\ next' = next /\ LastCommit
        /\ metrics' = metrics /\ status' = status
        /\ dlqTopic' \in {dlqTopic, AddOne(dlqTopic, Current)}
    BY <1>7 DEF PublishDlq, PublishFails, RecordFails, Stop, InBatch, LastCommit, kafkaVars,
       dbVars
  <2> QED BY <2>1, LetterIsEffect, WorkOnCurrent
<1>8. CASE RecordDlq
  <2>1. /\ pc \in InBatch /\ pc = "record" /\ Advance
        /\ UNCHANGED <<log, committed, metrics, status, dlqTopic>>
    BY <1>8 DEF RecordDlq, InBatch, kafkaVars
  <2>2. Delivery!Effect(Current)
    BY <2>1, LetterIsEffect
  <2>3. Current \in Records /\ dlqTable[Current] < dlqTopic[Current]
    BY <2>1, CurrentIsAt DEF IInv, TaskPlace
  <2>4. dlqTopic[Current] > 0
    <3>1. dlqTable[Current] \in Nat /\ dlqTopic[Current] \in Nat
      BY <1>0, <2>3 DEF TypeOK
    <3> QED BY <2>3, <3>1
  <2>5. ASSUME NEW r, r = Current PROVE Delivery!Accounted(r)'
    BY <2>1, <2>4, <2>5 DEF Delivery!Accounted
  <2>6. Delivery!Next
    BY <2>1, <2>2, <2>5, PastCurrent
  <2> QED BY <2>6
<1>9. CASE Stop /\ pc # "publish"
  BY <1>0, <1>9, CommitAlone DEF Stop, dbVars
<1>10. CASE UNCHANGED vars
  BY <1>10, Unseen DEF vars
<1> QED BY <1>1, <1>2, <1>3, <1>4, <1>5, <1>6, <1>7, <1>8, <1>9, <1>10
        DEF Next, StartUp, Attempt, Publish, Record

\* The consumer keeps the promise of BoundedLossDelivery.
THEOREM Refinement == Spec => ImplementsDelivery
<1>1. Init => Delivery!Init
  <2> SUFFICES ASSUME Init PROVE Delivery!Init
    OBVIOUS
  <2>1. OffsetKnown = FALSE
    BY DEF Init, OffsetKnown
  <2> QED BY <2>1 DEF Init, Delivery!Init
<1>2. Init => CommitsTogether
  BY DEF Init, CommitsTogether
<1> QED BY <1>1, <1>2, CommitsOfAll, DeliversNext, Invariance, PTL
        DEF Spec, ImplementsDelivery, Delivery!Spec

-----------------------------------------------------------------------------
(* Failed attempts and dead letters.                                       *)

\* While a record that can be ingested is in process, the failures counted so
\* far cover its attempts; it leaves for the dead-letter topic on its last.
FailuresCounted ==
    pc \in InBatch /\ Current \notin Malformed =>
        /\ pc = "attempt" => attempt <= attemptFaults
        /\ pc = "backoff" => attempt + 1 <= attemptFaults
        /\ pc \in {"publish", "record"} => MaxRetries + 1 <= attemptFaults

CountInv == attemptFaults \in Nat /\ FailuresCounted /\ NoSpuriousDeadLetter

\* The budgeted steps are steps of the specification.
LEMMA BudgetedSteps ==
    /\ MCInit => Init
    /\ [MCNext]_mcVars => [Next]_vars
<1>1. MCInit => Init
  BY DEF MCInit
<1>2. MCTask => Next
  BY DEF MCTask, ChargedAttempt, Next, Attempt, Publish, Record
<1>3. Outage => Next
  BY DEF Outage, Next, StartUp, Publish, Record
<1>4. Restart => Next
  BY DEF Restart, Next
<1>5. [MCNext]_mcVars => [Next]_vars
  BY <1>2, <1>3, <1>4 DEF MCNext, mcVars, Next, StartUp
<1> QED BY <1>1, <1>5

\* The same invariant under the bounds of the runs, whose budgets only take
\* steps away.
THEOREM BudgetedInvariance == MCSpec => []IInv
BY BudgetedSteps, InitInvariant, NextKeeps, PTL DEF MCSpec

\* The duplicate check leaves the unique index nothing to reject: whatever
\* parses can be ingested.
LEMMA OnlyMalformedFail ==
    ASSUME NEW r, r \notin Malformed
    PROVE  Ingestible(r)
BY DEF Ingestible, IsDuplicate

\* The record in process stays the same as long as the loop does not move.
LEMMA CurrentStays ==
    ASSUME IInv, pc \in InBatch, next' = next, cur' = cur,
           log' = log \/ \E r \in Records : Produce(r)
    PROVE  Current' = Current
<1>1. CASE log' = log
  BY <1>1 DEF Current
<1>2. CASE \E r \in Records : Produce(r)
  <2>1. PICK r \in Records : log' = [log EXCEPT ![PartitionOf[r]] = Append(@, r)]
    BY <1>2 DEF Produce
  <2>2. /\ next[cur] + 1 \in 1..Len(log[cur]) /\ cur \in Partitions
        /\ log \in [Partitions -> Seq(Records)]
    BY CurrentRecord DEF IInv, TaskPlace, TypeOK
  <2>3. log'[cur] = IF cur = PartitionOf[r] THEN Append(log[cur], r) ELSE log[cur]
    BY <2>1, <2>2
  <2>4. log[cur] \in Seq(Records)
    BY <2>2
  <2>5. log'[cur][next[cur] + 1] = log[cur][next[cur] + 1]
    BY <2>2, <2>3, <2>4
  <2> QED BY <2>5 DEF Current
<1> QED BY <1>1, <1>2

\* A step that leaves the loop, the counter and the dead letters alone.
LEMMA CountSame ==
    ASSUME IInv, CountInv, attemptFaults' = attemptFaults, dlqTopic' = dlqTopic,
           pc' = pc, next' = next, cur' = cur, attempt' = attempt,
           log' = log \/ \E r \in Records : Produce(r)
    PROVE  CountInv'
<1>1. pc \in InBatch => Current' = Current
  BY CurrentStays
<1>2. FailuresCounted'
  BY <1>1 DEF CountInv, FailuresCounted
<1> QED BY <1>2 DEF CountInv, NoSpuriousDeadLetter

\* A step to a place where nothing has been tried yet, or nothing is in process.
LEMMA CountFresh ==
    ASSUME CountInv, attemptFaults' = attemptFaults, dlqTopic' = dlqTopic,
           pc' \notin {"backoff", "publish", "record"},
           pc' = "attempt" => attempt' = 0
    PROVE  CountInv'
<1>1. FailuresCounted'
  BY DEF CountInv, FailuresCounted
<1> QED BY <1>1 DEF CountInv, NoSpuriousDeadLetter

\* A message about the record in process reaches the dead-letter topic.
LEMMA DeadLetterEarned ==
    ASSUME IInv, CountInv, pc = "publish", attemptFaults' = attemptFaults,
           dlqTopic' = AddOne(dlqTopic, Current)
    PROVE  NoSpuriousDeadLetter'
<1>1. Current \in Records /\ dlqTopic \in [Records -> Nat]
  BY CurrentRecord DEF IInv, TaskPlace, TypeOK, InBatch
<1>2. SUFFICES ASSUME NEW r \in Records \ Malformed, dlqTopic'[r] > 0
               PROVE  attemptFaults >= MaxRetries + 1
  BY DEF NoSpuriousDeadLetter
<1>3. attemptFaults \in Nat /\ MaxRetries \in Nat
  BY SettingsAssumption DEF CountInv
<1>4. CASE r = Current
  <2>1. MaxRetries + 1 <= attemptFaults
    BY <1>2, <1>4 DEF CountInv, FailuresCounted, InBatch
  <2> QED BY <1>3, <2>1
<1>5. CASE r # Current
  <2>1. dlqTopic'[r] = dlqTopic[r]
    BY <1>1, <1>5, AddOneCounts
  <2> QED BY <1>2, <2>1 DEF CountInv, NoSpuriousDeadLetter
<1> QED BY <1>4, <1>5

\* A failed attempt was counted, or its record is malformed.
LEMMA ExceptCounts ==
    ASSUME IInv, CountInv, pc = "attempt", Except, log' = log, dlqTopic' = dlqTopic,
           \/ Current \in Malformed /\ attemptFaults' = attemptFaults
           \/ attemptFaults' = attemptFaults + 1
    PROVE  CountInv'
<1>1. /\ attempt \in 0..MaxRetries /\ MaxRetries \in Nat /\ attemptFaults \in Nat
      /\ attemptFaults' \in Nat
  BY SettingsAssumption DEF IInv, TypeOK, CountInv
<1>2. /\ next' = next /\ cur' = cur /\ attempt' = attempt
      /\ pc' = IF attempt < MaxRetries THEN "backoff" ELSE "publish"
  BY DEF Except
<1>3. Current' = Current
  BY <1>2, CurrentStays DEF InBatch
<1>4. FailuresCounted'
  <2>1. SUFFICES ASSUME Current \notin Malformed
        PROVE  /\ pc' = "attempt" => attempt' <= attemptFaults'
               /\ pc' = "backoff" => attempt' + 1 <= attemptFaults'
               /\ pc' \in {"publish", "record"} => MaxRetries + 1 <= attemptFaults'
    BY <1>3 DEF FailuresCounted
  <2>2. attempt <= attemptFaults /\ attemptFaults' = attemptFaults + 1
    BY <2>1 DEF CountInv, FailuresCounted, InBatch
  <2> QED BY <1>1, <1>2, <2>2
<1>5. NoSpuriousDeadLetter'
  <2>1. attemptFaults <= attemptFaults'
    BY <1>1
  <2> QED BY <1>1, <2>1 DEF CountInv, NoSpuriousDeadLetter
<1> QED BY <1>1, <1>4, <1>5 DEF CountInv

\* The task or the process ends.
LEMMA EndCounts ==
    ASSUME IInv, CountInv, pc' \in Gone, attemptFaults' = attemptFaults,
           \/ dlqTopic' = dlqTopic
           \/ pc = "publish" /\ dlqTopic' = AddOne(dlqTopic, Current)
    PROVE  CountInv'
<1>1. FailuresCounted'
  BY DEF FailuresCounted, Gone, InBatch
<1>2. NoSpuriousDeadLetter'
  BY DeadLetterEarned DEF CountInv, NoSpuriousDeadLetter
<1> QED BY <1>1, <1>2 DEF CountInv

\* Every step keeps the count.
LEMMA CountKept == IInv /\ CountInv /\ [MCNext]_mcVars => CountInv'
<1> SUFFICES ASSUME IInv, CountInv, [MCNext]_mcVars PROVE CountInv'
  OBVIOUS
<1>1. CASE (\E r \in Records : Produce(r)) /\ UNCHANGED attemptFaults
  BY <1>1, CountSame DEF Produce, loopVars
<1>2. CASE Start /\ UNCHANGED attemptFaults
  BY <1>2, CountFresh DEF Start
<1>3. CASE AutoCommit /\ UNCHANGED attemptFaults
  BY <1>3, CountSame DEF AutoCommit, loopVars
<1>4. CASE Poll /\ UNCHANGED attemptFaults
  BY <1>4, CountFresh DEF Poll
<1>5. CASE LagChecked /\ UNCHANGED attemptFaults
  BY <1>5, CountFresh DEF LagChecked
<1>6. CASE BackoffElapsed /\ UNCHANGED attemptFaults
  <2>1. /\ pc = "backoff" /\ pc' = "attempt" /\ attempt' = attempt + 1
        /\ dlqTopic' = dlqTopic /\ next' = next /\ cur' = cur /\ log' = log
    BY <1>6 DEF BackoffElapsed, kafkaVars
  <2>2. Current' = Current
    BY <2>1, CurrentStays DEF InBatch
  <2>3. FailuresCounted'
    BY <1>6, <2>1, <2>2 DEF CountInv, FailuresCounted, InBatch
  <2> QED BY <1>6, <2>1, <2>3 DEF CountInv, NoSpuriousDeadLetter
<1>7. CASE PublishDlq /\ UNCHANGED attemptFaults
  <2>1. /\ pc = "publish" /\ pc' = "record" /\ dlqTopic' = AddOne(dlqTopic, Current)
        /\ next' = next /\ cur' = cur /\ log' = log
    BY <1>7 DEF PublishDlq, kafkaVars
  <2>2. Current' = Current
    BY <2>1, CurrentStays DEF InBatch
  <2>3. FailuresCounted'
    BY <1>7, <2>1, <2>2 DEF CountInv, FailuresCounted, InBatch
  <2> QED BY <1>7, <2>1, <2>3, DeadLetterEarned DEF CountInv
<1>8. CASE (Ingest \/ RecordDlq) /\ UNCHANGED attemptFaults
  <2>1. dlqTopic' = dlqTopic /\ pc' \in {"attempt", "lag", "poll"} /\ attempt' = 0
    BY <1>8 DEF Ingest, RecordDlq, Advance
  <2> QED BY <1>8, <2>1, CountFresh
<1>9. CASE AttemptFails /\ ~Ingestible(Current) /\ UNCHANGED attemptFaults
  <2>1. Current \in Malformed
    BY <1>9, OnlyMalformedFail
  <2> QED BY <1>9, <2>1, ExceptCounts DEF AttemptFails, kafkaVars
<1>10. CASE (AttemptFails \/ CommitUnacknowledged) /\ attemptFaults' = attemptFaults + 1
  BY <1>10, ExceptCounts DEF AttemptFails, CommitUnacknowledged, kafkaVars
<1>11. CASE (ConsumerStartFails \/ ProducerStartFails) /\ UNCHANGED attemptFaults
  BY <1>11, EndCounts DEF ConsumerStartFails, ProducerStartFails, Gone
<1>12. CASE (PublishFails \/ RecordFails) /\ UNCHANGED attemptFaults
  BY <1>12, EndCounts DEF PublishFails, RecordFails, Gone
<1>13. CASE (Stop \/ Crash) /\ UNCHANGED attemptFaults
  BY <1>13, EndCounts DEF Stop, Crash, Gone
<1>14. CASE UNCHANGED mcVars
  BY <1>14, CountSame DEF mcVars, vars
<1> QED BY <1>1, <1>2, <1>3, <1>4, <1>5, <1>6, <1>7, <1>8, <1>9, <1>10, <1>11, <1>12,
           <1>13, <1>14
        DEF MCNext, MCTask, ChargedAttempt, Outage, Restart

\* However often the consumer crashes, is stopped or polls a record again, a
\* record that can be ingested is dead-lettered only after as many failures as
\* it has attempts.
THEOREM DeadLettersEarned == MCSpec => []NoSpuriousDeadLetter
<1>1. MCInit => CountInv
  BY DEF MCInit, Init, CountInv, FailuresCounted, InBatch, NoSpuriousDeadLetter
<1>2. CountInv => NoSpuriousDeadLetter
  BY DEF CountInv
<1> QED BY <1>1, <1>2, CountKept, BudgetedInvariance, PTL DEF MCSpec
=============================================================================
