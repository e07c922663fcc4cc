------------------------- MODULE IngestTransactions -------------------------
(***************************************************************************)
(* Concurrent writers of the PlanTrace database.  Consumer workers ingest  *)
(* one event per transaction (streaming/ingest.py, retried by consumer.py) *)
(* and collection runs store a whole pg_stat_statements snapshot in one    *)
(* transaction (core/collector.py).  Both look a row up first and insert   *)
(* it if it is missing; the unique indexes on query_metrics.event_id and   *)
(* query_fingerprints.fingerprint_hash decide the races.                   *)
(*                                                                         *)
(* PostgreSQL at READ COMMITTED: a statement sees committed rows and its   *)
(* own; inserting a key another open transaction has inserted waits for    *)
(* that transaction to end, and so does updating a row it has updated; a   *)
(* cycle of waits is broken by failing one transaction of the cycle.       *)
(* Messages with one event id (redelivered, or produced twice) are one     *)
(* element of Events, and any worker may be handed it at any time.         *)
(***************************************************************************)
EXTENDS Integers, Sequences, FiniteSets

CONSTANTS
    Workers,        \* consumer tasks, one session each
    Runs,           \* callers of run_collection
    Events,         \* event ids of query telemetry messages
    Fingerprints,   \* fingerprint hashes
    FpOf,           \* [Events -> Fingerprints]
    StatRows,       \* results of PG_STAT_QUERY, as sequences of fingerprints
    MaxRetries,     \* settings.KAFKA_CONSUMER_MAX_RETRIES
    NoEvent

Writers == Workers \cup Runs
Keys == Events \cup Fingerprints

ASSUME WritersAssumption == Workers \cap Runs = {}
ASSUME KeysAssumption ==
    /\ Events \cap Fingerprints = {}
    /\ FpOf \in [Events -> Fingerprints]
    /\ NoEvent \notin Events
    /\ StatRows \subseteq Seq(Fingerprints)
ASSUME RetriesAssumption == MaxRetries \in Nat

VARIABLES
    table,      \* keys of committed rows
    held,       \* writer -> keys its open transaction has inserted
    touched,    \* run -> fingerprint rows its open transaction has updated
    pc,         \* writer -> the statement it executes next
    event,      \* worker -> the event being ingested, or NoEvent
    attempt,    \* worker -> attempt number
    races,      \* worker -> unique violations met since the event arrived
    found,      \* worker -> the attempt has added a regression row
    todo,       \* run -> snapshot rows left
    written,    \* run -> snapshot rows its open transaction has stored
    captured,   \* run -> query_metrics rows its last transaction has committed
    regRows,    \* event -> committed query_regressions rows
    regCount    \* the counter regression_events_total

store == <<table, regRows>>
snapshots == <<todo, written, captured>>
vars == <<table, held, touched, pc, event, attempt, races, found, todo,
          written, captured, regRows, regCount>>

WorkerPlaces == {"idle", "check", "fp", "fpInsert", "metric", "detect",
                 "commit", "backoff"}
RunPlaces == {"idle", "fp", "fpInsert", "touch", "commit"}

TypeOK ==
    /\ table \subseteq Keys
    /\ held \in [Writers -> SUBSET Keys]
    /\ touched \in [Runs -> SUBSET Fingerprints]
    /\ pc \in [Writers -> WorkerPlaces \cup RunPlaces]
    /\ \A w \in Workers : pc[w] \in WorkerPlaces
    /\ \A c \in Runs : pc[c] \in RunPlaces
    /\ event \in [Workers -> Events \cup {NoEvent}]
    /\ attempt \in [Workers -> 0..MaxRetries]
    /\ races \in [Workers -> Nat]
    /\ found \in [Workers -> BOOLEAN]
    /\ todo \in [Runs -> Seq(Fingerprints)]
    /\ written \in [Runs -> Seq(Fingerprints)]
    /\ captured \in [Runs -> Seq(Fingerprints)]
    /\ regRows \in [Events -> Nat]
    /\ regCount \in Nat

Init ==
    /\ table = {}
    /\ held = [w \in Writers |-> {}]
    /\ touched = [c \in Runs |-> {}]
    /\ pc = [w \in Writers |-> "idle"]
    /\ event = [w \in Workers |-> NoEvent]
    /\ attempt = [w \in Workers |-> 0]
    /\ races = [w \in Workers |-> 0]
    /\ found = [w \in Workers |-> FALSE]
    /\ todo = [c \in Runs |-> <<>>]
    /\ written = [c \in Runs |-> <<>>]
    /\ captured = [c \in Runs |-> <<>>]
    /\ regRows = [e \in Events |-> 0]
    /\ regCount = 0

-----------------------------------------------------------------------------
(* The database.                                                           *)

\* The rows a statement of writer w sees.
Visible(w) == table \cup held[w]

\* The next statement of w must lock the key or row k.
Wants(w, k) ==
    \/ w \in Workers /\ pc[w] = "fpInsert" /\ k = FpOf[event[w]]
    \/ w \in Workers /\ pc[w] = "metric" /\ k = event[w]
    \/ w \in Runs /\ pc[w] \in {"fpInsert", "touch"} /\ k = Head(todo[w])

\* v has inserted the key that w inserts, or updated the row that w updates.
WaitsFor(w, v) ==
    /\ v # w
    /\ \/ pc[w] # "touch" /\ \E k \in held[v] : Wants(w, k)
       \/ pc[w] = "touch" /\ v \in Runs /\ \E k \in touched[v] : Wants(w, k)

Blocked(w) == \E v \in Writers : WaitsFor(w, v)

\* Every writer of S waits for one of S and keeps one of S waiting.
Deadlocked(S) ==
    /\ S # {}
    /\ \A w \in S : (\E v \in S : WaitsFor(w, v)) /\ (\E v \in S : WaitsFor(v, w))

Goto(w, place) == pc' = [pc EXCEPT ![w] = place]

-----------------------------------------------------------------------------
(* A consumer worker: one event, one session per attempt.                  *)

\* The record loop hands an event to _process_with_retry.
Deliver(w, e) ==
    /\ pc[w] = "idle"
    /\ event' = [event EXCEPT ![w] = e]
    /\ attempt' = [attempt EXCEPT ![w] = 0]
    /\ races' = [races EXCEPT ![w] = 0]
    /\ Goto(w, "check")
    /\ UNCHANGED <<store, held, touched, found, snapshots, regCount>>

\* SELECT by event_id: a duplicate is skipped, its transaction is empty.
CheckDuplicate(w) ==
    /\ pc[w] = "check"
    /\ Goto(w, IF event[w] \in Visible(w) THEN "commit" ELSE "fp")
    /\ UNCHANGED <<store, held, touched, event, attempt, races, found, snapshots,
                   regCount>>

\* Mutant of FindFp: the fingerprint is inserted without looking it up.
FindFp_NoLookup(w) ==
    /\ pc[w] = "fp"
    /\ Goto(w, "fpInsert")
    /\ UNCHANGED <<store, held, touched, event, attempt, races, found, snapshots,
                   regCount>>

\* _upsert_fp: SELECT by fingerprint_hash.
FindFp(w) ==
    /\ pc[w] = "fp"
    /\ Goto(w, IF FpOf[event[w]] \in Visible(w) THEN "metric" ELSE "fpInsert")
    /\ UNCHANGED <<store, held, touched, event, attempt, races, found, snapshots,
                   regCount>>

\* Mutant of Fail: one attempt too many.
Fail_OffByOne(w) ==
    /\ held' = [held EXCEPT ![w] = {}]
    /\ found' = [found EXCEPT ![w] = FALSE]
    /\ Goto(w, IF attempt[w] <= MaxRetries THEN "backoff" ELSE "idle")
    /\ UNCHANGED <<touched, event, attempt, snapshots, regCount>>

\* The transaction is rolled back; retry after a pause, or leave the
\* event to the dead-letter queue, which TelemetryConsumer models.
Fail(w) ==
    /\ held' = [held EXCEPT ![w] = {}]
    /\ found' = [found EXCEPT ![w] = FALSE]
    /\ Goto(w, IF attempt[w] < MaxRetries THEN "backoff" ELSE "idle")
    /\ UNCHANGED <<touched, event, attempt, snapshots, regCount>>

\* INSERT of the key k: a unique violation if a row has it by now.
Insert(w, k, place) ==
    /\ ~Blocked(w)
    /\ \/ /\ k \in table
          /\ races' = [races EXCEPT ![w] = @ + 1]
          /\ Fail(w)
       \/ /\ k \notin table
          /\ held' = [held EXCEPT ![w] = @ \cup {k}]
          /\ Goto(w, place)
          /\ UNCHANGED <<touched, event, attempt, races, found, snapshots, regCount>>
    /\ UNCHANGED store

InsertFp(w) == pc[w] = "fpInsert" /\ Insert(w, FpOf[event[w]], "metric")

\* Mutant of InsertMetric: event_id is not unique in query_metrics.
InsertMetric_NoUniqueIndex(w) ==
    /\ pc[w] = "metric"
    /\ held' = [held EXCEPT ![w] = @ \cup {event[w]}]
    /\ Goto(w, "detect")
    /\ UNCHANGED <<store, touched, event, attempt, races, found, snapshots, regCount>>

InsertMetric(w) == pc[w] = "metric" /\ Insert(w, event[w], "detect")

\* detect_regressions: rows are added to the session and counted at once.
Detect(w) ==
    /\ pc[w] = "detect"
    /\ \/ found' = [found EXCEPT ![w] = TRUE] /\ regCount' = regCount + 1
       \/ UNCHANGED <<found, regCount>>
    /\ Goto(w, "commit")
    /\ UNCHANGED <<store, held, touched, event, attempt, races, snapshots>>

\* What COMMIT makes durable.
Publish(w) ==
    /\ table' = table \cup held[w]
    /\ regRows' = IF found[w] THEN [regRows EXCEPT ![event[w]] = @ + 1] ELSE regRows

\* Mutant of Commit: the session is committed once per batch, not per record.
Commit_PerBatch(w) ==
    /\ pc[w] = "commit"
    /\ \/ Publish(w) /\ held' = [held EXCEPT ![w] = {}]
       \/ UNCHANGED <<store, held>>
    /\ found' = [found EXCEPT ![w] = FALSE]
    /\ Goto(w, "idle")
    /\ UNCHANGED <<touched, event, attempt, races, snapshots, regCount>>

Commit(w) ==
    /\ pc[w] = "commit"
    /\ Publish(w)
    /\ held' = [held EXCEPT ![w] = {}]
    /\ found' = [found EXCEPT ![w] = FALSE]
    /\ Goto(w, "idle")
    /\ UNCHANGED <<touched, event, attempt, races, snapshots, regCount>>

\* Any statement may raise for a reason of its own.
StatementFails(w) ==
    /\ pc[w] \in WorkerPlaces \ {"idle", "backoff"}
    /\ Fail(w)
    /\ UNCHANGED <<store, races>>

\* COMMIT takes effect but its acknowledgement is lost.
CommitUnacknowledged(w) ==
    /\ pc[w] = "commit"
    /\ Publish(w)
    /\ Fail(w)
    /\ UNCHANGED races

BackoffElapsed(w) ==
    /\ pc[w] = "backoff"
    /\ attempt' = [attempt EXCEPT ![w] = @ + 1]
    /\ Goto(w, "check")
    /\ UNCHANGED <<store, held, touched, event, races, found, snapshots, regCount>>

\* The process or its connection dies: the open transaction is rolled back.
WorkerDies(w) ==
    /\ pc[w] # "idle"
    /\ held' = [held EXCEPT ![w] = {}]
    /\ found' = [found EXCEPT ![w] = FALSE]
    /\ Goto(w, "idle")
    /\ UNCHANGED <<store, touched, event, attempt, races, snapshots, regCount>>

-----------------------------------------------------------------------------
(* run_collection: one transaction for the whole snapshot.                 *)

runOnly == <<event, attempt, races, found, regRows, regCount>>

StartRun(c) ==
    /\ pc[c] = "idle"
    /\ \E rows \in StatRows :
         /\ todo' = [todo EXCEPT ![c] = rows]
         /\ Goto(c, IF rows = <<>> THEN "commit" ELSE "fp")
    /\ captured' = [captured EXCEPT ![c] = <<>>]
    /\ UNCHANGED <<table, held, touched, written, runOnly>>

\* _upsert_fingerprint: SELECT, then UPDATE last_seen_at or INSERT.
RunFindFp(c) ==
    /\ pc[c] = "fp"
    /\ Goto(c, IF Head(todo[c]) \in Visible(c) THEN "touch" ELSE "fpInsert")
    /\ UNCHANGED <<table, held, touched, snapshots, runOnly>>

\* The rest of the row (metric, plan, regressions, diagnostics) meets no lock.
NextRow(c) ==
    /\ written' = [written EXCEPT ![c] = Append(@, Head(todo[c]))]
    /\ todo' = [todo EXCEPT ![c] = Tail(@)]
    /\ UNCHANGED captured
    /\ Goto(c, IF Len(todo[c]) = 1 THEN "commit" ELSE "fp")

RunTouchFp(c) ==
    /\ pc[c] = "touch"
    /\ ~Blocked(c)
    /\ touched' = [touched EXCEPT ![c] = @ \cup {Head(todo[c])}]
    /\ NextRow(c)
    /\ UNCHANGED <<table, held, runOnly>>

\* Mutant of RunInsertFp: each row is committed as soon as it is stored.
RunInsertFp_CommitsRow(c) ==
    /\ pc[c] = "fpInsert"
    /\ ~Blocked(c)
    /\ Head(todo[c]) \notin table
    /\ table' = table \cup held[c] \cup {Head(todo[c])}
    /\ held' = [held EXCEPT ![c] = {}]
    /\ NextRow(c)
    /\ UNCHANGED <<touched, runOnly>>

RunInsertFp(c) ==
    /\ pc[c] = "fpInsert"
    /\ ~Blocked(c)
    /\ Head(todo[c]) \notin table
    /\ held' = [held EXCEPT ![c] = @ \cup {Head(todo[c])}]
    /\ NextRow(c)
    /\ UNCHANGED <<table, touched, runOnly>>

\* The transaction ends and its locks are released.
EndRun(c) ==
    /\ held' = [held EXCEPT ![c] = {}]
    /\ touched' = [touched EXCEPT ![c] = {}]
    /\ todo' = [todo EXCEPT ![c] = <<>>]
    /\ written' = [written EXCEPT ![c] = <<>>]
    /\ Goto(c, "idle")
    /\ UNCHANGED runOnly

RunCommit(c) ==
    /\ pc[c] = "commit"
    /\ table' = table \cup held[c]
    /\ captured' = [captured EXCEPT ![c] = written[c]]
    /\ EndRun(c)

\* Mutant of RunRaceLost: the error leaves the session open.
RunRaceLost_SessionKept(c) ==
    /\ pc[c] = "fpInsert"
    /\ ~Blocked(c)
    /\ Head(todo[c]) \in table
    /\ todo' = [todo EXCEPT ![c] = <<>>]
    /\ written' = [written EXCEPT ![c] = <<>>]
    /\ Goto(c, "idle")
    /\ UNCHANGED <<table, held, touched, captured, runOnly>>

\* Nothing is retried: a unique violation, any other error or the death of
\* the caller closes the session and the run leaves nothing.
RunRaceLost(c) ==
    /\ pc[c] = "fpInsert"
    /\ ~Blocked(c)
    /\ Head(todo[c]) \in table
    /\ EndRun(c)
    /\ UNCHANGED <<table, captured>>

RunFails(c) ==
    /\ pc[c] # "idle"
    /\ EndRun(c)
    /\ UNCHANGED <<table, captured>>

\* PostgreSQL fails a transaction of a cycle of waits.
DeadlockVictim ==
    \E S \in SUBSET Writers :
        /\ Deadlocked(S)
        /\ \E v \in S : IF v \in Workers THEN Fail(v) /\ UNCHANGED <<store, races>>
                                        ELSE EndRun(v) /\ UNCHANGED <<table, captured>>

-----------------------------------------------------------------------------
WorkerStep(w) ==
    \/ CheckDuplicate(w) \/ FindFp(w) \/ InsertFp(w) \/ InsertMetric(w)
    \/ Detect(w) \/ Commit(w) \/ BackoffElapsed(w)

RunStep(c) == RunFindFp(c) \/ RunTouchFp(c) \/ RunInsertFp(c) \/ RunRaceLost(c) \/ RunCommit(c)

Next ==
    \/ \E w \in Workers :
         \/ \E e \in Events : Deliver(w, e)
         \/ WorkerStep(w)
         \/ StatementFails(w) \/ CommitUnacknowledged(w) \/ WorkerDies(w)
    \/ \E c \in Runs : StartRun(c) \/ RunStep(c) \/ RunFails(c)
    \/ DeadlockVictim

Spec == Init /\ [][Next]_vars

(* Fairness: statements return, sleeps end, PostgreSQL breaks deadlocks.   *)
(* Nothing is assumed of deliveries, collection requests or failures.      *)
Fairness ==
    /\ \A w \in Workers : WF_vars(WorkerStep(w))
    /\ \A c \in Runs : WF_vars(RunStep(c))
    /\ WF_vars(DeadlockVictim)

FairSpec == Spec /\ Fairness

-----------------------------------------------------------------------------
(* Properties.                                                             *)

\* Losing races to other writers fails at most two attempts of a delivery,
\* one for the fingerprint and one for the event, so with two retries or
\* more (the default is three) a race alone never routes an event to the DLQ.
RacesBounded == \A w \in Workers : races[w] <= 2

\* No consumer worker is ever part of a deadlock: _upsert_fp leaves existing
\* fingerprint rows alone and a transaction holds at most one event.  Two
\* collection runs do deadlock when they see their rows in different orders.
WorkersNeverDeadlock ==
    \A S \in SUBSET Writers : Deadlocked(S) => S \subseteq Runs

\* The committed rows change as IdempotentStore says: an event is stored once,
\* together with its fingerprint and regression; a run, whatever it has stored
\* in its open transaction, leaves every row of its snapshot or none, at once.
Store == INSTANCE IdempotentStore WITH
    Snapshots <- StatRows, asked <- [c \in Runs |-> written[c] \o todo[c]]
ImplementsStore == Store!StoreSpec

\* Every delivery and every run comes to its end: no writer waits forever.
WritersFinish ==
    \A w \in Writers : pc[w] # "idle" ~> pc[w] = "idle"

\* "Regression events created" (observability/metrics.py): when no ingestion
\* is under way the counter shows the regression rows that exist.
RegressionCounterExact ==
    (\A w \in Workers : pc[w] = "idle") =>
        regCount = Cardinality({e \in Events : regRows[e] > 0})
-----------------------------------------------------------------------------
(* The inductive invariant of the proofs (IngestTransactionsProofs).       *)

\* A key is in the table or inserted by one open transaction, never both.
LocksExclusive ==
    \A w \in Writers :
        /\ held[w] \cap table = {}
        /\ \A v \in Writers \ {w} : held[w] \cap held[v] = {}

\* The open transaction of w would store its event with the fingerprint.
Stores(w) ==
    /\ event[w] \in held[w]
    /\ held[w] \subseteq {event[w], FpOf[event[w]]}
    /\ FpOf[event[w]] \in Visible(w)

\* What the transaction of a worker has inserted where the worker stands.
WorkerPlace(w) ==
    /\ pc[w] # "idle" => event[w] \in Events
    /\ pc[w] \in {"idle", "check", "fp", "fpInsert", "backoff"} => held[w] = {}
    /\ pc[w] = "metric" => /\ held[w] \subseteq {FpOf[event[w]]}
                           /\ FpOf[event[w]] \in Visible(w)
    /\ pc[w] = "detect" => Stores(w)
    /\ pc[w] = "commit" => held[w] = {} \/ Stores(w)
    /\ found[w] => pc[w] = "commit" /\ Stores(w)
    /\ pc[w] = "backoff" => attempt[w] < MaxRetries

\* A run inserts fingerprints, has a row in hand between StartRun and COMMIT
\* and sees the fingerprint of every row it has stored.
RunPlace(c) ==
    /\ held[c] \subseteq {written[c][i] : i \in DOMAIN written[c]}
    /\ \A i \in DOMAIN written[c] : written[c][i] \in Visible(c)
    /\ pc[c] \in {"fp", "fpInsert", "touch"} => todo[c] # <<>>
    /\ pc[c] = "touch" => Head(todo[c]) \in Visible(c)
    /\ pc[c] \in {"idle", "commit"} => todo[c] = <<>>
    /\ pc[c] = "idle" => written[c] = <<>>

\* An event is stored after its fingerprint, a regression with its event.
StoredTogether ==
    \A e \in Events :
        /\ e \in table => FpOf[e] \in table
        /\ e \notin table => regRows[e] = 0

\* A lost race shows the worker a committed row it will find the next time.
RacePlace(w) ==
    /\ races[w] <= 2
    /\ pc[w] # "idle" => /\ races[w] >= 1 => FpOf[event[w]] \in table
                         /\ races[w] = 2 => event[w] \in table
    /\ pc[w] \in {"fp", "metric"} => races[w] <= 1
    /\ pc[w] = "fpInsert" => races[w] = 0

IInv ==
    /\ TypeOK
    /\ LocksExclusive
    /\ \A w \in Workers : WorkerPlace(w) /\ RacePlace(w)
    /\ \A c \in Runs : RunPlace(c)
    /\ StoredTogether
=============================================================================
