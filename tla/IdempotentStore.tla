-------------------------- MODULE IdempotentStore --------------------------
(***************************************************************************)
(* What the ingestion path promises about the database, without            *)
(* transactions, retries or concurrency: an event is stored once, together *)
(* with its fingerprint and its regression row, in one step; a collection  *)
(* run stores, in one step, a metric for every row of the snapshot it read *)
(* and every fingerprint of it, or nothing.                                *)
(***************************************************************************)
EXTENDS Sequences

CONSTANTS Events, Fingerprints, FpOf, Runs, Snapshots

VARIABLES
    table,      \* event ids and fingerprint hashes that have a row
    regRows,    \* event -> query_regressions rows written for it
    asked,      \* run -> what is left to store: its snapshot or <<>>
    captured    \* run -> query_metrics rows its last snapshot left

storeVars == <<table, regRows, asked, captured>>

StoreInit ==
    /\ table = {}
    /\ regRows = [e \in Events |-> 0]
    /\ asked = [c \in Runs |-> <<>>]
    /\ captured = [c \in Runs |-> <<>>]

\* The first delivery of e that commits; e may be a regression or not.
StoreEvent(e) ==
    /\ e \notin table
    /\ table' = table \cup {e, FpOf[e]}
    /\ regRows' \in {regRows, [regRows EXCEPT ![e] = 1]}
    /\ UNCHANGED <<asked, captured>>

\* A collection run has read a snapshot and has stored nothing of it.
StoreAsk(c) ==
    /\ asked[c] = <<>>
    /\ \E rows \in Snapshots : asked' = [asked EXCEPT ![c] = rows]
    /\ captured' = [captured EXCEPT ![c] = <<>>]
    /\ UNCHANGED <<table, regRows>>

\* It ends and has stored all of the snapshot ...
StoreRun(c) ==
    /\ table' = table \cup {asked[c][i] : i \in DOMAIN asked[c]}
    /\ captured' = [captured EXCEPT ![c] = asked[c]]
    /\ asked' = [asked EXCEPT ![c] = <<>>]
    /\ UNCHANGED regRows

\* ... or nothing of it.
StoreNothing(c) ==
    /\ asked' = [asked EXCEPT ![c] = <<>>]
    /\ UNCHANGED <<table, regRows, captured>>

StoreNext ==
    \/ \E e \in Events : StoreEvent(e)
    \/ \E c \in Runs : StoreAsk(c) \/ StoreRun(c) \/ StoreNothing(c)

StoreSpec == StoreInit /\ [][StoreNext]_storeVars
=============================================================================
