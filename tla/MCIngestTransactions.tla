------------------------ MODULE MCIngestTransactions ------------------------
(***************************************************************************)
(* Small instances of IngestTransactions for TLC.  Budgets bound how many  *)
(* messages arrive, how many runs start and how much goes wrong.           *)
(***************************************************************************)
EXTENDS IngestTransactions, TLC

CONSTANTS
    w1, w2, c1, c2,     \* workers and collection runs
    e1, e2,             \* one event per fingerprint
    f1, f2,             \* fingerprints
    Mortal,             \* worker processes may die
    MaxDeliveries,      \* messages handed to workers, duplicates included
    MaxRuns,            \* collection runs started
    MaxFaults           \* failed statements, lost acknowledgements, deaths

VARIABLES deliveries, runs, faults

budgets == <<deliveries, runs, faults>>
mcVars == <<vars, budgets>>

Fps == (e1 :> f1) @@ (e2 :> f2)

\* Two runs may see the two queries in either order, or one query twice.
Snapshots == {<<f1, f2>>, <<f2, f1>>, <<f1, f1>>, <<f2, f2>>}

OppositeOrders == {<<f1, f2>>, <<f2, f1>>}

\* The two queries may change places, each with its event.
Renamed == (e1 :> e2) @@ (e2 :> e1) @@ (f1 :> f2) @@ (f2 :> f1)
Symmetric == Permutations(Workers) \cup Permutations(Runs) \cup {Renamed}

MCInit == Init /\ deliveries = 0 /\ runs = 0 /\ faults = 0

MCNext ==
    \/ /\ deliveries < MaxDeliveries
       /\ \E w \in Workers, e \in Events : Deliver(w, e)
       /\ deliveries' = deliveries + 1
       /\ UNCHANGED <<runs, faults>>
    \/ /\ runs < MaxRuns
       /\ \E c \in Runs : StartRun(c)
       /\ runs' = runs + 1
       /\ UNCHANGED <<deliveries, faults>>
    \/ /\ faults < MaxFaults
       /\ \/ \E w \in Workers : StatementFails(w) \/ CommitUnacknowledged(w)
          \/ Mortal /\ \E w \in Workers : WorkerDies(w)
          \/ \E c \in Runs : RunFails(c)
       /\ faults' = faults + 1
       /\ UNCHANGED <<deliveries, runs>>
    \/ /\ \/ \E w \in Workers : WorkerStep(w)
          \/ \E c \in Runs : RunStep(c)
          \/ DeadlockVictim
       /\ UNCHANGED budgets

MCSpec == MCInit /\ [][MCNext]_mcVars

MCFairSpec ==
    /\ MCSpec
    /\ \A w \in Workers : WF_mcVars(WorkerStep(w) /\ UNCHANGED budgets)
    /\ \A c \in Runs : WF_mcVars(RunStep(c) /\ UNCHANGED budgets)
    /\ WF_mcVars(DeadlockVictim /\ UNCHANGED budgets)
=============================================================================
