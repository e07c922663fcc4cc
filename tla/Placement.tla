------------------------------ MODULE Placement ------------------------------
(***************************************************************************)
(* The placement simulator (backend/app/core/placement.py): the tenants of *)
(* a scenario are assigned to nodes one after the other, then the local    *)
(* search or the annealing moves them between nodes.  A node keeps its     *)
(* tenants and, next to them, the sum of what they use.                    *)
(*                                                                         *)
(* Resources are exact integers here and floats in the code.  The weighted *)
(* score that ranks nodes is data: a best node is any node it may rank.    *)
(***************************************************************************)
EXTENDS Integers, FiniteSets, FiniteSetsExt

CONSTANTS
    NumNodes, NumTenants,
    Regions, NodeRegion,    \* [Nodes -> Regions]
    Zones, NodeZone,        \* [Nodes -> Zones]
    NoZone,                 \* a tenant without zone affinity
    Loads,                  \* resource vectors of tenants
    Capacities,             \* resource vectors of nodes
    Unit,                   \* a multiple of every capacity: 100% in scores
    AnnealingRounds         \* 60 in the code

Nodes == 1..NumNodes
Tenants == 1..NumTenants
Resources == {"cpu", "memory", "storage", "iops"}

Rebalancers == {"local-search-rebalancer", "simulated-annealing"}
Algorithms == {"first-fit", "greedy-best-fit", "weighted-scoring"} \cup Rebalancers

ASSUME SizesAssumption ==
    NumNodes \in Nat \ {0} /\ NumTenants \in Nat /\ AnnealingRounds \in Nat
ASSUME TopologyAssumption ==
    NodeRegion \in [Nodes -> Regions] /\ NodeZone \in [Nodes -> Zones]
ASSUME ResourcesAssumption ==
    /\ Loads \subseteq [Resources -> Nat]
    /\ Capacities \subseteq [Resources -> Nat \ {0}]
    /\ Unit \in Nat
    /\ \A c \in Capacities, d \in Resources : Unit % c[d] = 0

VARIABLES
    region, zone, demand,   \* tenant -> preference, affinity, resources
    capacity,               \* node -> resources
    algorithm,
    phase,                  \* "assign", "search", "anneal", "done"
    arriving,               \* the tenant to be assigned next
    tenants,                \* node -> tenants
    used,                   \* node -> resources in use
    rounds                  \* annealing rounds so far

scenario == <<region, zone, demand, capacity, algorithm>>
vars == <<scenario, phase, arriving, tenants, used, rounds>>

TypeOK ==
    /\ region \in [Tenants -> Regions]
    /\ zone \in [Tenants -> Zones \cup {NoZone}]
    /\ demand \in [Tenants -> Loads]
    /\ capacity \in [Nodes -> Capacities]
    /\ algorithm \in Algorithms
    /\ phase \in {"assign", "search", "anneal", "done"}
    /\ arriving \in 1..(NumTenants + 1)
    /\ tenants \in [Nodes -> SUBSET Tenants]
    /\ used \in [Nodes -> [Resources -> Int]]
    /\ rounds \in 0..AnnealingRounds

\* build_scenario and generate_synthetic_telemetry draw the scenario.
Init ==
    /\ region \in [Tenants -> Regions]
    /\ zone \in [Tenants -> Zones \cup {NoZone}]
    /\ demand \in [Tenants -> Loads]
    /\ capacity \in [Nodes -> Capacities]
    /\ algorithm \in Algorithms
    /\ phase = "assign"
    /\ arriving = 1
    /\ tenants = [n \in Nodes |-> {}]
    /\ used = [n \in Nodes |-> [d \in Resources |-> 0]]
    /\ rounds = 0

-----------------------------------------------------------------------------
(* Nodes.                                                                  *)

With(n, t)    == [d \in Resources |-> used[n][d] + demand[t][d]]
Without(n, t) == [d \in Resources |-> used[n][d] - demand[t][d]]

\* Mutant of CanHost: a zone affinity is enough, whatever is left.
CanHost_NoCapacityCheck(n, t) ==
    /\ region[t] = NodeRegion[n]
    /\ zone[t] \in {NoZone, NodeZone[n]}

CanHost(n, t) ==
    /\ region[t] = NodeRegion[n]
    /\ zone[t] \in {NoZone, NodeZone[n]}
    /\ \A d \in Resources : With(n, t)[d] <= capacity[n][d]

\* How far node n is over its capacity of d if it uses u, in parts of Unit.
Excess(n, u, d) ==
    IF u[d] > capacity[n][d] THEN (u[d] - capacity[n][d]) * (Unit \div capacity[n][d])
                             ELSE 0

\* overload_score
Score(n, u) ==
    Excess(n, u, "cpu") + Excess(n, u, "memory")
    + Excess(n, u, "storage") + Excess(n, u, "iops")

\* What a move of t from s to n changes the scores of the two by.
Delta(s, n, t) ==
    (Score(s, Without(s, t)) + Score(n, With(n, t))) - (Score(s, used[s]) + Score(n, used[n]))

\* Other nodes that t could move to.
Candidates(s, t) == {n \in Nodes \ {s} : CanHost(n, t)}

\* Mutant of Move: the node left behind keeps the resources in use.
Move_SourceStillUsed(s, n, t) ==
    /\ tenants' = [tenants EXCEPT ![s] = @ \ {t}, ![n] = @ \cup {t}]
    /\ used' = [used EXCEPT ![n] = With(n, t)]

\* Mutant of Move: the tenant stays on the node it leaves.
Move_Copies(s, n, t) ==
    /\ tenants' = [tenants EXCEPT ![n] = @ \cup {t}]
    /\ used' = [used EXCEPT ![s] = Without(s, t), ![n] = With(n, t)]

Move(s, n, t) ==
    /\ tenants' = [tenants EXCEPT ![s] = @ \ {t}, ![n] = @ \cup {t}]
    /\ used' = [used EXCEPT ![s] = Without(s, t), ![n] = With(n, t)]

-----------------------------------------------------------------------------
(* _assign: one tenant after the other.                                    *)

Feasible(t) == {n \in Nodes : CanHost(n, t)}
SameRegion(t) == {n \in Nodes : NodeRegion[n] = region[t]}

\* Mutant of Eligible: if no node has room for the tenant, every node will do.
Eligible_AnyRegion(t) == IF Feasible(t) # {} THEN Feasible(t) ELSE Nodes

\* Nodes with room, else nodes of the region, else all nodes.
Eligible(t) ==
    IF Feasible(t) # {} THEN Feasible(t)
    ELSE IF SameRegion(t) # {} THEN SameRegion(t) ELSE Nodes

\* The selector takes the first node, or the one of the lowest score.
Selected(n, S) == n \in S /\ (algorithm = "first-fit" => \A m \in S : n <= m)

Assign ==
    /\ phase = "assign" /\ arriving <= NumTenants
    /\ \E n \in Nodes :
         /\ Selected(n, Eligible(arriving))
         /\ tenants' = [tenants EXCEPT ![n] = @ \cup {arriving}]
         /\ used' = [used EXCEPT ![n] = With(n, arriving)]
    /\ arriving' = arriving + 1
    /\ UNCHANGED <<scenario, phase, rounds>>

AssignEnds ==
    /\ phase = "assign" /\ arriving > NumTenants
    /\ phase' = IF NumNodes < 2 \/ algorithm \notin Rebalancers THEN "done"
                ELSE IF algorithm = "simulated-annealing" THEN "anneal" ELSE "search"
    /\ UNCHANGED <<scenario, arriving, tenants, used, rounds>>

-----------------------------------------------------------------------------
(* _local_search: unload the hottest node while a move helps.              *)

\* The first of the nodes with the highest overload score.
Hottest(s) ==
    \A n \in Nodes : /\ Score(n, used[n]) <= Score(s, used[s])
                     /\ n < s => Score(n, used[n]) # Score(s, used[s])

Helps(s, n, t) == n \in Candidates(s, t) /\ Delta(s, n, t) < 0

SearchMove ==
    /\ phase = "search"
    /\ \E s, n \in Nodes : \E t \in tenants[s] :
         Hottest(s) /\ Score(s, used[s]) > 0 /\ Helps(s, n, t) /\ Move(s, n, t)
    /\ UNCHANGED <<scenario, phase, arriving, rounds>>

SearchEnds ==
    /\ phase = "search"
    /\ \E s \in Nodes :
         /\ Hottest(s)
         /\ Score(s, used[s]) = 0 \/ ~\E n \in Nodes, t \in tenants[s] : Helps(s, n, t)
    /\ phase' = "done"
    /\ UNCHANGED <<scenario, arriving, tenants, used, rounds>>

-----------------------------------------------------------------------------
(* _simulated_annealing: random moves for a fixed number of rounds.        *)

\* A random node and a random tenant of it move; a worsening move is left to
\* chance.
Proposal(s) ==
    \E t \in tenants[s] : \E n \in Candidates(s, t) :
        \/ Move(s, n, t)
        \/ Delta(s, n, t) > 0 /\ UNCHANGED <<tenants, used>>

\* The node drawn is empty, or no other node can host the tenant drawn.
Skip(s) ==
    /\ tenants[s] = {} \/ \E t \in tenants[s] : Candidates(s, t) = {}
    /\ UNCHANGED <<tenants, used>>

\* Mutant of AnnealRound: a round without a candidate is not counted.
AnnealRound_FreeSkip ==
    /\ phase = "anneal" /\ rounds < AnnealingRounds
    /\ \E s \in Nodes :
         \/ Skip(s) /\ UNCHANGED rounds
         \/ Proposal(s) /\ rounds' = rounds + 1
    /\ UNCHANGED <<scenario, phase, arriving>>

\* Mutant of AnnealRound: one round too many.
AnnealRound_OneMore ==
    /\ phase = "anneal" /\ rounds <= AnnealingRounds
    /\ \E s \in Nodes : Skip(s) \/ Proposal(s)
    /\ rounds' = rounds + 1
    /\ UNCHANGED <<scenario, phase, arriving>>

AnnealRound ==
    /\ phase = "anneal" /\ rounds < AnnealingRounds
    /\ \E s \in Nodes : Skip(s) \/ Proposal(s)
    /\ rounds' = rounds + 1
    /\ UNCHANGED <<scenario, phase, arriving>>

AnnealEnds ==
    /\ phase = "anneal" /\ rounds = AnnealingRounds
    /\ phase' = "done"
    /\ UNCHANGED <<scenario, arriving, tenants, used, rounds>>

Next == Assign \/ AssignEnds \/ SearchMove \/ SearchEnds \/ AnnealRound \/ AnnealEnds

Spec == Init /\ [][Next]_vars

(* Fairness: run_algorithm runs until it returns.                          *)
FairSpec == Spec /\ WF_vars(Next)

-----------------------------------------------------------------------------
(* Properties.                                                             *)

\* Every tenant assigned so far is on one node and on no other, whatever
\* moves came after (_compare looks every tenant up and fails on a lost one).
PlacedOnce ==
    \A t \in Tenants :
        IF t < arriving
        THEN \E n \in Nodes : t \in tenants[n] /\ \A m \in Nodes \ {n} : t \notin tenants[m]
        ELSE \A n \in Nodes : t \notin tenants[n]

\* What a node has in use, kept by adding and subtracting, is the sum over
\* its tenants after any sequence of moves.
UsedIsSum ==
    \A n \in Nodes, d \in Resources :
        used[n][d] = SumFunctionOnSet([t \in Tenants |-> demand[t][d]], tenants[n])

\* A tenant whose preferred region has nodes is never placed or moved out of
\* it, not even when all of them are full.
RegionKept ==
    \A n \in Nodes : \A t \in tenants[n] : SameRegion(t) # {} => n \in SameRegion(t)

\* Rebalancing creates no overload and raises none, on any node and resource.
NoNewOverload ==
    [][phase # "assign" =>
         \A n \in Nodes, d \in Resources :
            used'[n][d] > capacity[n][d] => used'[n][d] <= used[n][d]]_vars

\* A node that can host a tenant is not overloaded with it, so no candidate
\* move worsens the scores: the annealing accepts every one of them and the
\* temperature never decides anything.
NoCandidateWorsens ==
    \A s \in Nodes : \A t \in tenants[s] : \A n \in Candidates(s, t) : Delta(s, n, t) <= 0

\* The overload of all nodes.
Overload == SumFunctionOnSet([n \in Nodes |-> Score(n, used[n])], Nodes)

\* What makes the search end: every tenant it moves takes something off the
\* overload of all nodes together, which is never negative, although the code
\* compares two nodes only.  The annealing, which may climb, does not.
OverloadFalls ==
    [][/\ phase = "search" /\ tenants' # tenants => Overload' \in 0..(Overload - 1)
       /\ phase = "anneal" => Overload' \in 0..Overload]_vars

\* Every algorithm returns: the local search does not move tenants for ever.
Returns == <>(phase = "done")
=============================================================================
