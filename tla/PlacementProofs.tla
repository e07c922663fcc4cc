--------------------------- MODULE PlacementProofs ---------------------------
(***************************************************************************)
(* Proofs about Placement for every scenario: no tenant is lost, copied or *)
(* taken out of its region, what a node has in use is the sum over its     *)
(* tenants, and no move of the local search or of the annealing makes an   *)
(* overload worse.                                                         *)
(***************************************************************************)
EXTENDS Placement, FiniteSums

IInv == TypeOK /\ PlacedOnce /\ RegionKept

\* The initial state.
LEMMA InitIInv == Init => IInv
<1> SUFFICES ASSUME Init PROVE IInv
  OBVIOUS
<1>1. TypeOK
  BY SizesAssumption DEF Init, TypeOK
<1>2. PlacedOnce
  BY DEF Init, PlacedOnce, Tenants
<1>3. RegionKept
  BY DEF Init, RegionKept
<1> QED BY <1>1, <1>2, <1>3 DEF IInv

\* What a node uses with one tenant more or less.
LEMMA VectorTypes ==
    ASSUME TypeOK, NEW n \in Nodes, NEW t \in Tenants
    PROVE  /\ With(n, t) \in [Resources -> Int] /\ Without(n, t) \in [Resources -> Int]
           /\ \A d \in Resources : /\ demand[t][d] \in Nat /\ used[n][d] \in Int
                                   /\ With(n, t)[d] = used[n][d] + demand[t][d]
                                   /\ Without(n, t)[d] = used[n][d] - demand[t][d]
<1>1. \A d \in Resources : demand[t][d] \in Nat /\ used[n][d] \in Int
  BY ResourcesAssumption DEF TypeOK
<1> QED BY <1>1 DEF With, Without

\* Assigning a tenant keeps the invariant.
LEMMA AssignKeeps ==
    ASSUME IInv, Assign
    PROVE  IInv'
<1> DEFINE t == arriving
<1>1. TypeOK /\ PlacedOnce /\ RegionKept
  BY DEF IInv
<1>2. t \in Tenants /\ t' = t + 1 /\ phase = "assign"
  BY <1>1 DEF Assign, TypeOK, Tenants
<1>3. PICK n \in Nodes : /\ n \in Eligible(t)
                         /\ tenants' = [tenants EXCEPT ![n] = @ \cup {t}]
                         /\ used' = [used EXCEPT ![n] = With(n, t)]
  BY DEF Assign, Selected
<1>4. UNCHANGED <<region, zone, demand, capacity, algorithm, phase, rounds>>
  BY DEF Assign, scenario
<1>5. TypeOK'
  <2>1. With(n, t) \in [Resources -> Int]
    BY <1>1, <1>2, VectorTypes
  <2>2. t' \in 1..(NumTenants + 1)
    BY <1>2, SizesAssumption DEF Tenants
  <2> QED BY <1>1, <1>2, <1>3, <1>4, <2>1, <2>2 DEF TypeOK
<1>6. \A m \in Nodes : tenants'[m] = IF m = n THEN tenants[m] \cup {t} ELSE tenants[m]
  BY <1>1, <1>3 DEF TypeOK
<1>7. PlacedOnce'
  <2>1. \A m \in Nodes : t \notin tenants[m]
    BY <1>1, <1>2 DEF PlacedOnce, Tenants
  <2> SUFFICES ASSUME NEW u \in Tenants
               PROVE  IF u < t'
                      THEN \E k \in Nodes : u \in tenants'[k] /\ \A m \in Nodes \ {k} : u \notin tenants'[m]
                      ELSE \A k \in Nodes : u \notin tenants'[k]
    BY DEF PlacedOnce
  <2>2. CASE u = t
    <3>1. t < t'
      BY <1>2 DEF Tenants
    <3>2. t \in tenants'[n] /\ \A m \in Nodes \ {n} : t \notin tenants'[m]
      BY <1>6, <2>1
    <3> QED BY <2>2, <3>1, <3>2
  <2>3. CASE u # t
    <3>1. u < t' <=> u < t
      BY <1>2, <2>3 DEF Tenants
    <3>2. \A m \in Nodes : u \in tenants'[m] <=> u \in tenants[m]
      BY <1>6, <2>3
    <3> QED BY <1>1, <3>1, <3>2 DEF PlacedOnce
  <2> QED BY <2>2, <2>3
<1>8. RegionKept'
  <2>1. SameRegion(t) # {} => n \in SameRegion(t)
    BY <1>3 DEF Eligible, Feasible, CanHost, SameRegion
  <2>2. \A u \in Tenants : SameRegion(u)' = SameRegion(u)
    BY <1>4 DEF SameRegion
  <2>3. \A m \in Nodes : tenants'[m] \subseteq Tenants
    BY <1>5 DEF TypeOK
  <2> QED BY <1>1, <1>6, <2>1, <2>2, <2>3 DEF RegionKept
<1> QED BY <1>5, <1>7, <1>8 DEF IInv

\* A move to a candidate.
LEMMA MoveKeeps ==
    ASSUME IInv, NEW s \in Nodes, NEW t \in tenants[s], NEW n \in Candidates(s, t),
           Move(s, n, t), UNCHANGED scenario, UNCHANGED <<phase, arriving>>,
           rounds' \in 0..AnnealingRounds
    PROVE  /\ IInv'
           /\ \A k \in Nodes, d \in Resources :
                used'[k][d] > capacity[k][d] => used'[k][d] <= used[k][d]
<1>1. TypeOK /\ PlacedOnce /\ RegionKept
  BY DEF IInv
<1>2. t \in Tenants /\ n \in Nodes /\ n # s /\ CanHost(n, t)
  BY <1>1 DEF TypeOK, Candidates
<1>3. /\ With(n, t) \in [Resources -> Int] /\ Without(s, t) \in [Resources -> Int]
      /\ \A d \in Resources : Without(s, t)[d] <= used[s][d]
  BY <1>1, <1>2, VectorTypes
<1>4. \A k \in Nodes :
        /\ tenants'[k] = IF k = n THEN tenants[k] \cup {t}
                         ELSE IF k = s THEN tenants[k] \ {t} ELSE tenants[k]
        /\ used'[k] = IF k = n THEN With(n, t) ELSE IF k = s THEN Without(s, t) ELSE used[k]
  BY <1>1, <1>2 DEF Move, TypeOK
<1>5. UNCHANGED <<region, zone, demand, capacity, algorithm>>
  BY DEF scenario
<1>6. TypeOK'
  BY <1>1, <1>2, <1>3, <1>5 DEF Move, TypeOK
<1>7. PlacedOnce'
  <2> SUFFICES ASSUME NEW u \in Tenants
               PROVE  IF u < arriving
                      THEN \E k \in Nodes : u \in tenants'[k] /\ \A m \in Nodes \ {k} : u \notin tenants'[m]
                      ELSE \A k \in Nodes : u \notin tenants'[k]
    BY DEF PlacedOnce
  <2>1. CASE u = t
    <3>1. u < arriving
      BY <1>1, <2>1 DEF PlacedOnce
    <3>2. \A m \in Nodes \ {s} : t \notin tenants[m]
      BY <1>1, <2>1, <3>1 DEF PlacedOnce
    <3>3. t \in tenants'[n] /\ \A m \in Nodes \ {n} : t \notin tenants'[m]
      BY <1>2, <1>4, <3>2
    <3> QED BY <1>2, <2>1, <3>1, <3>3
  <2>2. CASE u # t
    <3>1. \A m \in Nodes : u \in tenants'[m] <=> u \in tenants[m]
      BY <1>4, <2>2
    <3> QED BY <1>1, <3>1 DEF PlacedOnce
  <2> QED BY <2>1, <2>2
<1>8. RegionKept'
  <2>1. n \in SameRegion(t)
    BY <1>2 DEF CanHost, SameRegion
  <2>2. \A u \in Tenants : SameRegion(u)' = SameRegion(u)
    BY <1>5 DEF SameRegion
  <2>3. \A m \in Nodes : tenants'[m] \subseteq Tenants
    BY <1>6 DEF TypeOK
  <2> QED BY <1>1, <1>4, <2>1, <2>2, <2>3 DEF RegionKept
<1>9. ASSUME NEW k \in Nodes, NEW d \in Resources, used'[k][d] > capacity[k][d]
      PROVE  used'[k][d] <= used[k][d]
  <2>1. used[k][d] \in Int /\ capacity[k][d] \in Nat
    BY <1>1, ResourcesAssumption DEF TypeOK
  <2>2. CASE k = n
    <3>1. used'[k][d] = With(n, t)[d] /\ With(n, t)[d] <= capacity[k][d]
      BY <1>2, <1>4, <2>2 DEF CanHost
    <3>2. With(n, t)[d] \in Int
      BY <1>3
    <3> QED BY <1>9, <2>1, <3>1, <3>2
  <2>3. CASE k = s
    <3>1. used'[k][d] = Without(s, t)[d]
      BY <1>2, <1>4, <2>3
    <3> QED BY <1>3, <2>3, <3>1
  <2>4. CASE k # n /\ k # s
    <3>1. used'[k][d] = used[k][d]
      BY <1>4, <2>4
    <3> QED BY <2>1, <3>1
  <2> QED BY <2>2, <2>3, <2>4
<1> QED BY <1>6, <1>7, <1>8, <1>9 DEF IInv

\* A step that leaves the nodes alone.
LEMMA StillKeeps ==
    ASSUME IInv, UNCHANGED scenario, UNCHANGED <<arriving, tenants, used>>,
           phase' \in {"assign", "search", "anneal", "done"}, rounds' \in 0..AnnealingRounds
    PROVE  IInv' /\ \A k \in Nodes, d \in Resources : used'[k][d] = used[k][d]
<1>1. UNCHANGED <<region, zone, demand, capacity, algorithm>>
  BY DEF scenario
<1> QED BY <1>1 DEF IInv, TypeOK, PlacedOnce, RegionKept, SameRegion

\* Every step keeps the invariant.
LEMMA NextKeeps ==
    ASSUME IInv, [Next]_vars
    PROVE  /\ IInv'
           /\ phase # "assign" =>
                \A k \in Nodes, d \in Resources :
                    used'[k][d] > capacity[k][d] => used'[k][d] <= used[k][d]
<1> DEFINE Milder == \A k \in Nodes, d \in Resources :
                        used'[k][d] > capacity[k][d] => used'[k][d] <= used[k][d]
<1>0. TypeOK
  BY DEF IInv
<1>1. ASSUME \A k \in Nodes, d \in Resources : used'[k][d] = used[k][d] PROVE Milder
  BY <1>0, <1>1 DEF TypeOK
<1>2. CASE UNCHANGED vars
  <2>1. IInv' /\ \A k \in Nodes, d \in Resources : used'[k][d] = used[k][d]
    BY <1>0, <1>2, StillKeeps DEF vars, TypeOK
  <2> QED BY <1>1, <2>1
<1>3. CASE Assign
  BY <1>3, AssignKeeps DEF Assign
<1>4. CASE AssignEnds
  BY <1>0, <1>4, StillKeeps DEF AssignEnds, TypeOK
<1>5. CASE SearchMove
  <2>1. PICK s, n \in Nodes : \E t \in tenants[s] : n \in Candidates(s, t) /\ Move(s, n, t)
    BY <1>5 DEF SearchMove, Helps
  <2> QED BY <1>0, <1>5, <2>1, MoveKeeps DEF SearchMove, TypeOK
<1>6. CASE SearchEnds \/ AnnealEnds
  <2>1. IInv' /\ \A k \in Nodes, d \in Resources : used'[k][d] = used[k][d]
    BY <1>0, <1>6, StillKeeps DEF SearchEnds, AnnealEnds, TypeOK
  <2> QED BY <1>1, <2>1
<1>7. CASE AnnealRound
  <2>1. rounds' \in 0..AnnealingRounds /\ UNCHANGED scenario /\ UNCHANGED <<phase, arriving>>
    BY <1>0, <1>7, SizesAssumption DEF AnnealRound, TypeOK
  <2>2. CASE UNCHANGED <<tenants, used>>
    <3>1. IInv' /\ \A k \in Nodes, d \in Resources : used'[k][d] = used[k][d]
      BY <1>0, <2>1, <2>2, StillKeeps DEF TypeOK
    <3> QED BY <1>1, <3>1
  <2>3. CASE ~UNCHANGED <<tenants, used>>
    <3>1. PICK s \in Nodes : \E t \in tenants[s] : \E n \in Candidates(s, t) : Move(s, n, t)
      BY <1>7, <2>3 DEF AnnealRound, Skip, Proposal
    <3> QED BY <2>1, <3>1, MoveKeeps
  <2> QED BY <2>2, <2>3
<1> QED BY <1>2, <1>3, <1>4, <1>5, <1>6, <1>7 DEF Next

\* Every state has the types, each tenant that arrived on one node, and no
\* tenant out of the region it prefers.
THEOREM Invariance == Spec => []IInv
<1>1. IInv /\ [Next]_vars => IInv'
  BY NextKeeps
<1> QED BY <1>1, InitIInv, PTL DEF Spec

\* Every variable keeps its type; the rounds of the annealing stay in bounds.
THEOREM TypeCorrect == Spec => []TypeOK
<1>1. IInv => TypeOK
  BY DEF IInv
<1> QED BY <1>1, Invariance, PTL

\* No tenant is lost or copied, whatever is moved.
THEOREM TenantsPlacedOnce == Spec => []PlacedOnce
<1>1. IInv => PlacedOnce
  BY DEF IInv
<1> QED BY <1>1, Invariance, PTL

\* Nothing takes a tenant out of a preferred region that has nodes.
THEOREM TenantsStayInRegion == Spec => []RegionKept
<1>1. IInv => RegionKept
  BY DEF IInv
<1> QED BY <1>1, Invariance, PTL

\* Rebalancing creates no overload and raises none.
THEOREM RebalancingIsSafe == Spec => NoNewOverload
<1>1. IInv /\ [Next]_vars =>
        [phase # "assign" =>
            \A n \in Nodes, d \in Resources :
                used'[n][d] > capacity[n][d] => used'[n][d] <= used[n][d]]_vars
  BY NextKeeps
<1> QED BY <1>1, Invariance, PTL DEF Spec, NoNewOverload

\* What the tenants in T demand of d.
DemandOf(d, T) == SumFunctionOnSet([t \in Tenants |-> demand[t][d]], T)

\* One tenant more or less changes the demand by its own.
LEMMA DemandSums ==
    ASSUME TypeOK, NEW T, T \subseteq Tenants, NEW t \in Tenants, NEW d \in Resources
    PROVE  /\ DemandOf(d, T) \in Int
           /\ t \notin T => DemandOf(d, T \cup {t}) = DemandOf(d, T) + demand[t][d]
           /\ t \in T => DemandOf(d, T \ {t}) = DemandOf(d, T) - demand[t][d]
<1> DEFINE f == [u \in Tenants |-> demand[u][d]]
<1>1. IsFiniteSet(Tenants)
  BY SizesAssumption, FS_Interval DEF Tenants
<1>2. IsFiniteSet(T) /\ IsFiniteSet(T \cup {t}) /\ T \cup {t} \subseteq Tenants
  BY <1>1, FS_Subset
<1>3. \A u \in Tenants : f[u] \in Int
  BY ResourcesAssumption DEF TypeOK
<1>4. f[t] = demand[t][d]
  OBVIOUS
<1>5. \A U : DemandOf(d, U) = SumFunctionOnSet(f, U)
  BY DEF DemandOf
<1> HIDE DEF f
<1>6. /\ SumFunctionOnSet(f, T \cup {t}) \in Int
      /\ SumFunctionOnSet(f, (T \cup {t}) \ {t}) \in Int
      /\ SumFunctionOnSet(f, T \cup {t}) = f[t] + SumFunctionOnSet(f, (T \cup {t}) \ {t})
  BY <1>2, <1>3, SumTakesOut
<1>7. CASE t \in T
  <2>1. T \cup {t} = T /\ (T \cup {t}) \ {t} = T \ {t}
    BY <1>7
  <2>2. /\ DemandOf(d, T) \in Int /\ DemandOf(d, T \ {t}) \in Int
        /\ DemandOf(d, T) = f[t] + DemandOf(d, T \ {t})
    BY <1>5, <1>6, <2>1
  <2> QED BY <1>3, <1>4, <1>7, <2>2
<1>8. CASE t \notin T
  <2>1. (T \cup {t}) \ {t} = T
    BY <1>8
  <2>2. /\ DemandOf(d, T) \in Int
        /\ DemandOf(d, T \cup {t}) = f[t] + DemandOf(d, T)
    BY <1>5, <1>6, <2>1
  <2> QED BY <1>3, <1>4, <1>8, <2>2
<1> QED BY <1>7, <1>8

\* A step from nodes whose use is the sum over their tenants leads to such nodes
\* if it adds and subtracts what the tenant it places or takes away demands.
LEMMA AssignSums ==
    ASSUME IInv, UsedIsSum, Assign
    PROVE  UsedIsSum'
<1>1. TypeOK /\ PlacedOnce
  BY DEF IInv
<1>2. PICK t \in Tenants : t = arriving
  BY <1>1 DEF Assign, TypeOK, Tenants
<1>3. PICK n \in Nodes : /\ tenants' = [tenants EXCEPT ![n] = @ \cup {t}]
                         /\ used' = [used EXCEPT ![n] = With(n, t)]
  BY <1>2 DEF Assign
<1>4. \A m \in Nodes : /\ tenants'[m] = IF m = n THEN tenants[m] \cup {t} ELSE tenants[m]
                       /\ used'[m] = IF m = n THEN With(n, t) ELSE used[m]
  BY <1>1, <1>3 DEF TypeOK
<1>5. t \notin tenants[n] /\ tenants[n] \subseteq Tenants
  BY <1>1, <1>2 DEF PlacedOnce, TypeOK, Tenants
<1>6. demand' = demand
  BY DEF Assign, scenario
<1> SUFFICES ASSUME NEW m \in Nodes, NEW d \in Resources
             PROVE  used'[m][d] = DemandOf(d, tenants'[m])
  BY <1>6 DEF UsedIsSum, DemandOf
<1>7. used[m][d] = DemandOf(d, tenants[m])
  BY DEF UsedIsSum, DemandOf
<1>8. CASE m = n
  <2>1. used'[m][d] = used[n][d] + demand[t][d]
    <3>1. With(n, t)[d] = used[n][d] + demand[t][d]
      BY DEF With
    <3>2. used'[n] = With(n, t)
      BY <1>2, <1>4
    <3> QED BY <1>8, <3>1, <3>2
  <2>2. DemandOf(d, tenants[n] \cup {t}) = DemandOf(d, tenants[n]) + demand[t][d]
    BY <1>1, <1>2, <1>5, DemandSums
  <2> QED BY <1>4, <1>7, <1>8, <2>1, <2>2
<1> QED BY <1>4, <1>7, <1>8

\* A rebalancing or annealing move keeps the books of both nodes.
LEMMA MoveSums ==
    ASSUME IInv, UsedIsSum, NEW s \in Nodes, NEW t \in tenants[s], NEW n \in Candidates(s, t),
           Move(s, n, t), UNCHANGED scenario
    PROVE  UsedIsSum'
<1>1. TypeOK /\ PlacedOnce
  BY DEF IInv
<1>2. t \in Tenants /\ n \in Nodes /\ n # s
  BY <1>1 DEF TypeOK, Candidates
<1>3. \A m \in Nodes :
        /\ tenants'[m] = IF m = n THEN tenants[m] \cup {t}
                         ELSE IF m = s THEN tenants[m] \ {t} ELSE tenants[m]
        /\ used'[m] = IF m = n THEN With(n, t) ELSE IF m = s THEN Without(s, t) ELSE used[m]
  BY <1>1, <1>2 DEF Move, TypeOK
<1>4. t \notin tenants[n]
  BY <1>1, <1>2 DEF PlacedOnce
<1>5. \A m \in Nodes : tenants[m] \subseteq Tenants
  BY <1>1 DEF TypeOK
<1>6. demand' = demand
  BY DEF scenario
<1> SUFFICES ASSUME NEW m \in Nodes, NEW d \in Resources
             PROVE  used'[m][d] = DemandOf(d, tenants'[m])
  BY <1>6 DEF UsedIsSum, DemandOf
<1>7. used[m][d] = DemandOf(d, tenants[m])
  BY DEF UsedIsSum, DemandOf
<1>8. CASE m = n
  <2>1. used'[m][d] = used[n][d] + demand[t][d]
    <3>1. With(n, t)[d] = used[n][d] + demand[t][d]
      BY DEF With
    <3>2. used'[n] = With(n, t)
      BY <1>2, <1>3
    <3> QED BY <1>8, <3>1, <3>2
  <2>2. DemandOf(d, tenants[n] \cup {t}) = DemandOf(d, tenants[n]) + demand[t][d]
    BY <1>1, <1>2, <1>4, <1>5, DemandSums
  <2> QED BY <1>3, <1>7, <1>8, <2>1, <2>2
<1>9. CASE m = s
  <2>1. used'[m][d] = used[s][d] - demand[t][d]
    <3>1. Without(s, t)[d] = used[s][d] - demand[t][d]
      BY DEF Without
    <3>2. used'[s] = Without(s, t)
      BY <1>2, <1>3
    <3> QED BY <1>9, <3>1, <3>2
  <2>2. DemandOf(d, tenants[s] \ {t}) = DemandOf(d, tenants[s]) - demand[t][d]
    BY <1>1, <1>2, <1>5, DemandSums
  <2>3. tenants'[m] = tenants[s] \ {t}
    BY <1>2, <1>3, <1>9
  <2> QED BY <1>7, <1>9, <2>1, <2>2, <2>3
<1> QED BY <1>3, <1>7, <1>8, <1>9

\* What a node has in use, kept by adding and subtracting, is the sum over its
\* tenants, however many were assigned and moved.
THEOREM UseIsAccounted == Spec => []UsedIsSum
<1>1. Init => UsedIsSum
  BY SumOfNone DEF Init, UsedIsSum
<1>2. ASSUME IInv, UsedIsSum, [Next]_vars
      PROVE  UsedIsSum'
  <2>1. CASE UNCHANGED <<tenants, used, demand>>
    BY <1>2, <2>1 DEF UsedIsSum
  <2>2. CASE Assign
    BY <1>2, <2>2, AssignSums
  <2>3. CASE SearchMove
    BY <1>2, <2>3, MoveSums DEF SearchMove, Helps
  <2>4. CASE AnnealRound
    <3>1. PICK s \in Nodes : Skip(s) \/ Proposal(s)
      BY <2>4 DEF AnnealRound
    <3>2. UNCHANGED scenario /\ UNCHANGED demand
      BY <2>4 DEF AnnealRound, scenario
    <3>3. CASE UNCHANGED <<tenants, used>>
      BY <2>1, <3>2, <3>3
    <3>4. CASE ~UNCHANGED <<tenants, used>>
      <4>1. \E t \in tenants[s] : \E n \in Candidates(s, t) : Move(s, n, t)
        BY <3>1, <3>4 DEF Skip, Proposal
      <4> QED BY <1>2, <3>2, <4>1, MoveSums
    <3> QED BY <3>3, <3>4
  <2>5. CASE UNCHANGED vars \/ AssignEnds \/ SearchEnds \/ AnnealEnds
    BY <2>1, <2>5 DEF vars, scenario, AssignEnds, SearchEnds, AnnealEnds
  <2> QED BY <1>2, <2>2, <2>3, <2>4, <2>5 DEF Next
<1> QED BY <1>1, <1>2, Invariance, PTL DEF Spec

\* Overload grows with use, resource by resource.
LEMMA ExcessMonotone ==
    ASSUME TypeOK, NEW n \in Nodes, NEW d \in Resources,
           NEW u \in [Resources -> Int], NEW v \in [Resources -> Int], u[d] <= v[d]
    PROVE  /\ Excess(n, u, d) \in Nat /\ Excess(n, v, d) \in Nat
           /\ Excess(n, u, d) <= Excess(n, v, d)
           /\ u[d] <= capacity[n][d] => Excess(n, u, d) = 0
<1> DEFINE c == capacity[n][d]
           q == Unit \div c
<1>1. c \in Nat \ {0}
  BY ResourcesAssumption DEF TypeOK
<1>2. q \in Nat
  BY <1>1, ResourcesAssumption
<1> HIDE DEF c, q
<1>3. \A a, b \in Nat : a * q \in Nat /\ (a <= b => a * q <= b * q)
  BY <1>2
<1>4. u[d] \in Int /\ v[d] \in Int
  OBVIOUS
<1>5. /\ Excess(n, u, d) = IF u[d] > c THEN (u[d] - c) * q ELSE 0
      /\ Excess(n, v, d) = IF v[d] > c THEN (v[d] - c) * q ELSE 0
  BY DEF Excess, c, q
<1>6. u[d] <= c => Excess(n, u, d) = 0
  BY <1>1, <1>4, <1>5
<1>7. CASE v[d] <= c
  BY <1>1, <1>4, <1>5, <1>7 DEF c
<1>8. CASE v[d] > c
  <2>1. v[d] - c \in Nat
    BY <1>1, <1>4, <1>8
  <2>2. (v[d] - c) * q \in Nat
    BY <1>3, <2>1
  <2>3. CASE u[d] <= c
    BY <1>1, <1>4, <1>5, <1>6, <1>8, <2>2, <2>3
  <2>4. CASE u[d] > c
    <3>1. u[d] - c \in Nat /\ u[d] - c <= v[d] - c
      BY <1>1, <1>4, <2>1, <2>4
    <3>2. (u[d] - c) * q \in Nat /\ (u[d] - c) * q <= (v[d] - c) * q
      BY <1>3, <2>1, <3>1
    <3>3. ~(u[d] <= c)
      BY <1>1, <1>4, <2>4
    <3>4. Excess(n, u, d) = (u[d] - c) * q /\ Excess(n, v, d) = (v[d] - c) * q
      BY <1>5, <1>8, <2>4
    <3> QED BY <2>2, <3>2, <3>3, <3>4 DEF c
  <2> QED BY <1>1, <1>4, <1>6, <2>3, <2>4 DEF c
<1> QED BY <1>1, <1>4, <1>6, <1>7, <1>8 DEF c

\* A candidate has no overload before or after the move, and the node that is
\* left has no more than before.
LEMMA MoveScores ==
    ASSUME TypeOK, NEW s \in Nodes, NEW t \in tenants[s], NEW n \in Candidates(s, t)
    PROVE  /\ Score(n, With(n, t)) = 0 /\ Score(n, used[n]) = 0
           /\ Score(s, Without(s, t)) \in Nat /\ Score(s, used[s]) \in Nat
           /\ Score(s, Without(s, t)) <= Score(s, used[s])
<1>1. t \in Tenants /\ n \in Nodes /\ CanHost(n, t)
  BY DEF TypeOK, Candidates
<1> DEFINE lo == Without(s, t)
           hi == With(n, t)
<1>2. /\ lo \in [Resources -> Int] /\ hi \in [Resources -> Int]
      /\ used[s] \in [Resources -> Int] /\ used[n] \in [Resources -> Int]
      /\ \A d \in Resources : lo[d] <= used[s][d] /\ used[n][d] <= hi[d] /\ hi[d] <= capacity[n][d]
  <2>1. /\ Without(s, t) \in [Resources -> Int] /\ With(n, t) \in [Resources -> Int]
        /\ used[s] \in [Resources -> Int] /\ used[n] \in [Resources -> Int]
    BY <1>1, VectorTypes DEF TypeOK
  <2>2. ASSUME NEW d \in Resources
        PROVE  Without(s, t)[d] <= used[s][d] /\ used[n][d] <= With(n, t)[d]
    <3>1. /\ demand[t][d] \in Nat /\ used[n][d] \in Int /\ used[s][d] \in Int
          /\ With(n, t)[d] = used[n][d] + demand[t][d]
          /\ Without(s, t)[d] = used[s][d] - demand[t][d]
      BY <1>1, VectorTypes
    <3> QED BY <3>1
  <2> QED BY <1>1, <2>1, <2>2 DEF CanHost
<1> HIDE DEF lo, hi
<1>3. \A d \in Resources : /\ Excess(s, lo, d) \in Nat /\ Excess(s, used[s], d) \in Nat
                           /\ Excess(s, lo, d) <= Excess(s, used[s], d)
  BY <1>2, ExcessMonotone
<1>4. \A d \in Resources : Excess(n, hi, d) = 0 /\ Excess(n, used[n], d) = 0
  <2>1. \A d \in Resources : Excess(n, hi, d) = 0 /\ Excess(n, used[n], d) \in Nat
                             /\ Excess(n, used[n], d) <= Excess(n, hi, d)
    BY <1>1, <1>2, ExcessMonotone
  <2> QED BY <2>1
<1>5. Score(n, hi) = 0 /\ Score(n, used[n]) = 0
  BY <1>4 DEF Score, Resources
<1>6. /\ Score(s, lo) \in Nat /\ Score(s, used[s]) \in Nat
      /\ Score(s, lo) <= Score(s, used[s])
  BY <1>3 DEF Score, Resources
<1> QED BY <1>5, <1>6 DEF lo, hi

\* A move to a candidate never worsens the two scores.
THEOREM AnnealingNeverClimbs == Spec => []NoCandidateWorsens
<1>1. IInv => NoCandidateWorsens
  BY MoveScores DEF IInv, NoCandidateWorsens, Delta
<1> QED BY <1>1, Invariance, PTL

\* Every node has a score.
LEMMA ScoreTypes ==
    ASSUME TypeOK, NEW n \in Nodes
    PROVE  Score(n, used[n]) \in Nat
<1>1. used[n] \in [Resources -> Int]
  BY DEF TypeOK
<1>2. \A d \in Resources : Excess(n, used[n], d) \in Nat
  BY <1>1, ExcessMonotone
<1> QED BY <1>2 DEF Score, Resources

\* The overload of all nodes is a natural number.
LEMMA OverloadTypes == TypeOK => Overload \in Nat
<1>1. IsFiniteSet(Nodes)
  BY SizesAssumption, FS_Interval DEF Nodes
<1> QED BY <1>1, ScoreTypes, SumOfNaturals DEF Overload

\* A move changes it by what the node it leaves gets better.
LEMMA MoveOverload ==
    ASSUME TypeOK, NEW s \in Nodes, NEW t \in tenants[s], NEW n \in Candidates(s, t),
           Move(s, n, t), UNCHANGED scenario
    PROVE  /\ Overload' = Overload + Delta(s, n, t)
           /\ Delta(s, n, t) \in Int /\ Delta(s, n, t) <= 0
<1> DEFINE f == [k \in Nodes |-> Score(k, used[k])]
           g == [k \in Nodes |-> Score(k, used'[k])]
           others == Nodes \ {s}
<1>1. n \in Nodes /\ n # s
  BY DEF Candidates
<1>2. /\ used'[n] = With(n, t) /\ used'[s] = Without(s, t)
      /\ \A k \in Nodes \ {s, n} : used'[k] = used[k]
  BY <1>1 DEF Move, TypeOK
<1>3. capacity' = capacity
  BY DEF scenario
<1>4. \A k \in Nodes : Score(k, used[k])' = Score(k, used'[k])
  BY <1>3 DEF Score, Excess
<1>5. Overload = SumFunctionOnSet(f, Nodes) /\ Overload' = SumFunctionOnSet(g, Nodes)
  BY <1>4 DEF Overload
<1>6. /\ Score(n, used'[n]) = 0 /\ Score(n, used[n]) = 0
      /\ Score(s, used'[s]) \in Nat /\ Score(s, used[s]) \in Nat
      /\ Score(s, used'[s]) <= Score(s, used[s])
      /\ Delta(s, n, t) = Score(s, used'[s]) - Score(s, used[s])
  BY <1>2, MoveScores DEF Delta
<1>7. \A k \in others : f[k] \in Nat /\ g[k] = f[k]
  BY <1>1, <1>2, <1>6, ScoreTypes
<1>8. \A k \in Nodes : f[k] \in Int /\ g[k] \in Int
  BY <1>6, <1>7
<1>9. f[s] = Score(s, used[s]) /\ g[s] = Score(s, used'[s])
  OBVIOUS
<1>10. IsFiniteSet(Nodes) /\ IsFiniteSet(others)
  <2>1. IsFiniteSet(Nodes)
    BY SizesAssumption, FS_Interval DEF Nodes
  <2> QED BY <2>1, FS_Subset
<1> HIDE DEF f, g
<1>11. /\ SumFunctionOnSet(f, Nodes) = f[s] + SumFunctionOnSet(f, others)
       /\ SumFunctionOnSet(g, Nodes) = g[s] + SumFunctionOnSet(g, others)
       /\ SumFunctionOnSet(f, others) \in Int
  BY <1>8, <1>10, SumTakesOut
<1>12. SumFunctionOnSet(g, others) = SumFunctionOnSet(f, others)
  BY <1>7, <1>10, SumsOfSame
<1> QED BY <1>5, <1>6, <1>9, <1>11, <1>12

\* The local search ends for every scenario: each move takes something off an
\* overload that is a natural number.  The annealing never adds to it.
THEOREM RebalancingDescends == Spec => OverloadFalls
<1> DEFINE Falls == /\ phase = "search" /\ tenants' # tenants => Overload' \in 0..(Overload - 1)
                    /\ phase = "anneal" => Overload' \in 0..Overload
<1>0. (TypeOK => Overload \in Nat)'
  BY OverloadTypes, PTL
<1>1. ASSUME IInv, IInv', Next
      PROVE  Falls
  <2>1. TypeOK /\ Overload \in Nat /\ Overload' \in Nat
    BY <1>0, <1>1, OverloadTypes DEF IInv
  <2>2. CASE SearchMove
    <3>1. PICK s, n \in Nodes : \E t \in tenants[s] : Helps(s, n, t) /\ Move(s, n, t)
      BY <2>2 DEF SearchMove
    <3>2. UNCHANGED scenario /\ phase = "search"
      BY <2>2 DEF SearchMove
    <3>3. PICK t \in tenants[s] : n \in Candidates(s, t) /\ Delta(s, n, t) < 0 /\ Move(s, n, t)
      BY <3>1 DEF Helps
    <3>4. Overload' = Overload + Delta(s, n, t) /\ Delta(s, n, t) \in Int
      BY <2>1, <3>2, <3>3, MoveOverload
    <3> QED BY <2>1, <3>2, <3>3, <3>4
  <2>3. CASE AnnealRound
    <3>1. PICK s \in Nodes : Skip(s) \/ Proposal(s)
      BY <2>3 DEF AnnealRound
    <3>2. UNCHANGED scenario /\ phase = "anneal"
      BY <2>3 DEF AnnealRound
    <3>3. CASE UNCHANGED <<tenants, used>>
      <4>1. Overload' = Overload
        BY <3>2, <3>3 DEF Overload, Score, Excess, scenario
      <4> QED BY <2>1, <3>2, <4>1
    <3>4. CASE ~UNCHANGED <<tenants, used>>
      <4>1. PICK t \in tenants[s] : \E n \in Candidates(s, t) : Move(s, n, t)
        BY <3>1, <3>4 DEF Skip, Proposal
      <4>2. PICK n \in Candidates(s, t) : Move(s, n, t)
        BY <4>1
      <4>3. /\ Overload' = Overload + Delta(s, n, t)
            /\ Delta(s, n, t) \in Int /\ Delta(s, n, t) <= 0
        BY <2>1, <3>2, <4>2, MoveOverload
      <4> QED BY <2>1, <3>2, <4>3
    <3> QED BY <3>3, <3>4
  <2>4. CASE Assign \/ AssignEnds \/ SearchEnds \/ AnnealEnds
    <3>1. phase \in {"search", "anneal"} => UNCHANGED <<scenario, tenants, used>>
      BY <2>4 DEF Assign, AssignEnds, SearchEnds, AnnealEnds
    <3>2. phase \in {"search", "anneal"} => tenants' = tenants /\ Overload' = Overload
      BY <3>1 DEF Overload, Score, Excess, scenario
    <3> QED BY <2>1, <3>2
  <2> QED BY <1>1, <2>2, <2>3, <2>4 DEF Next
<1>2. IInv /\ IInv' /\ [Next]_vars => [Falls]_vars
  BY <1>1
<1> QED BY <1>2, Invariance, PTL DEF Spec, OverloadFalls
=============================================================================
