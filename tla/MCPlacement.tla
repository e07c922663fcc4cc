----------------------------- MODULE MCPlacement -----------------------------
(***************************************************************************)
(* Small scenarios of the placement simulator for TLC: two nodes in one    *)
(* region and one in another; tenants also prefer a region without nodes.  *)
(***************************************************************************)
EXTENDS Placement

Rooms == <<"east", "east", "west">>
AllRegions == {"east", "west", "central"}
NodeZones == <<"z1", "z2", "z1">>
AllZones == {"z1", "z2"}

Vector(cpu, iops, rest) == [d \in Resources |->
    CASE d = "cpu" -> cpu [] d = "iops" -> iops [] OTHER -> rest]

\* A small tenant, a large one, and one that no node has the operations for.
TenantLoads == {Vector(1, 1, 1), Vector(2, 1, 1), Vector(2, 5, 1)}
NodeCapacities == {Vector(2, 4, 4), Vector(3, 4, 4)}

\* Two tenants prefer the region of two nodes, one may ask for a zone, and
\* only the second node has few processors.
MCInit ==
    /\ region \in {f \in [Tenants -> AllRegions] : \A t \in 1..2 : f[t] = "east"}
    /\ zone \in {[t \in Tenants |-> IF t = 1 THEN z ELSE NoZone] : z \in {"z1", NoZone}}
    /\ capacity = [n \in Nodes |-> Vector(IF n = 2 THEN 2 ELSE 3, 4, 4)]
    /\ Init

MCSpec == MCInit /\ [][Next]_vars /\ WF_vars(Next)
=============================================================================
