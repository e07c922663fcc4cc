\* Placement: four tenants of three sizes on three nodes.
CONSTANTS
    NumNodes = 3
    NumTenants = 4
    Regions <- AllRegions
    NodeRegion <- Rooms
    Zones <- AllZones
    NodeZone <- NodeZones
    NoZone = NoZone
    Loads <- TenantLoads
    Capacities <- NodeCapacities
    Unit = 12
    AnnealingRounds = 3
SPECIFICATION MCSpec
INVARIANTS
    TypeOK
    PlacedOnce
    UsedIsSum
    RegionKept
    NoCandidateWorsens
PROPERTIES
    NoNewOverload
    OverloadFalls
    Returns
CHECK_DEADLOCK FALSE
