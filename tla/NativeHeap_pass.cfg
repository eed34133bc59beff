SPECIFICATION Spec
CONSTANTS
    StaticEnd = 60000
    InitialPages = 2
    MaxPages = 3
    Requests <- SmallRequests
    Capacities <- SmallCapacities
    KeeperLengths <- SmallKeepers
    MaxScopes = 3
    MaxAllocations = 4
INVARIANTS
    RegionSafe
    PoolReserved
    KeeperCopySound
    BytesBacked
    MarksNested
CHECK_DEADLOCK FALSE
