SPECIFICATION Spec
CONSTANTS
    HeapStart = 65508
    HostStart = 65520
    MaxAddress = 330000
    InitialPages = 2
    MaxPages = 3
    HostSizes <- SmallHostSizes
    Requests <- SmallRequests
    Capacities <- SmallCapacities
    MayFindInputs = FALSE
    MaxScopes = 3
    MaxAllocations = 3
INVARIANTS
    TypeOK
    BlocksApart
    BelowHeapTop
    EmptyStringIntact
    OuterBlocksSpared
PROPERTY PopReclaims
CHECK_DEADLOCK FALSE
