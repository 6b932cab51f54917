CONSTANTS
    c1 = c1
    c2 = c2
    l1 = l1
    b1 = b1
    Requests = {c1, l1, b1}
    LaneOf <- EveryLane
    InCap = 1
    Cancelable = {c1}
    Reissue = TRUE
    NoRequest = NoRequest
    n1 = n1
    Nodes = {n1}
    NoNode = NoNode
    Batches <- EveryKind
    MaxJobs = 1
    MaxRetries = 1
    MaxCrashes = 1
    Ambiguous = TRUE
SPECIFICATION BackendFairSpec
INVARIANTS
    IInv
    OncePerKey
    BatchPublished
PROPERTIES
    LiveLaneServed
    ShutdownCompletes
    CacheConverges
CHECK_DEADLOCK FALSE
