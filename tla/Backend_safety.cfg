CONSTANTS
    c1 = c1
    c2 = c2
    l1 = l1
    b1 = b1
    Requests = {c1, c2, l1, b1}
    LaneOf <- MixedLanes
    InCap = 2
    Cancelable = {c1}
    Reissue = FALSE
    NoRequest = NoRequest
    n1 = n1
    Nodes = {n1}
    NoNode = NoNode
    Batches <- EdgesOnly
    MaxJobs = 2
    MaxRetries = 1
    MaxCrashes = 1
    Ambiguous = FALSE
SPECIFICATION BackendSpec
INVARIANTS
    OutcomeHonest
    AlternationBound
    DepthAccurate
    Placement
    WireIncreases
    SnapshotCovers
    NodesCovered
PROPERTIES
    LaneFifo
    BackgroundYields
CHECK_DEADLOCK FALSE
