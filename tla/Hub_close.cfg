CONSTANTS
    a1 = a1
    a2 = a2
    ip1 = ip1
    s1 = s1
    s2 = s2
    s3 = s3
    p1 = p1
    p2 = p2
    p3 = p3
    Attempts = {a1, a2}
    Ips = {ip1}
    IpOf <- SameAddress
    QueueSize = 1
    MaxClients = 2
    MaxPerIP = 1
    MaxEvents = 1
    MaxPings = 1
    Sockets = {s1, s2, s3}
    NoSocket = NoSocket
    MaxWsFaults = 4
    MaxCycles = 4
    PahoClients = {p1, p2, p3}
    NoClient = NoClient
    MaxFaults = 2
SPECIFICATION EndsFairSpec
INVARIANTS
    SlotsExact
    SomethingIsComing
    ClosedArmsNothing
    ResumeOwed
    OneLiveClient
PROPERTIES
    DeadIsReleased
    SocketSettles
    RefreshesInSight
    SessionComesBack
CHECK_DEADLOCK FALSE
