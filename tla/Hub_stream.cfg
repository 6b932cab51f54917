CONSTANTS
    a1 = a1
    a2 = a2
    ip1 = ip1
    Attempts = {a1, a2}
    Ips = {ip1}
    IpOf <- SameAddress
    QueueSize = 1
    MaxClients = 1
    MaxPerIP = 2
    MaxEvents = 2
    MaxPings = 1
SPECIFICATION Spec
INVARIANTS
    HelloThenStream
CHECK_DEADLOCK FALSE
SYMMETRY EqualAttempts
