CONSTANTS
    a1 = a1
    a2 = a2
    ip1 = ip1
    Attempts = {a1}
    Ips = {ip1}
    IpOf <- Alone
    QueueSize = 1
    MaxClients = 1
    MaxPerIP = 1
    MaxEvents = 3
    MaxPings = 0
SPECIFICATION Spec
INVARIANTS
    ResumableCursor
CHECK_DEADLOCK FALSE
