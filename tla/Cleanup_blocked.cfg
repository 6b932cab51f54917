CONSTANTS
    m1 = m1
    r1 = r1
    k1 = k1
    Messages = {m1}
    Nothing = Nothing
    MqttCap = 3
    DerivedCap = 1
    EdgeCap = 1
    Records = {r1}
    Packets = {k1}
    PacketOf <- OwnPacket
    BatchSize = 1
    RowBudget = 3
    MaxFailures = 0
SPECIFICATION CriticalFairSpec
PROPERTIES
    PausedWorkLetsCleanup
CHECK_DEADLOCK FALSE
