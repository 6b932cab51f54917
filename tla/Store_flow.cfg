CONSTANTS
    m1 = m1
    Messages = {m1}
    Nothing = Nothing
    MqttCap = 1
    DerivedCap = 1
    EdgeCap = 1
    r1 = r1
    r2 = r2
    k1 = k1
    Records = {r1, r2}
    Packets = {k1}
    PacketOf <- OnePacket
    BatchSize = 1
    RowBudget = 2
    MaxFailures = 1
SPECIFICATION StoreFairSpec
INVARIANTS
    InFlightExact
    TimesMatchWork
    AgeClears
PROPERTIES
    LosslessStages
    BackpressureReleases
    DispatcherReturns
    LoopsEnd
    CleanupExact
    CleanupCatchesUp
CHECK_DEADLOCK FALSE
