SPECIFICATION Spec
CONSTANTS
    FirstSeq = 1
    PageLimit = 2
    BatchLimit = 1
    PendingCap = 1
    HydrateRetries = 1
    MaxSeq = 2
    MaxDrops = 0
    MaxFails = 1
    MaxPrunes = 0
    MaxRestores = 1
    MaxPongs = 0
    RetainLast = TRUE
    OldestRestore = 0
    HelloSeqs <- LocalSeqs
INVARIANTS
    WakeUpArmed
PROPERTIES
    CursorOnlyBackByReset
