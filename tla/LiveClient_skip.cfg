SPECIFICATION Spec
CONSTANTS
    FirstSeq = 1
    PageLimit = 2
    BatchLimit = 2
    PendingCap = 2
    HydrateRetries = 1
    MaxSeq = 3
    MaxDrops = 1
    MaxFails = 0
    MaxPrunes = 0
    MaxRestores = 0
    MaxPongs = 0
    RetainLast = TRUE
    OldestRestore = 1
    HelloSeqs <- NoLocalSeqs
INVARIANTS
    NoSkippedEvent
