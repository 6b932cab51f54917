SPECIFICATION Spec
CONSTANTS
    FirstSeq = 1
    PageLimit = 1
    BatchLimit = 1
    PendingCap = 1
    HydrateRetries = 1
    MaxSeq = 3
    MaxDrops = 1
    MaxFails = 1
    MaxPrunes = 0
    MaxRestores = 0
    MaxPongs = 1
    RetainLast = TRUE
    OldestRestore = 1
    HelloSeqs <- NoLocalSeqs
INVARIANTS
    NothingBeyondCursor
    QueueWatermark
    QuietIsCaughtUp
CONSTRAINT TwoFaults
