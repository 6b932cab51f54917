SPECIFICATION OneFaultSpec
CONSTANTS
    FirstSeq = 1
    PageLimit = 2
    BatchLimit = 1
    PendingCap = 1
    HydrateRetries = 1
    MaxSeq = 3
    MaxDrops = 1
    MaxFails = 1
    MaxPrunes = 1
    MaxRestores = 0
    MaxPongs = 0
    RetainLast = TRUE
    OldestRestore = 1
    HelloSeqs <- NoLocalSeqs
PROPERTIES
    Converges
