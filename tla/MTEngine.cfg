SPECIFICATION MTFairSpec
CONSTANTS
    t0 = t0
    t1 = t1
    Tuples = {t0, t1}
    Hash <- TwoHashes
    NumLBs = 2
    FPsPerLB = 1
    QueueCapacity = 1
    MaxPackets = 3
    Captures <- AllCaptures
    Records <- AllRecords
INVARIANTS
    BlockedForGood
    AllWritten
PROPERTIES
    ProcessReturns
    FilterSpec
CHECK_DEADLOCK FALSE
