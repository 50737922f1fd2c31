SPECIFICATION FairSpec
CONSTANTS
    t0 = t0
    t1 = t1
    t2 = t2
    Tuples = {t0, t1}
    Hash <- TwoHashes
    NumLBs = 1
    FPsPerLB = 2
    QueueCapacity = 1
    MaxPackets = 3
    Captures <- Short
    Records <- ShortAndLong
PROPERTY
    StopDelivers
CHECK_DEADLOCK FALSE
