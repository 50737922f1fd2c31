SPECIFICATION FairSpec
CONSTANTS
    t0 = t0
    t1 = t1
    t2 = t2
    Tuples = {t0, t1, t2}
    Hash <- ThreeHashes
    NumLBs = 1
    FPsPerLB = 2
    QueueCapacity = 1
    MaxPackets = 6
    Captures <- Short
    Records <- ShortAndLong
INVARIANTS
    TypeOK
    FlowOrder
    NoGapInFlow
    EachPacketInOnePlace
    NothingDiscarded
    ReportAddsUp
PROPERTIES
    ReaderFinishes
    FilterSpec
CHECK_DEADLOCK FALSE
