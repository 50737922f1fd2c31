SPECIFICATION FairSpec
CONSTANTS
    a = a
    b = b
    Producers = {a, b}
    QueueCapacity = 2
    KafkaCapacity = 1
    MaxPackets = 4
INVARIANTS
    TypeOK
    EveryPacketCounted
    NothingLeftBehind
PROPERTY
    StopJoins
CHECK_DEADLOCK FALSE
