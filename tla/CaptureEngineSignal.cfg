SPECIFICATION FairSpec
CONSTANTS
    a = a
    b = b
    Producers = {a, b}
    QueueCapacity = 1
    KafkaCapacity = 1
    MaxPackets = 1
PROPERTY
    SignalJoins
CHECK_DEADLOCK FALSE
