SPECIFICATION FairSpec
CONSTANTS
    Flows = {f1, f2}
    MaxPackets = 3
    MaxCrashes = 1
INVARIANTS
    TypeOK
    EveryPacketCounted
    StoredWasProduced
PROPERTY
    ShutdownCompletes
CHECK_DEADLOCK FALSE
