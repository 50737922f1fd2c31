SPECIFICATION BothSpec
CONSTANTS
    PacketShapes <- Shapes
    CommandLines <- Lines
    MaxPackets = 3
INVARIANTS
    SameAsMulti
    AlertPerBlockedFlow
    CountsAddUp
    NamesWhole
CHECK_DEADLOCK FALSE
