SPECIFICATION AllSpec
CONSTANTS
    Conns = {c1, c2, c3}
    PageConns = {c1, c2}
    None = None
    MaxAlerts = 2
    MaxLeaves = 1
PROPERTY ShutdownEnds
CHECK_DEADLOCK FALSE
