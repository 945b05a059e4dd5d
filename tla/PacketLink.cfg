SPECIFICATION FairSpec
CONSTANTS
    Clients = {a}
    MaxConns = 2
    Sizes = {1, 40000, 65533, 65535, 65540}
    MaxPackets = 3
    MaxBig = 1
    MaxBreaks = 1
    MaxRelays = 2
    Room = 2
INVARIANTS
    PacketsInOrder
    EndReportedOnce
PROPERTIES
    GoneIsNoticed
CHECK_DEADLOCK FALSE
