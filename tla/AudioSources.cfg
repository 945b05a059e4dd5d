SPECIFICATION Spec
CONSTANTS
    INTERVAL = 2
    MaxInt = 3
    MaxTime = 5
    MaxPackets = 3
    MaxPauses = 2
INVARIANTS
    NumberedInOrder
    AtPace
    OneSource
CHECK_DEADLOCK FALSE
