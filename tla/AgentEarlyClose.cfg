\* TERMINATE during the recording after another.
SPECIFICATION Spec
CONSTANTS
    MaxRecorders = 2
    MaxPosts = 2
    MaxErrors = 0
    Faults = {}
    Patient = TRUE
INVARIANT ClosedWhenDrained
CHECK_DEADLOCK FALSE
