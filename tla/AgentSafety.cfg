SPECIFICATION Spec
CONSTANTS
    MaxRecorders = 2
    MaxPosts = 3
    MaxErrors = 1
    Faults = {"parse", "open", "write", "timeout", "encode"}
    Patient = FALSE
INVARIANTS
    RecorderExists
    DeletedAtRest
PROPERTIES
    ImplementsSessions
CHECK_DEADLOCK FALSE
