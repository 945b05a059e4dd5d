SPECIFICATION FairSpec
CONSTANTS
    MaxRecorders = 2
    MaxPosts = 2
    MaxErrors = 1
    Faults = {"open", "write", "timeout"}
    Patient = TRUE
INVARIANTS
    NullOnlyAfterError
PROPERTIES
    StopCompletes
    TerminateCloses
    RecorderReclaimed
CHECK_DEADLOCK FALSE
