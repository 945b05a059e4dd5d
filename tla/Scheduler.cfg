SPECIFICATION FairSpec
CONSTANTS
    Callers = {c1, c2}
    MaxTasks = 3
    MaxCalls = 2
    MaxRepeats = 2
INVARIANTS
    TasksInOrder
    LateRepeatBounded
PROPERTIES
    TaskRuns
CHECK_DEADLOCK FALSE
