SPECIFICATION Spec
CONSTANTS
    MAX_BITMAP_COUNT = 1
    MaxFrames = 4
    MaxMark = 1
    MaxSeconds = 2
    MaxStarts = 2
INVARIANTS
    MemoryBound
    AudioFirst
    InOrder
    Conservation
PROPERTIES
    ImplementsFrameQueue
CHECK_DEADLOCK FALSE
