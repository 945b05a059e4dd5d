SPECIFICATION FairSpec
CONSTANTS
    Sizes <- MCSizes
    Screen <- MCScreen
    CELL = 8
    Leftover = {0, 2}
    VideoStep = 3
    AudioStep = 2
    MaxStarts = 2
    MaxPackets = 1
    MaxBitmaps = 1
    MaxFailures = 2
INVARIANTS
    BitmapFits
    NothingLeftOpen
    FileCompleted
PROPERTY DrainEnds
CHECK_DEADLOCK FALSE
