SPECIFICATION PlayerFairSpec
CONSTANTS
    MaxAsked = 4
    Length = 2
    SoundTick = 3
    PictureTick = 2
INVARIANTS
    
    PacketsAccounted
PROPERTIES
    PlayReachesEnd
CHECK_DEADLOCK FALSE
