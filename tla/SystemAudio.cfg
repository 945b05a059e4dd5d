SPECIFICATION Spec
CONSTANTS
    PACKET = 2
    CHUNK = 3
    CONVERTED = 3
    FRAMES = 4
    QUEUE_LIMIT = 1
    MaxStarts = 2
    MaxPackets = 6
    MaxFailures = 1
INVARIANTS
    WorkerHoldsClient
    BacklogBounded
    SoundInOrder
    OldSoundBounded
CHECK_DEADLOCK FALSE
