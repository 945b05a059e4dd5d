SPECIFICATION FairSpec
CONSTANTS
    INTERVAL_AUDIO_COUNT_LIMIT = 1
    VideoStep = 3
    Leftover <- MCLeftover
    AudioStep = 2
    MaxPackets = 3
    MaxFrames = 2
    MaxStarts = 1
    MaxPauses = 1
    MaxErrors = 1
    MaxFailures = 1
INVARIANTS
    SoundBeforePicture
    MediaFollowState
PROPERTIES
    LipSync
    ImplementsAudioRecording
    StopCompletes
CHECK_DEADLOCK FALSE
