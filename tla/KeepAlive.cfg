SPECIFICATION KeepFairSpec
CONSTANTS
    RANGE = 16
    TimeOuts = {0, 3}
    PollGap = 2
PROPERTIES
    FalseAlarmOnlyTorn
    SilenceIsReported
CHECK_DEADLOCK FALSE
