CONSTANTS
    MaxMails = 3
    MaxEpoch = 2
    MaxFaults = 1
    MaxStops = 1
    CompactAbove = 1
    KeepBelow = 0
    Reports = TRUE
SPECIFICATION Spec
INVARIANTS NothingSkipped TwiceOnlyUntracked CursorOfEpoch
PROPERTY CatchesUp
CHECK_DEADLOCK FALSE
