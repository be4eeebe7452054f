CONSTANTS
    MaxMails = 1
    MaxEpoch = 2
    MaxFaults = 0
    MaxStops = 1
    CompactAbove = 1
    KeepBelow = 0
    Reports = TRUE
SPECIFICATION Spec
INVARIANT EpochVoidsUids
CHECK_DEADLOCK FALSE
