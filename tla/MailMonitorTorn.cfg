CONSTANTS
    MaxMails = 1
    MaxEpoch = 1
    MaxFaults = 0
    MaxStops = 1
    CompactAbove = 1
    KeepBelow = 0
    Reports = TRUE
SPECIFICATION Spec
INVARIANT StateReadable
CHECK_DEADLOCK FALSE
