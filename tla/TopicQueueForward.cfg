CONSTANTS
    Topic = {t1, t2}
    MaxMessages = 2
    QueueSize = 1
    InjectSize = 1
    MaxConcurrent = 1
    Kinds = {"text"}
    LiveInjection = FALSE
    Forwards = TRUE
    MaxCancels = 0
    MaxCloses = 0
    Shutdowns = TRUE
SPECIFICATION FairSpec
CHECK_DEADLOCK FALSE
PROPERTY ShutdownReturns
