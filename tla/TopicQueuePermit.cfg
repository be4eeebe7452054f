CONSTANTS
    Topic = {t1}
    MaxMessages = 2
    QueueSize = 1
    InjectSize = 1
    MaxConcurrent = 1
    Kinds = {"text", "mismatch"}
    LiveInjection = TRUE
    Forwards = FALSE
    MaxCancels = 0
    MaxCloses = 0
    Shutdowns = FALSE
SPECIFICATION Spec
CHECK_DEADLOCK FALSE
INVARIANT EmptyQueueHoldsNoPermit
