CONSTANTS
    Topic = {t1}
    MaxMessages = 3
    QueueSize = 2
    InjectSize = 1
    MaxConcurrent = 2
    Kinds = {"text"}
    LiveInjection = TRUE
    Forwards = FALSE
    MaxCancels = 0
    MaxCloses = 1
    Shutdowns = FALSE
SPECIFICATION Spec
CHECK_DEADLOCK FALSE
INVARIANT SequentialPerTopic
