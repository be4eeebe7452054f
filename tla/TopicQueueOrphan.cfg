CONSTANTS
    Topic = {t1}
    MaxMessages = 3
    QueueSize = 1
    InjectSize = 1
    MaxConcurrent = 2
    Kinds = {"text"}
    LiveInjection = FALSE
    Forwards = FALSE
    MaxCancels = 0
    MaxCloses = 2
    Shutdowns = FALSE
SPECIFICATION Spec
CHECK_DEADLOCK FALSE
PROPERTY CloseReachesWorkers
