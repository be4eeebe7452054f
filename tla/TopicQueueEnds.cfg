CONSTANTS
    Topic = {t1, t2}
    MaxMessages = 3
    QueueSize = 1
    InjectSize = 1
    MaxConcurrent = 1
    Kinds = {"text"}
    LiveInjection = TRUE
    Forwards = TRUE
    MaxCancels = 1
    MaxCloses = 0
    Shutdowns = TRUE
SPECIFICATION FairSpec
CHECK_DEADLOCK FALSE
PROPERTIES AcceptedSettles StoppedWorkersEnd ShutdownCompletes
