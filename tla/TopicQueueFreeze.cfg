CONSTANTS
    Topic = {t1}
    MaxMessages = 2
    QueueSize = 1
    InjectSize = 1
    MaxConcurrent = 1
    Kinds = {"text"}
    LiveInjection = FALSE
    Forwards = FALSE
    MaxCancels = 0
    MaxCloses = 1
    Shutdowns = FALSE
SPECIFICATION Spec
CHECK_DEADLOCK FALSE
PROPERTY FreezeLiftedByLaterWorker
