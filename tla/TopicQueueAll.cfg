CONSTANTS
    Topic = {t1}
    MaxMessages = 3
    QueueSize = 1
    InjectSize = 1
    MaxConcurrent = 1
    Kinds = {"command", "mismatch"}
    LiveInjection = TRUE
    Forwards = TRUE
    MaxCancels = 1
    MaxCloses = 1
    Shutdowns = TRUE
SPECIFICATION Spec
CHECK_DEADLOCK FALSE
INVARIANTS PermitsBalanced AcceptedInOnePlace WorkerReachable
PROPERTIES ImplementsService FirstCloseReachesWorkers
