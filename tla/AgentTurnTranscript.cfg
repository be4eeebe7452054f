CONSTANTS
    MaxTurns = 3
    MaxCalls = 3
    MaxBatch = 2
    MaxFolds = 0
    MaxIter = 2
    MaxEmpty = 2
    Sources = {}
    Formats = {"chat", "blocks"}
    Embeds = FALSE
    Images = TRUE
    Cancels = TRUE
    Fails = TRUE
    Crashes = TRUE
SPECIFICATION Spec
CHECK_DEADLOCK FALSE
INVARIANTS TypeOK SentAccepted
