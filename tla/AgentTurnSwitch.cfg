CONSTANTS
    MaxTurns = 2
    MaxCalls = 3
    MaxBatch = 2
    MaxFolds = 0
    MaxIter = 2
    MaxEmpty = 2
    Sources = {}
    Formats = {"chat", "blocks"}
    Embeds = FALSE
    Images = FALSE
    Cancels = TRUE
    Fails = FALSE
    Crashes = FALSE
SPECIFICATION Spec
CHECK_DEADLOCK FALSE
INVARIANT PriorKept
