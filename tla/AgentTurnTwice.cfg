CONSTANTS
    MaxTurns = 1
    MaxCalls = 2
    MaxBatch = 1
    MaxFolds = 1
    MaxIter = 2
    MaxEmpty = 2
    Sources = {"a"}
    Formats = {"chat"}
    Embeds = FALSE
    Images = FALSE
    Cancels = TRUE
    Fails = FALSE
    Crashes = FALSE
SPECIFICATION Spec
CHECK_DEADLOCK FALSE
INVARIANT NoSecondAnswer
