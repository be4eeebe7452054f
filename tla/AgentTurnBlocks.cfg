CONSTANTS
    MaxTurns = 1
    MaxCalls = 2
    MaxBatch = 2
    MaxFolds = 0
    MaxIter = 2
    MaxEmpty = 2
    Sources = {}
    Formats = {"blocks"}
    Embeds = FALSE
    Images = FALSE
    Cancels = TRUE
    Fails = FALSE
    Crashes = FALSE
SPECIFICATION Spec
CHECK_DEADLOCK FALSE
INVARIANT JournalPaired
