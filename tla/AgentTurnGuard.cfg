CONSTANTS
    MaxTurns = 2
    MaxCalls = 2
    MaxBatch = 2
    MaxFolds = 2
    MaxIter = 2
    MaxEmpty = 2
    Sources = {"a", "b"}
    Formats = {"chat"}
    Embeds = TRUE
    Images = TRUE
    Cancels = TRUE
    Fails = TRUE
    Crashes = FALSE
SPECIFICATION Spec
CHECK_DEADLOCK FALSE
INVARIANTS JournalPaired PriorKept RequestsSettled NoSecondAnswerUncancelled
