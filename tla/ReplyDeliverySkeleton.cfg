CONSTANTS
    MaxTurns = 1
    MaxTexts = 1
    Kinds = {"final"}
    SendsFail = TRUE
    Hooks = FALSE
    Closes = TRUE
    Crashes = FALSE
SPECIFICATION Spec
CHECK_DEADLOCK FALSE
INVARIANT ClosedStateStaysDeleted
