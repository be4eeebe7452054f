CONSTANTS
    MaxTurns = 1
    MaxTexts = 2
    Kinds = {"progress", "final"}
    SendsFail = TRUE
    Hooks = FALSE
    Closes = FALSE
    Crashes = FALSE
SPECIFICATION Spec
CHECK_DEADLOCK FALSE
INVARIANT DirectReplySentOnce
