CONSTANTS
    MaxTurns = 2
    MaxTexts = 2
    Kinds = {"progress", "question", "final"}
    SendsFail = TRUE
    Hooks = TRUE
    Closes = TRUE
    Crashes = TRUE
SPECIFICATION FairSpec
CHECK_DEADLOCK FALSE
INVARIANT FinalDeliveredOnce
PROPERTY TurnEnds
