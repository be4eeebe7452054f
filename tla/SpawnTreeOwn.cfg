CONSTANTS
    Names = {a, b, c}
    None = None
    Openable = {a, b}
    MaxSpawns = 2
    MaxCloses = 2
    MaxRestarts = 1
    Races = TRUE
    Fails = TRUE
    Shares = FALSE
    Reuses = TRUE
SPECIFICATION Spec
CHECK_DEADLOCK FALSE
PROPERTY TakenWithParent
