CONSTANTS
    Names = {a, b}
    None = None
    Openable = {a}
    MaxSpawns = 1
    MaxCloses = 1
    MaxRestarts = 0
    Races = FALSE
    Fails = TRUE
    Shares = TRUE
    Reuses = FALSE
SPECIFICATION Spec
CHECK_DEADLOCK FALSE
PROPERTY DirKept
