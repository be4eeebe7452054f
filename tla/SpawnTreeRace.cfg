CONSTANTS
    Names = {a, b}
    None = None
    Openable = {a}
    MaxSpawns = 1
    MaxCloses = 1
    MaxRestarts = 0
    Races = TRUE
    Fails = FALSE
    Shares = FALSE
    Reuses = FALSE
SPECIFICATION Spec
CHECK_DEADLOCK FALSE
INVARIANT NoOrphan
