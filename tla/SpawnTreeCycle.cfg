CONSTANTS
    Names = {a, b}
    None = None
    Openable = {a}
    MaxSpawns = 2
    MaxCloses = 1
    MaxRestarts = 1
    Races = FALSE
    Fails = TRUE
    Shares = FALSE
    Reuses = TRUE
SPECIFICATION Spec
CHECK_DEADLOCK FALSE
INVARIANT ClosureTerminates
