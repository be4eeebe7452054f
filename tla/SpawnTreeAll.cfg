CONSTANTS
    Names = {a, b, c}
    None = None
    Openable = {a, b}
    MaxSpawns = 3
    MaxCloses = 3
    MaxRestarts = 1
    Races = FALSE
    Fails = FALSE
    Shares = TRUE
    Reuses = FALSE
SPECIFICATION Spec
CHECK_DEADLOCK FALSE
INVARIANTS TypeOK NoOrphan
PROPERTIES DirKept RestartKeepsLineage
