CONSTANTS
    Workers = {w1, w2}
    MaxTurns = 3
    MaxHeld = 1
    MaxCloses = 1
SPECIFICATION LiveSpec
INVARIANT ClosedForgotten
CHECK_DEADLOCK FALSE
