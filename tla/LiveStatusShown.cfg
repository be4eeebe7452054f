CONSTANTS
    Workers = {w1, w2}
    MaxTurns = 3
    MaxHeld = 1
    MaxCloses = 1
SPECIFICATION LiveSpec
INVARIANT InFlightShown
CHECK_DEADLOCK FALSE
