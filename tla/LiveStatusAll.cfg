CONSTANTS
    Workers = {w1, w2}
    MaxTurns = 3
    MaxHeld = 1
    MaxCloses = 1
SPECIFICATION LiveSpec
INVARIANTS QuietIsIdle ShownAsItIs
CHECK_DEADLOCK FALSE
