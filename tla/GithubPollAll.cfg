CONSTANTS
    Issues = {1, 2}
    Labels = {bug, none}
    IssuePage = 1
    IssuePages = 2
    PageSize = 1
    EventsKept = 1
    CompactAbove = 1
    KeysKept = 1
    MaxChanges = 3
    MaxFaults = 1
    MaxRestarts = 1
SPECIFICATION Spec
INVARIANTS NoneBetweenCycles
PROPERTIES TwiceOnlyUntracked TriggersOnce OnlyClosedEnd CatchesUp
CHECK_DEADLOCK FALSE
