CONSTANTS
    Issues = {1, 2}
    Labels = {bug, none}
    IssuePage = 1
    IssuePages = 2
    PageSize = 2
    EventsKept = 1
    CompactAbove = 9
    KeysKept = 1
    MaxChanges = 4
    MaxFaults = 1
    MaxRestarts = 0
SPECIFICATION Spec
INVARIANT ClosuresReported
CHECK_DEADLOCK FALSE
