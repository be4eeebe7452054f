CONSTANTS
    Issues = {1, 2}
    Labels = {bug, none}
    IssuePage = 1
    IssuePages = 3
    PageSize = 2
    EventsKept = 1
    CompactAbove = 9
    KeysKept = 1
    MaxChanges = 4
    MaxFaults = 0
    MaxRestarts = 0
SPECIFICATION Spec
PROPERTY GenuinelyClosed
CHECK_DEADLOCK FALSE
