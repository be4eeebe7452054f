CONSTANTS
    Tasks = {t1, t2}
    PageSize = 2
    DedupSize = 2
    Systems = {2}
    MaxMessages = 3
    MaxBacklog = 2
    MaxNotes = 3
    MaxFaults = 1
SPECIFICATION Spec
INVARIANTS NothingPassedOver TwiceOnlyForgotten QuietMeansSaved
PROPERTY MessagesSettle
CHECK_DEADLOCK FALSE
