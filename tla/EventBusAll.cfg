CONSTANTS
    Publishers = {agent, watcher}
    Subscribers = {dash, chat}
    LogCapacity = 2
    MaxEvents = 3
SPECIFICATION FairSpec
CHECK_DEADLOCK FALSE
INVARIANTS SourceOrder NoEventMissed
PROPERTY EventsArrive
