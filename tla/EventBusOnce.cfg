CONSTANTS
    Publishers = {agent}
    Subscribers = {dash}
    LogCapacity = 2
    MaxEvents = 2
SPECIFICATION Spec
CHECK_DEADLOCK FALSE
INVARIANT DeliveredOnce
