SPECIFICATION Spec
CONSTANTS
    MaxClients = 2
    MaxEvents = 2
    MaxCalls = 1
    Producers = {p1}
    Queueing = {p1}
    Faulty = TRUE
INVARIANTS
    TargetIsRegistered
    LiveEventsComplete
PROPERTIES
    WedgedForever
CHECK_DEADLOCK FALSE
