SPECIFICATION FairSpec
CONSTANTS
    MaxClients = 2
    MaxEvents = 2
    MaxCalls = 0
    Producers = {p1, p2}
    Queueing = {p1}
    Faulty = FALSE
PROPERTIES
    BroadcastReachesClients
    QueuedReachesNextClient
CHECK_DEADLOCK FALSE
