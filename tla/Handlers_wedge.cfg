SPECIFICATION FairSpec
CONSTANTS
    MaxClients = 1
    MaxEvents = 3
    MaxCalls = 0
    Producers = {p1}
    Queueing = {}
    Faulty = TRUE
PROPERTIES
    ListensIndefinitely
CHECK_DEADLOCK FALSE
