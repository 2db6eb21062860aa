SPECIFICATION FairSpec
CONSTANTS
    Conns = {c1, c2}
    Clients = {k1, k2}
    BootTimeout = 2
    MaxKeys = 2
    MaxFaults = 1
INVARIANTS
    PairedWasAccepted
    UsableIsPaired
    StoredIsKept
PROPERTIES
    StartDecides
CHECK_DEADLOCK FALSE
