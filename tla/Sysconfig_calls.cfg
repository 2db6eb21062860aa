SPECIFICATION Spec
CONSTANTS
    Calls = {i1, i2}
    Settings = {"tor", "bitcoin_ibd_clearnet", "hostname"}
    MaxCalls = 3
    MaxFaults = 1
SYMMETRY Symmetry
INVARIANTS
    
    DriveIsReleased
    FirstErrorIsReturned
    
CHECK_DEADLOCK FALSE
