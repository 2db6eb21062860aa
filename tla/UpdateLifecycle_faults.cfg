SPECIFICATION FairSpec
CONSTANTS
    MaxInstalls = 4
    MaxTries = 3
    Faults = {"verify", "boot", "commit", "abort", "redis", "crash"}
INVARIANTS
    CommittedWasVerified
    SuccessIsReal
    FailureIsReal
    TrialIsKnown
PROPERTIES
    ImplementsAtomicUpdate
    OutcomeIsAnnounced
CHECK_DEADLOCK FALSE
