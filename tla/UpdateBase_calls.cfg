SPECIFICATION FairSpec
CONSTANTS
    Calls = {c1, c2}
    Percentages = {97, 98}
INVARIANTS
    AppSeesCurrentProgress
    RefusalIsJustified
    RebootAfterInstall
PROPERTIES
    CallReturns
CHECK_DEADLOCK FALSE
