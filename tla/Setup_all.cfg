SPECIFICATION Spec
CONSTANTS
    Clients = {c1, c2}
    Passwords = {d, p, q}
    Default = d
INVARIANTS
    ConfirmedChangeLasts
    StatusIsSafe
    InitialPasswordWorks
    FlagIsEarned
