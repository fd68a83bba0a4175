SPECIFICATION FairSpec
CONSTANTS
    Providers = {a, b}
    Requesters = {r}
    Keys = {k}
    None = None
    MayOverflow = TRUE
    MaxInbox = 1
    MaxSends = 4
    MaxFails = 1
INVARIANTS TablesAgree RequestersInformed PendingIsAwaited
CHECK_DEADLOCK FALSE
PROPERTY PendingEnds
