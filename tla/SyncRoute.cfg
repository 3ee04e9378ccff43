SPECIFICATION FairSpec
CONSTANTS
    One = c1
    Other = c2
    Clients = {c1, c2}
    Urls <- SplitAndPush
    Requested <- SameName
    Resolved <- PerSession
    CachedStreams = {"b"}
    Errors = {"conflict", "projection"}
    Sizes = {2, 3}
    MaximumRequestBytes = 4
    MaximumProposals = 2
    MaximumSyncRounds = 2
    MaximumAttempts = 2
    MaxOperations <- TwoOfOne
    MaxFaults = 1
CHECK_DEADLOCK FALSE
INVARIANTS RouteInv SettledIsDecided
PROPERTIES Drains
