CONSTANTS
    First = o1
    Second = o2
    Third = o3
    A = c1
    B = c2
    Hash = h1
    Clients = {c1, c2}
    OperationIds = {o1, o2, o3}
    IntentHashes = {h1, h2}
    Operations = {x}
    MaximumProposalsPerRequest = 2
    MaximumEntriesPerResponse = 1
    Proposals <- Reused
    MaxCrashes = 2
    MaxCorruptions = 1
SPECIFICATION Spec
CHECK_DEADLOCK FALSE
INVARIANTS RestoreInv
PROPERTIES ImplementsDurableLog
