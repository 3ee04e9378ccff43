SPECIFICATION Spec
CHECK_DEADLOCK FALSE
CONSTANTS
    t1 = t1
    t2 = t2
    Tabs = {t1, t2}
    Calls <- CallNames
    MaximumEntries = 1
    MaximumProposals = 1
    MaximumSyncRounds = 2
    MaximumAttempts = 2
    MaxForeign = 1
CONSTRAINT WithinBounds
SYMMETRY TabSymmetry
INVARIANTS ClientInv SyncDrains ReadYourWrites NoCallStuck
PROPERTIES ViewForward
