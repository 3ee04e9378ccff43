CONSTANTS
    TabA = TabA
    TabB = TabB
    Installation = Installation
    NoId = NoId
    Tabs = {TabA, TabB}
    OptionId <- MixedIds
    MaxOpens = 4
    MaxDeletions = 2
    MaxWrites = 3
SPECIFICATION FairSpec
CHECK_DEADLOCK FALSE
INVARIANTS LifecycleInv RandomPositionsFresh
PROPERTIES RequestsEnd
