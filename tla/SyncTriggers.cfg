CONSTANTS
    Tabs = {tab}
    Streams = {one}
    Options <- OneTrigger
    Network = {TRUE}
    MaxKeys = 2
    MaxWrites = 1
    MaxOutages = 1
SPECIFICATION FairSpec
CHECK_DEADLOCK FALSE
INVARIANTS TriggersInv
PROPERTIES PendingDrains Quiesces
