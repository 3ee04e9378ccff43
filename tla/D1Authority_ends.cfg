CONSTANTS
    Clients = {c1}
    OperationIds = {o1}
    IntentHashes = {h}
    Operations = {x}
    MaximumProposalsPerRequest = 2
    MaximumEntriesPerResponse = 2
    Handlers = {w1, w2}
    MaximumCommitRetries = 2
    MaxRequests = 1
    PageSizes = {2}
SPECIFICATION FairSpec
PROPERTIES CallsEnd
