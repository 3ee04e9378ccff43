CONSTANTS
    Clients = {c1, c2}
    OperationIds = {o1, o2}
    IntentHashes = {h1, h2}
    Operations = {x, y}
    MaximumProposalsPerRequest = 2
    MaximumEntriesPerResponse = 1
    ProposalLimits = {1, 2}
    EntryLimits = {2}
    MaxRequests = 3
    MaxResponses = 3
SPECIFICATION Spec
SYMMETRY Symmetry
INVARIANTS IInv
PROPERTIES ImplementsCanonicalLog
