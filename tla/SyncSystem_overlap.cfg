CONSTANTS
    Clients = {c1, c2}
    OperationIds = {o1, o2, o3}
    IntentHashes = {h}
    Operations = {x}
    MaximumProposalsPerRequest = 2
    MaximumEntriesPerResponse = 2
    ProposalLimits = {0, 2}
    EntryLimits = {1, 2}
    MaxRequests = 3
    MaxResponses = 3
SPECIFICATION Spec
SYMMETRY Symmetry
INVARIANTS NoFailure ConfirmedPrefix CommittedOnce ClientOrderKept NoProposalLost OutcomeToldOnce
PROPERTIES AuthorityPermanent NeverReopened
