CONSTANTS
    Clients = {c1, c2}
    OperationIds = {o1, o2}
    IntentHashes = {h}
    Operations = {x}
    MaximumProposalsPerRequest = 2
    MaximumEntriesPerResponse = 2
    Handlers = {w1, w2}
    MaximumCommitRetries = 1
    MaxRequests = 2
    PageSizes = {1}
SPECIFICATION Spec
SYMMETRY Symmetry
INVARIANTS TablesAgree D1ClientOrderKept AnswersTrue D1Inv RetryMeansProgress
PROPERTIES DecidedOnCurrentState ImplementsCanonicalLog
