CONSTANTS
    Clients = {c1, c2}
    MaxRetry <- MCMaxRetry
    Handlers <- MCAttempts
    Names = {n1, n2}
    None = None
    c1 = c1
    c2 = c2
    n1 = n1
    n2 = n2
SPECIFICATION MCSpec
CHECK_DEADLOCK FALSE
INVARIANTS
    RpcTypeOK
    ManifestCountsPuts
    StoredPutsAreVisible
    CatalogIsComplete
    AnswersHold
PROPERTIES
    EveryRequestIsAnswered
    ImplementsAtLeastOnce
