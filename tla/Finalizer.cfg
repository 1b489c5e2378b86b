SPECIFICATION FairSpec
CONSTANTS
    Launchers = {l1, l2}
    OriginalState = "started"
    MaxInvocations = 2
    MaxWait = 1
    MaxDisturbances = 2
    MaxResumes = 1
INVARIANTS
    LedgerHolds
    ObservedBeforeRetry
PROPERTIES
    BackoffHonoured
    ImplementsDelivery
    FinalizationSettles
CHECK_DEADLOCK FALSE
