SPECIFICATION FairSpec
CONSTANTS
    Writers = {w1, w2}
    Readers = {r1}
    s1 = s1
    s2 = s2
    s3 = s3
    States <- MCStates
    InitialState = s1
    Steps <- MCSteps
    Empty = Empty
    Unknown = Unknown
    NoOne = NoOne
    MaxRevision = 3
    MaxCrashes = 2
INVARIANTS
    TypeOK
    LegalHistory
PROPERTIES
    OrphanDecides
    ReadOnlyLoadIsCurrent
    ImplementsRegister
    InitialStateEventuallyStored
