SPECIFICATION Spec
CONSTANTS
    MaxCrewIterations = 2
    NoValue = NoValue
    Supervisors = {p1, p2}
    Manifests = {m1, m2}
    Positioned = TRUE
    ExecutorFails = TRUE
    ContractChanges <- MCContractChanges
    MaxRepairs = 1
    MaxResumes = 1
    MaxCrashes = 1
    MaxRecords = 2
SYMMETRY Symmetry
INVARIANTS
    CheckpointsHold
    ApprovalBinding
    RoutesAccepted
PROPERTIES
    RetryResumesAtOwner
CHECK_DEADLOCK FALSE
