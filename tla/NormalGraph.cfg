SPECIFICATION Spec
CONSTANTS
    MaxCrewIterations = 2
    NoValue = NoValue
    Supervisors = {p1}
    Manifests = {m1}
    Positioned = FALSE
    ExecutorFails = FALSE
    ContractChanges = {}
    MaxRepairs = 0
    MaxResumes = 0
    MaxCrashes = 0
    MaxRecords = 0
INVARIANTS
    NormalGraph
CHECK_DEADLOCK FALSE
