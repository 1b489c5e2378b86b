SPECIFICATION FairSpec
CONSTANTS
    MaxCrewIterations = 2
    NoValue = NoValue
    Supervisors = {p1, p2}
    Manifests = {m1}
    Positioned = TRUE
    ExecutorFails = TRUE
    ContractChanges <- OneContractChange
    MaxRepairs = 1
    MaxResumes = 0
    MaxCrashes = 1
    MaxRecords = 1
PROPERTIES
    RunConverges
CHECK_DEADLOCK FALSE
