SPECIFICATION Spec
CONSTANTS
    Finalizers = {f1}
    Free = Free
    MaxReservations = 2
    MaxResumes = 0
    MaxCrashes = 0
INVARIANTS
    OneLiveRun
CHECK_DEADLOCK FALSE
