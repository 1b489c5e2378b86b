SPECIFICATION Spec
CONSTANTS
    Finalizers = {f1, f2}
    Free = Free
    MaxReservations = 2
    MaxResumes = 1
    MaxCrashes = 1
SYMMETRY Symmetry
INVARIANTS
    EntryHolds
    ReleasesHold
PROPERTIES
    EntryOutlivesRun
CHECK_DEADLOCK FALSE
