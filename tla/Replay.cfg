SPECIFICATION FairSpec
CONSTANTS
    Finalizers = {f1}
    Free = Free
    MaxReservations = 1
    MaxResumes = 0
    MaxCrashes = 1
PROPERTIES
    ReplayAnswers
CHECK_DEADLOCK FALSE
