SPECIFICATION FairSpec
CONSTANTS
    Finalizers = {f1}
    Free = Free
    MaxReservations = 2
    MaxResumes = 0
    MaxCrashes = 1
PROPERTIES
    ClaimIsPublished
    DoneIsReleased
CHECK_DEADLOCK FALSE
