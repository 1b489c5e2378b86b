\* Two prepare commands at a time, three disturbances in any mixture and two
\* resumes, so that a compensated run is resumed and may fail again.
SPECIFICATION Fair
CONSTANTS
    Preparers = {p1, p2}
    MaxDisturbances = 3
    MaxResumes = 2
INVARIANTS
    BranchIsIntended
    HandedOver
    CompensationIsEarned
PROPERTIES
    PreparationSettles
\* A preparation that has its branch, or was abandoned, is over.
CHECK_DEADLOCK FALSE
