\* One preparer: a branch that fails, its restore, one resume.
SPECIFICATION Fair
CONSTANTS
    Preparers = {p1}
    MaxDisturbances = 1
    MaxResumes = 1
PROPERTY
    ResumeRepeatsBranch
CHECK_DEADLOCK FALSE
