SPECIFICATION Spec
CONSTANTS
    Launchers = {l1}
    OriginalState = "unstarted"
    MaxInvocations = 2
    MaxWait = 1
    MaxDisturbances = 0
    MaxResumes = 0
PROPERTIES
    StartedTicketAccepted
CHECK_DEADLOCK FALSE
