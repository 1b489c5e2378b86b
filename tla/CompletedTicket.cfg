SPECIFICATION Spec
CONSTANTS
    Launchers = {l1}
    OriginalState = "started"
    MaxInvocations = 2
    MaxWait = 1
    MaxDisturbances = 0
    MaxResumes = 0
INVARIANTS
    CompletedTicketAccepted
CHECK_DEADLOCK FALSE
