SPECIFICATION Fair
CONSTANTS
    Roots = 1
    Checks = 1
    MaxCalls = 0
    MaxDisturbances = 0
INVARIANT
    ReadyWithinTimeout
CHECK_DEADLOCK FALSE
