SPECIFICATION Fair
CONSTANTS
    Roots = 2
    Checks = 2
    MaxCalls = 2
    MaxDisturbances = 3
INVARIANTS
    ResourcesAreOwned
    PassesAreEarned
PROPERTIES
    RunEnds
CHECK_DEADLOCK FALSE
