SPECIFICATION Fair
CONSTANTS
    Requests = {q1, q2}
    Descriptors = {d1, d2}
    Versions = {v1, v2}
    Original = Original
    None = None
    MaxDisturbances = 1
    MaxOutside = 1
INVARIANTS
    ReleaseHolds
    PointerTracksRun
    CompletedIsRecoverable
PROPERTIES
    ImplementsSwap
    EndedIsReplaced
CHECK_DEADLOCK FALSE
