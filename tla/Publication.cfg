SPECIFICATION Fair
CONSTANTS
    Publishers = {p1, p2}
    Artifacts <- SomeArtifacts
    Requires <- SomeRequires
    Contents = {c1, c2}
    Absent = Absent
    Partial = Partial
    Nobody = Nobody
    MaxRequests = 3
    MaxFaults = 1
INVARIANTS
    VisibleRevisionHolds
PROPERTIES
    NeverBack
    RequestsSettle
CHECK_DEADLOCK FALSE
