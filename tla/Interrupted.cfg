SPECIFICATION Spec
CONSTANTS
    Publishers = {p1}
    Artifacts <- SomeArtifacts
    Requires <- SomeRequires
    Contents = {c1, c2}
    Absent = Absent
    Partial = Partial
    Nobody = Nobody
    MaxRequests = 3
    MaxFaults = 1
INVARIANT InterruptionIsSafe
CHECK_DEADLOCK FALSE
