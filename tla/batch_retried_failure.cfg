\* A job that cannot be run fails, and is delivered again.
CONSTANTS
    Subs = {s1, s2}
    StartEvents = {e1}
    Slots = 2
    ChunkSize = 2
    MaxReceive = 2
    MaxStarts = 1
    MaxClaims = 1
    MaxFailures = 2
    SequentialSet = TRUE
    Faults = {"exec"}
SPECIFICATION Spec
INVARIANT FiredOnce
CHECK_DEADLOCK FALSE
