\* Nothing fails, and yet the row is "completed" before the last result is in.
CONSTANTS
    Subs = {s1, s2, s3}
    StartEvents = {e1}
    Slots = 2
    ChunkSize = 3
    MaxReceive = 1
    MaxStarts = 1
    MaxClaims = 1
    MaxFailures = 0
    SequentialSet = TRUE
    Faults = {}
SPECIFICATION Spec
INVARIANT CompletedMeansFinished
CHECK_DEADLOCK FALSE
