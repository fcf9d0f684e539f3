\* The second chunk of a fan-out fails after the first was sent.
CONSTANTS
    Subs = {s1, s2}
    StartEvents = {e1}
    Slots = 1
    ChunkSize = 1
    MaxReceive = 1
    MaxStarts = 2
    MaxClaims = 2
    MaxFailures = 1
    SequentialSet = TRUE
    Faults = {"publish"}
SPECIFICATION Spec
INVARIANT ConsumedMeansPublished
CHECK_DEADLOCK FALSE
