\* Nothing fails; the START request is sent twice, the jobs go out in two
\* chunks and run two at a time.
CONSTANTS
    Subs = {s1, s2, s3}
    StartEvents = {e1, e2}
    Slots = 2
    ChunkSize = 2
    MaxReceive = 2
    MaxStarts = 2
    MaxClaims = 2
    MaxFailures = 0
    SequentialSet = TRUE
    Faults = {}
SPECIFICATION FairSpec
INVARIANT CountedAreFinished
PROPERTY ContractSpec
\* The pipeline rests once the batch is done.
CHECK_DEADLOCK FALSE
