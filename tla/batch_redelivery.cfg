\* Failures that SQS makes up for by delivering again: jobs that cannot run,
\* partial fan-outs, failed acknowledgements, crashes.
CONSTANTS
    Subs = {s1, s2}
    StartEvents = {e1}
    Slots = 2
    ChunkSize = 1
    MaxReceive = 2
    MaxStarts = 2
    MaxClaims = 2
    MaxFailures = 2
    SequentialSet = TRUE
    Faults = {"exec", "publish", "ack", "crash"}
SPECIFICATION FairSpec
INVARIANTS NoStrandedSubmission AckedJobsAreCounted
PROPERTY QueueDrains
\* The pipeline rests once its queues are empty.
CHECK_DEADLOCK FALSE
