\* Two dispatches of workers, the second of a submission counted twice, a
\* callback request and the reconciler; any three failures, one retry.
CONSTANTS
    Total = 2
    Recounts = 1
    Launches = {l1, l2}
    Requests = {q1}
    Reconciler = reconciler
    MaxRetries = 1
    Delay = 1
    Backoff = 2
    MaxDelay = 3
    Timeout = 0
    Margin = 1
    SequentialSet = TRUE
    MaxFailures = 3
    Faults = {"refuse", "lost", "db", "crash"}
SPECIFICATION FairSpec
INVARIANTS TypeOK SentWasDelivered
PROPERTY EventuallySent
\* Once the result is sent there may be nothing left to do.
CHECK_DEADLOCK FALSE
