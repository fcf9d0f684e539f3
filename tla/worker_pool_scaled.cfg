\* One worker to keep, one to remove while the pool is being stopped.
CONSTANTS
    MaxWorkers = 2
    JobSlots = 1
    MaxJobs = 1
SPECIFICATION PoolSpec
INVARIANT NeverPanics
CHECK_DEADLOCK FALSE
