CONSTANTS
    MaxWorkers = 3
    concurrency = 2
    max_requests = 3
    MaxFailures = 1
    Strikes = {"client", "manager", "worker"}
    Slow = {1}
SPECIFICATION FairSpec
INVARIANT ManagerIsRight
PROPERTY ClientEnds
CHECK_DEADLOCK FALSE
