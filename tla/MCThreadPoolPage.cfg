SPECIFICATION Spec
CONSTANTS
    num_workers_ = 3
    exclude_worker0_ = TRUE
    big_workers = 3
    TaskCounts = {2, 3}
    WorkerCounts = {3}
    Concurrency = {3}
    MaxBarrier = 1
    FailWith = {}
INVARIANT PageCoversTasks
