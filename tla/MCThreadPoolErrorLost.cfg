SPECIFICATION Spec
CONSTANTS
    num_workers_ = 2
    exclude_worker0_ = TRUE
    big_workers = 2
    TaskCounts = {0}
    WorkerCounts = {2}
    Concurrency = {2}
    MaxBarrier = 0
    FailWith = {0}
INVARIANT ErrorIsReported
