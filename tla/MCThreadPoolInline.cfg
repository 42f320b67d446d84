SPECIFICATION Spec
CONSTANTS
    num_workers_ = 1
    exclude_worker0_ = TRUE
    big_workers = 1
    TaskCounts = {0}
    WorkerCounts = {1}
    Concurrency = {1}
    MaxBarrier = 0
    FailWith = {0}
INVARIANT ErrorIsReported
