SPECIFICATION FairSpec
CONSTANTS
    num_workers_ = 3
    exclude_worker0_ = TRUE
    big_workers = 3
    TaskCounts = {0}
    WorkerCounts = {1, 3}
    Concurrency = {1, 3}
    MaxBarrier = 2
    FailWith = {0}
INVARIANTS TypeOK PendingIsOutstanding NothingRunsAfterReturn QueueHasRoom BarrierSeparates PageCoversTasks MainErrorReported
PROPERTIES LaunchReturns ResetReturns
