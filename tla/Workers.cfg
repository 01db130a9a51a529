\* Clocks may be one tick old; two faults, one request; a limit of one lease per job.
\* No symmetry: liveness.
SPECIFICATION WorkersSpec
CONSTANTS
    j1 = j1
    i1 = i1
    i2 = i2
    w1 = w1
    w2 = w2
    Jobs = {j1}
    Items = {i1, i2}
    JobOf <- OneJob
    Pictures = {i1}
    Workers = {w1, w2}
    NoItem = NoItem
    NoWorker = NoWorker
    TTL = 2
    Lag = 1
    MaxWorkersPerJob = 1
    MaxWorkersGlobal = 2
    MaxFaults = 2
    MaxRequests = 1
    MaxWorkerLimit = 3
    MaxChanges = 2
\* The system comes to rest when every item is completed.
CHECK_DEADLOCK FALSE
INVARIANT ActiveWithinLimits
PROPERTY JobsSettle
INVARIANT OneGoroutinePerSlot
PROPERTY PoolSettles
