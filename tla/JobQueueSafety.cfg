\* Clocks may be one tick old; two faults and one request.
SPECIFICATION Spec
CONSTANTS
    j1 = j1
    i1 = i1
    i2 = i2
    w1 = w1
    w2 = w2
    Jobs = {j1}
    Items = {i1, i2}
    JobOf <- OneJob
    Pictures = {i1, i2}
    Workers = {w1, w2}
    NoItem = NoItem
    NoWorker = NoWorker
    TTL = 2
    Lag = 1
    MaxWorkersPerJob = 2
    MaxWorkersGlobal = 2
    MaxFaults = 2
    MaxRequests = 1
SYMMETRY Symmetry
\* The system comes to rest when every item is completed.
CHECK_DEADLOCK FALSE
INVARIANT TypeOK
INVARIANT LeaseExclusive
 
INVARIANT JobShowsItems
PROPERTY KeepsPromise
