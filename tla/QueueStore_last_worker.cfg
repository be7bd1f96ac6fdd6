\* A queue removed and made again while its autoscaler runs.
CONSTANTS
    g1 = g1
    g2 = g2
    s1 = s1
    s2 = s2
    w1 = w1
    w2 = w2
    w3 = w3
    w4 = w4
    Free = Free
    Clients = {g1}
    Scalers = {s1, s2}
    Workers = {w1, w2, w3, w4}
    MaxQueues = 2
    numWorkers = 1
    maxNumWorkers = 2
    HasConstructor = TRUE
    QueueCancels = TRUE
    CanRemove = TRUE
    CanScaleLate = FALSE
SPECIFICATION Spec
INVARIANT LastWorkerAlwaysStays
