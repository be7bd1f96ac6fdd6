\* Two clients get and remove a memory queue and set a ScaleFunc meanwhile.
CONSTANTS
    g1 = g1
    g2 = g2
    s1 = s1
    s2 = s2
    w1 = w1
    w2 = w2
    w3 = w3
    w4 = w4
    Free = Free
    Clients = {g1, g2}
    Scalers = {s1, s2}
    Workers = {w1, w2, w3, w4}
    MaxQueues = 2
    numWorkers = 1
    maxNumWorkers = 2
    HasConstructor = TRUE
    QueueCancels = TRUE
    CanRemove = TRUE
    CanScaleLate = TRUE
SPECIFICATION Spec
SYMMETRY Symmetry
INVARIANTS
    TypeOK
    LiveQueueIsStored
    WorkersDieWithQueue
    
    WorkersCanBeStopped
