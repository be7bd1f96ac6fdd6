\* A worker of context.Background() and one of a context derived from the queue's,
\* which is canceled at any time.
CONSTANTS
    p1 = p1
    c1 = c1
    c2 = c2
    w1 = w1
    w2 = w2
    x = x
    y = y
    Free = Free
    Producers = {p1}
    Consumers <- TwoWorkers
    Background <- OneBackground
    Children <- OneChild
    MayCancel <- OneChild
    Watchers = {w1, w2}
    Items = {x, y}
    MaxEnqueues = 3
SPECIFICATION WSpec
INVARIANTS
    TypeOK
    NobodySleepsAfterStop
    CancelledSleeperIsWatched
    WTypeOK
    TakenJobsAreHandled
PROPERTY ImplementsFifoQueue
