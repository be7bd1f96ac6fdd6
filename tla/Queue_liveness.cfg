\* The two workers of Queue_safety.cfg, scheduled fairly.
CONSTANTS
    p1 = p1
    c1 = c1
    c2 = c2
    w1 = w1
    w2 = w2
    x = x
    y = y
    Free = Free
    Producers = {p1}
    Consumers <- TwoWorkers
    Background <- OneBackground
    Children <- OneChild
    MayCancel <- OneChild
    Watchers = {w1}
    Items = {x}
    MaxEnqueues = 3
SPECIFICATION WFairSpec
PROPERTIES
    GivenUpCallsReturn
    SleeperGetsItem
    WorkersExitAfterStop
