\* A caller of Put, Process with two processors, and a Shutdown at any time; a
\* connection breaks once.
CONSTANTS
    p1 = p1
    f1 = f1
    f2 = f2
    Free = Free
    Putters = {p1}
    Finishers = {f1, f2}
    MaxJobs = 1
    MaxBreaks = 1
SPECIFICATION FairSpec
INVARIANTS
    TypeOK
    GoneIsFinished
PROPERTIES
    StopEndsProcess
    JobIsDelivered
