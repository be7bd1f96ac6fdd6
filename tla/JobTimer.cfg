\* Two clients run and stop the job and its Command stops it too, with one RunJob
\* and one StopJob under way at a time.  The timers may run out.
CONSTANTS
    g1 = g1
    g2 = g2
    s1 = s1
    s2 = s2
    Free = Free
    Clients = {g1, g2}
    Stoppers = {s1, s2}
    MaxRuns = 4
    SelfCalls = {"stop"}
    Serialised = {"run", "stop"}
SPECIFICATION FairSpec
CHECK_DEADLOCK FALSE
INVARIANTS
    TypeOK
    OneTimer
 
