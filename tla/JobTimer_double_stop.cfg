\* One client calls StopJob twice.
CONSTANTS
    g1 = g1
    g2 = g2
    s1 = s1
    s2 = s2
    Free = Free
    Clients = {g1}
    Stoppers = {s1, s2}
    MaxRuns = 4
    SelfCalls = {}
    Serialised = {}
SPECIFICATION FairSpec
CHECK_DEADLOCK FALSE
PROPERTY CallsReturn
