\* One handler and the checker.
CONSTANTS
    i1 = i1
    i2 = i2
    h1 = h1
    h2 = h2
    e1 = e1
    Ids = {i1}
    Known = {i1}
    Removable = {}
    Handlers = {h1}
    Messages = {e1}
    MaxCounters = 1
    MaxHits = 3
    MinRequests = 1
    Num = 4
    Den = 5
SPECIFICATION Spec
INVARIANT ProcessedMeansNoticed
