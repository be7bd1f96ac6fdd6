\* Two handlers hit two connections, one of them unknown to the provider, beside
\* the checker.
CONSTANTS
    i1 = i1
    i2 = i2
    h1 = h1
    h2 = h2
    e1 = e1
    Ids = {i1, i2}
    Known = {i1}
    Removable = {i2}
    Handlers = {h1, h2}
    Messages = {e1}
    MaxCounters = 2
    MaxHits = 3
    MinRequests = 2
    Num = 4
    Den = 5
SPECIFICATION FairSpec
INVARIANTS
    TypeOK
    NoAlertStorm
    MessageHasFailure
PROPERTY FailureIsProcessed
