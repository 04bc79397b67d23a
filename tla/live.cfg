SPECIFICATION Spec
CONSTANTS
    n1 = n1
    n2 = n2
    p1 = p1
    r1 = r1
    Nodes = {n1, n2}
    Requests = {r1}
    Proxies = {p1}
    Call = call
    NodeOf <- MCNodeOf
    NoOwner = NoOwner
    Limit = 1
    RetryLimit = 2
    MaxFaults = 2
INVARIANTS
    TypeOK
    WithinLimit
    SettledByRight
PROPERTIES
    CallIsSettled
CHECK_DEADLOCK FALSE
