SPECIFICATION Spec
CONSTANTS
    n1 = n1
    n2 = n2
    c1 = c1
    r1 = r1
    Nodes = {n1, n2}
    Cycles = {c1}
    Requests = {r1}
    NodeOf <- MCNodeOf
    NoWorker = NoWorker
    MaxRetries = 2
    MaxTokens = 2
    MaxWrites = 1
    MaxFaults = 3
CONSTRAINT FewDisturbances
INVARIANTS
    TypeOK
    TokenKept
    HealthyNotCondemned
    ReauthorizationStands
PROPERTIES
    EventuallyRefreshed
CHECK_DEADLOCK FALSE
