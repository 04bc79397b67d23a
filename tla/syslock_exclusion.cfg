SPECIFICATION Spec
CONSTANTS
    Workers = {w1, w2, w3}
    Fingerprints = {w1, w2, w3}
    MaxTime = 10
    Lease = 3
    RenewInterval = 1
    TTL = 4
    MaxRun = 6
    MaxFaults = 1
SYMMETRY Symmetry
CHECK_DEADLOCK FALSE
INVARIANTS
    TypeOK
    OneSystemOperation
