SPECIFICATION Spec
CONSTANTS
    Workers = {w1, w2, w3}
    Fingerprints = {f1, f2}
    Lease = 2
    RenewInterval = 1
    TTL = 3
    Backoff = 2
    Renews = TRUE
    MaxTime = 6
    MaxRun = 4
    MaxFaults = 1
SYMMETRY Symmetry
CHECK_DEADLOCK FALSE
INVARIANTS
    TypeOK
    SingleFlight
PROPERTIES
    SuccessStands
    FailureRests
