SPECIFICATION Spec
CONSTANTS
    Workers = {w1, w2}
    Fingerprints = {f1}
    Lease = 1
    RenewInterval = 1
    TTL = 2
    Backoff = 1
    Renews = FALSE
    MaxTime = 4
    MaxRun = 1
    MaxFaults = 0
SYMMETRY Symmetry
CHECK_DEADLOCK FALSE
PROPERTIES
    ExecutedOnce
