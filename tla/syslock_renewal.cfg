SPECIFICATION Spec
CONSTANTS
    Workers = {w1, w2}
    Fingerprints = {w1, w2}
    MaxTime = 8
    Lease = 3
    RenewInterval = 1
    TTL = 6
    MaxRun = 5
    MaxFaults = 0
SYMMETRY Symmetry
CHECK_DEADLOCK FALSE
INVARIANTS
    HeldLockIsRenewed
