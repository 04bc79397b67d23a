SPECIFICATION FairSpec
CONSTANTS
    Deliveries = {d1}
    Sweepers = {s1}
    Clients = {c1}
    MaxFaults = 1
    SwallowedReads = FALSE
CONSTRAINT FaultsWithBalance
PROPERTIES
    PaidOrderIsFulfilled
    TimedOutLeavesPending
CHECK_DEADLOCK FALSE
