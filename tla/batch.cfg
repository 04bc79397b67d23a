SPECIFICATION Spec
CONSTANTS
    w1 = w1
    w2 = w2
    Workers = {w1, w2}
    NoWorker = NoWorker
    Balances = {1, 2}
    Other = 2
    Hold = 2
    Costs = {1, 3}
    MaxRetries = 2
    MaxFaults = 2
CONSTRAINT FaultsWithinHold
INVARIANTS
    TypeOK
    HoldSpentOnce
    CompletedIsCharged
    RefundedBatchIsStopped
PROPERTIES
    HoldIsFreed
CHECK_DEADLOCK FALSE
