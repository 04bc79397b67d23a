SPECIFICATION Spec
CONSTANTS
    Deliveries = {d1, d2}
    Sweepers = {s1}
    Clients = {c1}
    MaxFaults = 1
    SwallowedReads = TRUE
INVARIANTS
    TypeOK
    CreditedAtMostOnce
    CreditNeedsPayment
    CompletedIsSettled
    PaidStaysRecoverable
PROPERTIES
    OnlyHolderEndsFulfillment
    ImplementsLedger
SYMMETRY Symmetry
CHECK_DEADLOCK FALSE
