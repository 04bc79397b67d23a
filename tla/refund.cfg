SPECIFICATION Spec
CONSTANTS
    Admins = {a1, a2}
    Amount = 2
    Amounts = {1, 2}
    MaxBalance = 3
    MaxDebt = 1
    MaxFaults = 2
SYMMETRY Symmetry
CONSTRAINTS
    FaultsWithOneAmount
    SecondFaultAlone
CHECK_DEADLOCK FALSE
INVARIANTS
    TypeOK
    OneRefundAtATime
    RefundedIsPaidOut
    TakenAtMostAmount
    NothingTakenAtRest
    NoFreeRefund
PROPERTIES
    RefundedIsFinal
