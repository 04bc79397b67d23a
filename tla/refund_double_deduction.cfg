SPECIFICATION Spec
CONSTANTS
    Admins = {a1}
    Amount = 2
    Amounts = {2}
    MaxBalance = 4
    MaxDebt = 1
    MaxFaults = 1
SYMMETRY Symmetry
CHECK_DEADLOCK FALSE
INVARIANTS
    RetryDeductsNothing
