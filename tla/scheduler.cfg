SPECIFICATION Spec
CONSTANTS
    AccountWriters = {w1}
    GroupWriters = {w2}
    Pollers = {p1}
    Rebuilder = full
    Readers = {full}
    MaxChanges = 1
    MaxMoves = 2
CHECK_DEADLOCK FALSE
INVARIANTS
    TypeOK
    RetiredServesNothing
    NothingFromBeforeRetirement
PROPERTIES
    EventuallyFresh
