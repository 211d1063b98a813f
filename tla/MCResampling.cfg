SPECIFICATION Spec
CONSTANTS
    J = 3
    Weights = {0, 1, 3}
INVARIANTS
    TypeOK
    OriginalIsSearch
    SharesKept
    SelectionExact
PROPERTY CallsEnd
CHECK_DEADLOCK FALSE
