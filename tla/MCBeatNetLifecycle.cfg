SPECIFICATION Spec
CONSTANT MaxCalls = 3
INVARIANTS
    OwnersOutlive
    NothingLeftBehind
    ReadyHasSession
CHECK_DEADLOCK FALSE
