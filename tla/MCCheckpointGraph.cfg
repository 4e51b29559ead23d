CONSTANTS
    Ids = {a, b, c}
    Clients = {p, q}
    NoView = NoView
    MaxReads = 7
SYMMETRY Symmetry
SPECIFICATION GraphSpec
CHECK_DEADLOCK FALSE
INVARIANTS FileIsDAG
PROPERTIES HistoryIsKept RollbackTakesDependents
