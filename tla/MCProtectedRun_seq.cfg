CONSTANTS
    p1 = p1
    p2 = p2
    e1 = e1
    e2 = e2
    NoEntry = NoEntry
    Through = Through
    Paths <- TwoPaths
    Entries = {e1, e2}
    Base <- TwoBase
    Ops = {o1, o2}
    Backend = "fuse"
    OnSuccess = {"review"}
    UseNetwork = FALSE
    UseSensor = TRUE
    UseGraph = FALSE
    Overlap = FALSE
    Faults = {"loss", "start", "addpid", "scan", "crash"}
    MaxEdits = 2
SPECIFICATION Spec
INVARIANTS ExitedRunIsClean SucceededIsReviewable
PROPERTIES ImplementsTransaction
