CONSTANTS
    p1 = p1
    p2 = p2
    e1 = e1
    e2 = e2
    NoEntry = NoEntry
    Through = Through
    Paths <- OnePath
    Entries = {e1, e2}
    Base <- OneBase
    Ops = {o1}
    Backend = "fuse"
    OnSuccess = {"review", "discard"}
    UseNetwork = TRUE
    UseSensor = TRUE
    UseGraph = TRUE
    Overlap = TRUE
    Faults <- AllFaults
    MaxEdits = 0
SPECIFICATION Spec
INVARIANTS SucceededIsDrained AgentConfined 
PROPERTIES DiscardFollowsUnmount
