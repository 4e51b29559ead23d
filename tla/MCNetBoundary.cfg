CONSTANTS
    a1 = a1
    a2 = a2
    other = other
    Runs = {r1, r2}
    Address = {a1, a2, other}
    Resolutions <- TheResolutions
    Default = {a1, a2, other}
    FaultSets <- TheFaults
    MaxRefresh = 2
SPECIFICATION Spec
INVARIANTS  WholeResolution RulesRemoved
CHECK_DEADLOCK FALSE
