CONSTANTS
    c1 = c1
    c2 = c2
    Conns = {c1, c2}
    MaxEvents = 2
    Undecodable = {2}
    Size <- TheSize
    RingSize = 1
    Limits <- TheLimits
    FaultSets <- TheFaults
    Modes = {"audit", "enforce"}
    Allowed = {c1}
SPECIFICATION Spec
INVARIANTS  NoHole EgressIsEvidenced RecordIsFinal FaultlessIsComplete
