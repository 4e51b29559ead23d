CONSTANTS
    p1 = p1
    p2 = p2
    secret = secret
    text = text
    made = made
    kept = kept
    NoEntry = NoEntry
    Paths = {p1, p2}
    Entries = {secret, text, made, kept}
    Base <- TheBase
    AgentEntries = {made}
    OwnerEntries = {kept}
    Denied = {p1}
    ReadRoots = {"system"}
    FixedRoots = {"system"}
    OnSuccess = {"discard", "review"}
    Commands = {c1, c2}
    FaultSets <- TheFaults
    MaxEdits = 1
SPECIFICATION Spec
INVARIANTS  SensitiveHidden
PROPERTIES ImplementsTransaction RunSettles
CHECK_DEADLOCK FALSE
