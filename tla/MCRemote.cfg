CONSTANTS
    c1 = c1
    c2 = c2
    c3 = c3
    v1 = v1
    v2 = v2
    Clients = {c1, c2, c3}
    NoValue = none
    Damaged = damaged
    Values = {v1, v2, damaged}
    MaxAttempts = 2
    MaxCalls = 3
    Inodes = {1, 2, 3, 4, 5, 6, 7, 8, 9, 10, 11, 12, 13, 14, 15, 16, 17, 18, 19, 20}
    MaxKills = 1
    MaxGrants = 6
    MaxBreaks = 2
    Workloads <- TheWorkloads
SPECIFICATION Spec
INVARIANTS
    
    RestoreIsWhole
    
PROPERTIES
    RevokedStaysRevoked
    FetchIsCurrent
