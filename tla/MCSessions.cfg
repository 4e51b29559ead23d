CONSTANTS
    r1 = r1
    r2 = r2
    r3 = r3
    s1 = s1
    s2 = s2
    s3 = s3
    A = A
    B = B
    Owners = {A, B}
    Requests = {r1, r2, r3}
    Supervisors = {s1, s2}
    By <- MCBy
    At <- MCAtTwo
    TTLs = {1, 2}
    Backends = {"json", "sqlite"}
    MayCrash = TRUE
    MaxTime = 2
    NoLease = NoLease
    Free = Free
SPECIFICATION FairSpec
INVARIANTS LockedHolder ViewIsCurrent
 
