CONSTANTS
    h1 = h1
    h2 = h2
    h3 = h3
    h4 = h4
    linux = linux
    mac = mac
    Runs = {linux, mac}
    Handlers = {h1, h2, h3, h4}
    Writers = {linux, mac, h1, h2, h3, h4}
    Inodes = {1, 2, 3, 4, 5, 6, 7, 8}
    Keeps = {0, 1}
    NativeRuns = {mac}
    Streams = {"s"}
    MaxLines = 3
    Sides = {"socket", "bridge"}
    Actions = {"status", "rollback", "commit"}
    Packages = {"p1", "p2"}
    Spaces = {"w"}
    MaxKills = 1
    Workloads <- TheWorkloads
SPECIFICATION Spec
INVARIANTS
    HandlesAreOneShot
    
    RunsAreListed
    CatalogIsSerial
    StreamIsWhole
