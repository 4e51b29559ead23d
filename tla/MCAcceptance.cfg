CONSTANTS
    d = d
    df = df
    dg = dg
    x = x
    y = y
    m700 = m700
    m755 = m755
    m775 = m775
    ln = ln
    NoEntry = NoEntry
    Through = Through
    Paths <- MCPaths
    Entries = {x, y, m700, m755, m775, ln}
    Files = {x, y}
    Dirs = {m700, m755, m775}
    Odd = {ln}
    DefaultDir = m755
    Umask <- MCUmask
    Above <- MCAbove
    Rank <- MCRank
    Bases <- MCBases
SPECIFICATION Spec
INVARIANTS  AppliedIsCandidate OwnerEntriesKept
