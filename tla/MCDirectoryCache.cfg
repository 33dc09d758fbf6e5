SPECIFICATION DcFairSpec
CONSTANTS
    a1 = a1
    a2 = a2
    a3 = a3
    Action = {a1, a2, a3}
    r1 = r1
    r2 = r2
    r3 = r3
    Root = {r1, r2, r3}
    Weight <- MCWeight
    MaxEntries = 2
    MaxSize = 2
    MaxRestarts = 1
    Mode <- MCMode
    None = None
INVARIANTS
    DcTypeOK
    PinsExact
    CachedWhole
    SubtreesAdvertised
    SlotHasLeader
PROPERTIES
    DiskReclaimed
