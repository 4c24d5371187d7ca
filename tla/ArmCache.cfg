SPECIFICATION FairSpec
CONSTANTS
    Project = {p1, p2}
    Caller = {c1, c2}
    MaxSuppressed = 1
PROPERTIES
    AtomicSpec
    ReloadKeepsArms
    LockFree
