SPECIFICATION Spec
CONSTANTS
    Keys = {k1, k2}
    Bonded = {k2}
    Conns = {1, 2, 3}
    None = None
    QueueCap = 2
    Buf = 1
    BondBuf = 2
    MaxSends = 2
    MaxCuts = 1
INVARIANTS RegisteredIsActive OldPacketsFirst
PROPERTIES ImplementsRegistry
CHECK_DEADLOCK FALSE
