SPECIFICATION FairSpec
CONSTANTS
    Keys = {k1, k2}
    Bonded = {}
    Conns = {1, 2}
    None = None
    QueueCap = 2
    Buf = 1
    BondBuf = 2
    MaxSends = 4
    MaxCuts = 0
PROPERTIES WriteEnds
CHECK_DEADLOCK FALSE
