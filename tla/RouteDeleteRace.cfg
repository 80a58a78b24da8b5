SPECIFICATION Spec
CONSTANTS
    Keys = {k1}
    Subnets = {pool}
    Pool = pool
    Octets = {1}
    HostMin = 1
    HostMax = 1
    Prefixes = {p1}
    Values = {v1}
    Empty = v1
    Times = {1}
    Limits = {1}
    Handlers = {h1, h2}
    Null = Null
    MaxSeq = 3
    MaxRnd = 2
    MaxEpoch = 100
    MaxBatch = 0
    MaxNets = 1
    MaxRoutes = 1
    MaxRelays = 0
VIEW View
SYMMETRY Symmetry
PROPERTIES
    AnyChangeAnnounced
CHECK_DEADLOCK FALSE
