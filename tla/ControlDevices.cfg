SPECIFICATION Spec
CONSTANTS
    Keys = {k1, k2}
    Subnets = {pool, lan}
    Pool = pool
    Octets = {1, 2}
    HostMin = 1
    HostMax = 2
    Prefixes = {}
    Values = {v1}
    Empty = v1
    Times = {1}
    Limits = {1}
    Handlers = {h1}
    Null = Null
    MaxSeq = 4
    MaxRnd = 3
    MaxEpoch = 100
    MaxBatch = 2
    MaxNets = 1
    MaxRoutes = 0
    MaxRelays = 0
VIEW DevicesView
SYMMETRY Symmetry
INVARIANTS
    TypeOK ActiveKeysUnique ActiveAddrsUnique NoCredentialOutlives InviteBudget
PROPERTIES
    IdsNeverRecycled
CHECK_DEADLOCK FALSE
