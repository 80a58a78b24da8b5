SPECIFICATION Spec
CONSTANTS
    Ifaces = {i1, i2}
    Prefer = {i2}
    Full = {i1}
    Dns = {d1, d2, d3}
    Orig = Orig
    Foreign = {}
    Rejected = {}
    Absent = Absent
    Targets = {etc}
    Volatile = {}
    Guarded = {}
    None = None
    MaxProcs = 3
    MaxBoots = 0
    MaxExternal = 0
    MaxFaults = 2
SYMMETRY Symmetry
INVARIANTS TypeOK OriginalKept LinkAccounted
PROPERTIES OrderKept
CHECK_DEADLOCK FALSE
