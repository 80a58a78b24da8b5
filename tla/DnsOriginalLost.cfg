SPECIFICATION Spec
CONSTANTS
    Ifaces = {i1}
    Prefer = {}
    Full = {i1}
    Dns = {d1, d2, d3}
    Orig = Orig
    Foreign = {}
    Rejected = {}
    Absent = Absent
    Targets = {etc}
    Volatile = {}
    Guarded = {}
    None = None
    MaxProcs = 2
    MaxBoots = 0
    MaxExternal = 0
    MaxFaults = 2
SYMMETRY Symmetry
INVARIANTS OriginalAlwaysKept
CHECK_DEADLOCK FALSE
