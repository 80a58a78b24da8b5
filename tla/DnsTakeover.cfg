SPECIFICATION FairSpec
CONSTANTS
    Ifaces = {i1, i2}
    Prefer = {}
    Full = {i1}
    Dns = {d1}
    Orig = Orig
    Foreign = {e1, nm}
    Rejected = {nm}
    Absent = Absent
    Targets = {etc, run, mgr}
    Volatile = {run, mgr}
    Guarded = {mgr}
    None = None
    MaxProcs = 2
    MaxBoots = 1
    MaxExternal = 1
    MaxFaults = 1
INVARIANTS OriginalKept NoLeftover
PROPERTIES DriftRepaired
CHECK_DEADLOCK FALSE
