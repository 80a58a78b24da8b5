SPECIFICATION Spec
CONSTANTS
    None = None  Off = Off  Auto = Auto  Reserved = Reserved  Foreign = Foreign
    m1 = m1  m2 = m2  g1 = g1  g2 = g2
    Lefts = {l1, l2}
    Rights = {r1, r2}
    Components = {"provider", "pf", "book", "host", "kill", "daemon", "run", "mobile",
                  "directory", "exits", "uci"}
    HostConfs <- OneExitLeft
    HostFaults = 1
SYMMETRY Symmetry
INVARIANTS TypeOK DirectoryFollowed ProcessesEndClean
PROPERTIES HostAccounted EffectsHold KillSwitchHolds
CHECK_DEADLOCK FALSE
