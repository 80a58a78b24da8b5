SPECIFICATION Spec
CONSTANTS
    None = None  Off = Off  Auto = Auto  Reserved = Reserved  Foreign = Foreign
    m1 = m1  m2 = m2  g1 = g1  g2 = g2
    Lefts = {l1, l2}
    Rights = {r1, r2}
    Components = {"host"}
    HostConfs <- NoExitLeft
    HostFaults = 2
SYMMETRY Symmetry
INVARIANT RedirectsBypassed
CHECK_DEADLOCK FALSE
