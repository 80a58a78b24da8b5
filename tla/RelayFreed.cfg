SPECIFICATION FairSpec
CONSTANTS
    None = None  Off = Off  Auto = Auto
    k1 = k1  k2 = k2
INVARIANTS TypeOK
PROPERTIES DeadIsFreed LostLinkRetired PushConverges ConfigConverges
CHECK_DEADLOCK FALSE
