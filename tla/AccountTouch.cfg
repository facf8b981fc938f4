SPECIFICATION Spec
CONSTANTS
    k1 = k1  k2 = k2  k3 = k3  k4 = k4
    Keys <- MCKeys
    Ids <- MCIds
    Legacy <- MCLegacy
    MaxTime = 5
    MaxTrackedStateKeys = 2
    TrackedStateTTL = 2
SYMMETRY Symmetry
INVARIANTS
    TouchTypeOK
    RecentKeysKept
    OnlyEarlyNamesDropped
