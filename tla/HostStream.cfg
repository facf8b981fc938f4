SPECIFICATION Spec
CONSTANTS
    k1 = k1  k2 = k2  k3 = k3
    Keys <- MCKeys
    Events <- Mixed
    Intervals <- MCIntervals
    DefaultPingInterval = 2
    MaxConnections = 2
    MaxErrors = 1
    MaxResends = 1
    MaxPongs = 1
INVARIANTS
    StreamTypeOK
    DispatchedWhole
    NoLeftovers
PROPERTIES
    StreamDeliversAtLeastOnce
