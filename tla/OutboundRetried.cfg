SPECIFICATION Spec
CONSTANTS
    c1 = c1  c2 = c2  m1 = m1
    Calls <- MCCalls
    Requests <- Mixed
    NoMessage = NoMessage
    MaxFaults = 2
    MaxOverlaps = 1
    MaxWindows = 1
INVARIANTS
    TypeOK
    AtMostOncePerWindow
    SuccessIsComplete
PROPERTIES
    EventuallySettled
