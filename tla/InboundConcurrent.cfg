SPECIFICATION Spec
CONSTANTS
    h1 = h1  h2 = h2  s1 = s1
    k1 = k1  k2 = k2  k3 = k3  k4 = k4  k5 = k5
    c1 = c1  c2 = c2
    NoEvent = NoEvent
    Handlers <- MCHandlers
    Senders <- MCSenders
    Keys <- MCKeys
    Chats <- MCChats
    Events <- TwoMessages
    Identities <- Unknown
    Serialized = FALSE
    MaxFaults = 1
    MaxDuplicates = 1
    MaxSends = 1
    MaxHealthWrites = 0
    MaxTime = 1
    MaxTrackedStateKeys = 2
    TrackedStateTTL = 1
INVARIANTS
    TypeOK
    SeenImpliesCreated
    AckedImpliesCreated
    SeenIsConsistent
PROPERTIES
    DeliversAtLeastOnce
