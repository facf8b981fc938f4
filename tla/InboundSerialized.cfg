SPECIFICATION SafetySpec
CONSTANTS
    h1 = h1  h2 = h2  s1 = s1
    k1 = k1  k2 = k2  k3 = k3  k4 = k4  k5 = k5
    c1 = c1  c2 = c2
    NoEvent = NoEvent
    Handlers <- MCHandlers
    Senders <- MCSenders
    Keys <- MCKeys
    Chats <- MCChats
    Events <- EveryKind
    Identities <- AnId
    Serialized = TRUE
    MaxFaults = 2
    MaxDuplicates = 1
    MaxSends = 1
    MaxHealthWrites = 1
    MaxTime = 3
    MaxTrackedStateKeys = 1
    TrackedStateTTL = 1
SYMMETRY Symmetry
INVARIANTS
    DuplicatesExplained
    AckedIsRemembered
    OnlyMessagesCreated
PROPERTIES
    SavesUndoNothing
