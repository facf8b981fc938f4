SPECIFICATION Spec
CONSTANTS
    u1 = u1  app1 = app1  app2 = app2  alice = alice  bob = bob
    s1 = s1  w1 = w1
    NoId = NoId
    Runtime <- MCRuntime
    MaxFaults = 2
    Attempts = 2
    Starts <- MCStarts
    Writers <- MCWriters
    Requests <- MCRequests
    Members <- MCMembers
    Sends <- MCSends
    Clicks <- MCClicks
    MaxMessages = 4
INVARIANTS
    TypeOK
    VerdictIsThePlatforms
    StartedIsLinked
    DecidedAsSeen
    ToastIsTrue
    SuccessIsShown
PROPERTIES
    EventuallyDecided
