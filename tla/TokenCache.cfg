SPECIFICATION Spec
CONSTANTS
    c1 = c1  c2 = c2
    Calls <- MCCalls
    Skew = 1
    Lifetimes <- MCLifetimes
    DefaultLifetime = 4
    MaxDelay = 1
    MaxIssues = 2
    MaxTime = 5
SYMMETRY Symmetry
INVARIANTS
    TypeOK
    RecordedInTime
    AcceptedInFlight
