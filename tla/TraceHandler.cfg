\* Two requests, in the same millisecond or not.
CONSTANTS
    Requests = {r1, r2}
    MaxTime = 1
SPECIFICATION FairSpec
INVARIANTS
    ListedIsComplete
    TracersAreReaped
    UnsupportedIsRetried
PROPERTIES
    GoneRequestReturns
CHECK_DEADLOCK FALSE
