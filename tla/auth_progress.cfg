SPECIFICATION FairSpec
CONSTANTS
    r1 = r1
    r2 = r2
    r3 = r3
    Requests = {r1, r2}
    Ops <- LogoutApart
    ACCESS = 0
    REFRESH = 1
    GRACE = 0
    MaxFlight = 1
    MaxTime = 0
    MaxSession = 9
    Failures = TRUE
    None = None
INVARIANTS OneAccount
PROPERTIES EveryRequestEnds
