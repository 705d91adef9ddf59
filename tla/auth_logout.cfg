SPECIFICATION Spec
CONSTANTS
    r1 = r1
    r2 = r2
    r3 = r3
    Requests = {r1, r2}
    Ops <- AnyOp
    ACCESS = 1
    REFRESH = 5
    GRACE = 2
    MaxFlight = 2
    MaxTime = 4
    MaxSession = 12
    Failures = FALSE
    None = None
PROPERTIES SessionsStartAtLogin
