SPECIFICATION Spec
CONSTANTS
    r1 = r1
    r2 = r2
    r3 = r3
    Requests = {r1, r2, r3}
    Ops <- CallsOnly
    ACCESS = 4
    REFRESH = 7
    GRACE = 2
    MaxFlight = 1
    MaxTime = 9
    MaxSession = 12
    Failures = FALSE
    None = None
SYMMETRY RequestSymmetry
INVARIANTS TypeOK NoSpuriousLogout BrowserKeepsUp
