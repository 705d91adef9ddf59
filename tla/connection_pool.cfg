SPECIFICATION FairSpec
CONSTANTS
    r1 = r1
    r2 = r2
    r3 = r3
    r4 = r4
    Requests = {r1, r2, r3, r4}
    Size = 4
    None = None
INVARIANTS TypeOK NoConnectionLost NoWaitUnderCapacity
PROPERTIES EveryRequestEnds
