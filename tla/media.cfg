SPECIFICATION Spec
CONSTANTS
    r1 = r1
    r2 = r2
    x1 = x1
    Requests = {r1, r2}
    External = {x1}
    MaxVenues = 2
    MaxFiles = 1
    MinImages = 1
    MaxImages = 2
SYMMETRY RequestSymmetry
INVARIANTS TypeOK MissingOnlyIfTorn OrphansWereLost NewUploadsStay
