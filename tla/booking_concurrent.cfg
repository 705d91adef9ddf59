SPECIFICATION Spec
CONSTANTS
    Customers = {c1}
    Managers = {m1}
    MaxVenues = 2
    MaxEvents = 1
    MaxVotes = 1
    MaxCount = 1
    MaxTime = 1
    w1 = w1
    w2 = w2
    Workers = {w1, w2}
    Serves <- ServesAll
    VenueInputs = {"available", "closed"}
    EventInputs = {"pending", "approved", "rejected"}
    LockTimeouts = TRUE
    AwareDates = TRUE
    None = None
SYMMETRY FullSymmetry
INVARIANTS ReferentialIntegrity
PROPERTIES NothingReopens
