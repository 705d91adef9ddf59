SPECIFICATION Spec
CONSTANTS
    Customers = {c1}
    Managers = {m1}
    MaxVenues = 1
    MaxEvents = 1
    MaxVotes = 1
    MaxCount = 1
    MaxTime = 0
    w1 = w1
    w2 = w2
    Workers = {w1, w2}
    Serves <- ServesAll
    VenueInputs = {"available", "closed"}
    EventInputs = {"pending", "approved", "rejected"}
    LockTimeouts = FALSE
    AwareDates = FALSE
    None = None
PROPERTIES RejectedIsTerminal
