SPECIFICATION Spec
CONSTANTS
    Customers = {c1, c2}
    Managers = {m1}
    MaxVenues = 2
    MaxEvents = 2
    MaxVotes = 2
    MaxCount = 2
    MaxTime = 1
    w1 = w1
    w2 = w2
    Workers = {w1}
    Serves <- ServesAll
    VenueInputs = {"available", "closed"}
    EventInputs = {"pending", "approved", "rejected"}
    LockTimeouts = FALSE
    AwareDates = FALSE
    None = None
SYMMETRY CustomerSymmetry
INVARIANTS TypeOK VoteCountExact OneVotePerCustomer
PROPERTIES ClosingRejectsAll EditsOnlyWhilePending ImplementsLifecycle
