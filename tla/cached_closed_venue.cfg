SPECIFICATION CachedSpec
CONSTANTS
    Customers = {c1}
    Managers = {m1}
    MaxVenues = 1
    MaxEvents = 1
    MaxVotes = 1
    MaxCount = 1
    MaxTime = 0
    Workers = {w1}
    Serves <- ServesAll
    VenueInputs = {"available", "closed"}
    EventInputs = {"pending", "approved", "rejected"}
    LockTimeouts = FALSE
    AwareDates = FALSE
    None = None
    Views = {"event_detail"}
INVARIANTS EventCacheFresh
