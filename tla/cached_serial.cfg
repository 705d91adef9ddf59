SPECIFICATION CachedSpec
CONSTANTS
    Customers = {c1}
    Managers = {m1}
    MaxVenues = 1
    MaxEvents = 1
    MaxVotes = 1
    MaxCount = 1
    MaxTime = 2
    Workers = {w1}
    Serves <- ServesAll
    VenueInputs = {"available", "closed"}
    EventInputs = {"pending", "approved", "rejected"}
    LockTimeouts = FALSE
    AwareDates = FALSE
    None = None
    Views = {"event_detail", "event_pending", "event_upcoming", "venue_detail", "venue_all"}
INVARIANTS BallotsFollowStatus CacheTypeOK VenueCacheFresh OnlyVenueWritesMissed
