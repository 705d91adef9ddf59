--------------------------- MODULE CachedBooking ---------------------------
(***************************************************************************)
(* Booking with the response cache of cache.py: the endpoints that write   *)
(* are those of Booking, and the shared GET endpoints of router/event.py   *)
(* and router/venue.py are served from a process-local TTL cache that is   *)
(* filled after a miss and purged by key prefix after a write.             *)
(*                                                                         *)
(* A request is served by one worker from beginning to end, so a worker    *)
(* serves either a write (req[w]) or a read (reads[w]).  A payload is the  *)
(* part of the table that the query returned; the order of a list and its  *)
(* pages are left out.                                                     *)
(***************************************************************************)
EXTENDS Booking

CONSTANT
    Views           \* which GET endpoints are called, a subset of AllViews

(* get_event, get_pending_events, get_upcoming_events; get_venue and       *)
(* get_all_venues.                                                         *)
EventViews == {"event_detail", "event_pending", "event_upcoming"}
VenueViews == {"venue_detail", "venue_all"}
AllViews   == EventViews \cup VenueViews

ASSUME ViewsAssumption == Views \subseteq AllViews

VARIABLES
    cache,      \* cache[k]: the payload stored under key k
    reads,      \* reads[w]: the read that worker w is serving
    missed      \* history: events that writes to venues have changed since
                \* the keys of events were last purged

cachedVars == <<venues, events, votes, now, req, cache, reads, missed>>

VenueOps == {"create_venue", "update_venue", "delete_venue"}

Key == [view : {"event_detail"}, id : EventIds]
         \cup [view : {"venue_detail"}, id : VenueIds]
         \cup [view : AllViews \ {"event_detail", "venue_detail"}, id : {0}]

(* The keys that invalidate("event") and invalidate("venue") purge.        *)
WithPrefix(prefix) ==
    {k \in DOMAIN cache : \/ prefix = "event" /\ k.view \in EventViews
                          \/ prefix = "venue" /\ k.view \in VenueViews}

(* What the query of a GET endpoint returns now.  The lists compare a date *)
(* with func.now() in SQL, as text: dates are stored with microseconds and *)
(* CURRENT_TIMESTAMP has none, so within the second of the date both > and *)
(* >= hold.                                                                *)
Query(k) ==
    CASE k.view = "event_detail"   -> Restrict(events, DOMAIN events \cap {k.id})
      [] k.view = "event_pending"  ->
            Restrict(events, {e \in DOMAIN events :
                events[e].status = "pending" /\ events[e].date >= now})
      [] k.view = "event_upcoming" ->
            Restrict(events, {e \in DOMAIN events :
                events[e].status = "approved" /\ events[e].date >= now})
      [] k.view = "venue_detail"   -> Restrict(venues, DOMAIN venues \cap {k.id})
      [] k.view = "venue_all"      -> venues

NotFound(k, payload) ==
    k.view \in {"event_detail", "venue_detail"} /\ DOMAIN payload = {}

NotReading == [step |-> "idle"]

CachedInit ==
    /\ Init
    /\ cache = <<>>
    /\ reads = [w \in Workers |-> NotReading]
    /\ missed = {}

-----------------------------------------------------------------------------
(* Reads                                                                   *)

(* A GET for key k arrives and cache_get misses; a hit answers at once and *)
(* changes nothing.                                                        *)
Miss(w) ==
    /\ req[w].step \in Outcomes
    /\ reads[w] = NotReading
    /\ \E k \in Key \ DOMAIN cache :
        /\ k.view \in Views
        /\ reads' = [reads EXCEPT ![w] = [step |-> "select", key |-> k]]
    /\ UNCHANGED <<vars, cache, missed>>

Select(w) ==
    /\ reads[w].step = "select"
    /\ LET k == reads[w].key
       IN reads' = [reads EXCEPT ![w] =
            IF NotFound(k, Query(k))
            THEN NotReading
            ELSE [step |-> "fill", key |-> k, payload |-> Query(k)]]
    /\ UNCHANGED <<vars, cache, missed>>

(* Mutant of Fill: the payload is stored under the key of the venue list.  *)
FillWrongKey(w) ==
    /\ reads[w].step = "fill"
    /\ cache' = Insert(cache, [view |-> "venue_all", id |-> 0], reads[w].payload)
    /\ reads' = [reads EXCEPT ![w] = NotReading]
    /\ UNCHANGED <<vars, missed>>

(* cache_set: whatever has happened since the query.                       *)
Fill(w) ==
    /\ reads[w].step = "fill"
    /\ cache' = Insert(cache, reads[w].key, reads[w].payload)
    /\ reads' = [reads EXCEPT ![w] = NotReading]
    /\ UNCHANGED <<vars, missed>>

-----------------------------------------------------------------------------
(* Writes: every endpoint ends with commit, refresh, invalidate.           *)

Prefix(op) == IF op \in VenueOps THEN "venue" ELSE "event"

(* invalidate(prefix)                                                      *)
Invalidate(prefix) ==
    /\ cache' = Delete(cache, WithPrefix(prefix))
    /\ missed' = IF prefix = "event" THEN {} ELSE missed

(* Mutant of RespondAndInvalidate: a deletion does not invalidate.         *)
RespondToDeletion(w) ==
    /\ Respond(w)
    /\ IF /\ req[w].step = "respond" /\ req[w].op \notin Deletions
          /\ RowIsThere(req[w].op, req[w].key)
       THEN Invalidate(Prefix(req[w].op))
       ELSE UNCHANGED <<cache, missed>>
    /\ UNCHANGED reads

(* A failed refresh raises before invalidate is reached; the title of the  *)
(* event that cast_vote shows is read after it.                            *)
RespondAndInvalidate(w) ==
    /\ Respond(w)
    /\ IF req[w].step = "respond" /\ RowIsThere(req[w].op, req[w].key)
       THEN Invalidate(Prefix(req[w].op))
       ELSE UNCHANGED <<cache, missed>>
    /\ UNCHANGED reads

CachedReceive(w) ==
    /\ reads[w] = NotReading
    /\ Receive(w)
    /\ UNCHANGED <<cache, reads, missed>>

(* The events that this step of worker w changes or deletes, if it serves  *)
(* a write to a venue.                                                     *)
ChangedWithVenue(w) ==
    {e \in DOMAIN events :
        /\ req[w].op \in VenueOps
        /\ e \in DOMAIN events' => events'[e] # events[e]}

CachedExecute(w) ==
    /\ Execute(w) \/ DatabaseLocked(w)
    /\ missed' = missed \cup ChangedWithVenue(w)
    /\ UNCHANGED <<cache, reads>>

-----------------------------------------------------------------------------
(* The cache itself                                                        *)

(* The 60 seconds of an entry are over, or it is the least recently used   *)
(* one of a full cache.                                                    *)
Expire(k) ==
    /\ k \in DOMAIN cache
    /\ cache' = Delete(cache, {k})
    /\ UNCHANGED <<vars, reads, missed>>

(* The cache and the reads live in the process.                            *)
CachedRestart ==
    /\ Restart
    /\ cache' = <<>>
    /\ reads' = [w \in Workers |-> NotReading]
    /\ missed' = {}

CachedTick == Tick /\ UNCHANGED <<cache, reads, missed>>

ReadStep(w) == Miss(w) \/ Select(w) \/ Fill(w)

CachedNext ==
    \/ \E w \in Workers : \/ ReadStep(w)
                          \/ CachedReceive(w)
                          \/ CachedExecute(w)
                          \/ RespondAndInvalidate(w)
    \/ \E k \in Key : Expire(k)
    \/ CachedRestart
    \/ CachedTick

CachedSpec == CachedInit /\ [][CachedNext]_cachedVars

-----------------------------------------------------------------------------
(* Properties                                                              *)

(* Types of the cache and of the reads in flight.                          *)
CacheTypeOK ==
    /\ DOMAIN cache \subseteq Key
    /\ \A k \in DOMAIN cache : IF k.view \in EventViews
                               THEN IsTable(cache[k], EventIds, Event)
                               ELSE IsTable(cache[k], VenueIds, Venue)
    /\ DOMAIN reads = Workers
    /\ \A w \in Workers :
        /\ reads[w].step \in {"idle", "select", "fill"}
        /\ reads[w].step # "idle" => req[w].step \in Outcomes

(* A write has been committed and its worker has not come to invalidate.   *)
InvalidationPending == \E w \in Workers : req[w].step = "respond"

(* What the cache would serve for the views in vs is what the database     *)
(* would answer, once every committed write has been answered.             *)
Fresh(vs) ==
    ~ InvalidationPending =>
        \A k \in DOMAIN cache : k.view \in vs => cache[k] = Query(k)

(* Reads of events are never stale after a mutation.                       *)
EventCacheFresh == Fresh(EventViews)

(* The writes of the event and vote endpoints, deletions and decisions     *)
(* included, are never missed: an event that a cached payload does not     *)
(* show as the query would is one that a write to its venue has changed    *)
(* since (router/venue.py purges no event key), or it is in a list as the  *)
(* database has it and its date has come since (func.now() in the query).  *)
OnlyVenueWritesMissed ==
    ~ InvalidationPending =>
        \A k \in DOMAIN cache : k.view \in EventViews =>
            \A e \in (DOMAIN cache[k] \cup DOMAIN Query(k)) \ missed :
                \/ /\ e \in DOMAIN cache[k] \cap DOMAIN Query(k)
                   /\ cache[k][e] = Query(k)[e]
                \/ /\ e \in DOMAIN cache[k] \cap DOMAIN events
                   /\ cache[k][e] = events[e]
                   /\ events[e].date < now

(* Reads of venues are never stale after a mutation.                       *)
VenueCacheFresh == Fresh(VenueViews)
=============================================================================
