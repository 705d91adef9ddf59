------------------------ MODULE CachedBookingProofs ------------------------
(***************************************************************************)
(* The response cache changes nothing about what is written: CachedBooking *)
(* refines Booking, for any number of workers.  Without lock timeouts it   *)
(* serves venues as the database has them, and events except for what      *)
(* writes to venues have done to them, however many writes overlap, as     *)
(* long as no write commits between the query of a read and its cache_set. *)
(***************************************************************************)
EXTENDS CachedBooking, SerialBookingProofs

(***************************************************************************)
(* The invariant of the types: payloads have the type of their view, from  *)
(* the query to the cache.                                                 *)
(***************************************************************************)
PayloadOf(k, p) == IF k.view \in EventViews THEN IsTable(p, EventIds, Event)
                                            ELSE IsTable(p, VenueIds, Venue)

ReadOK(q) ==
    \/ q = NotReading
    \/ q.step = "select" /\ q.key \in Key
    \/ q.step = "fill" /\ q.key \in Key /\ PayloadOf(q.key, q.payload)

ReadsOK == \A w \in Workers : /\ ReadOK(reads[w])
                              /\ reads[w].step # "idle" => req[w].step \in Outcomes

CInv ==
    /\ IInv
    /\ DOMAIN cache \subseteq Key
    /\ \A k \in DOMAIN cache : PayloadOf(k, cache[k])
    /\ DOMAIN reads = Workers
    /\ ReadsOK

(***************************************************************************)
(* What the cache holds under k, or is about to hold, agrees with the      *)
(* database ...                                                            *)
(***************************************************************************)
VenueAgrees(k, p) == k.view \in VenueViews => p = Query(k)

EventAgreesAt(k, p, e) ==
    \/ e \notin DOMAIN p /\ e \notin DOMAIN Query(k)
    \/ /\ e \in DOMAIN p /\ e \in DOMAIN Query(k)
       /\ p[e] = Query(k)[e]
    \/ /\ e \in DOMAIN p /\ e \in DOMAIN events
       /\ p[e] = events[e] /\ events[e].date < now

(***************************************************************************)
(* ... unless a commit that has changed it is about to purge k, or, for an *)
(* event, a write to its venue has changed it.  The write that will purge  *)
(* shows a row: when the row is gone its refresh raises, and it purges     *)
(* nothing.                                                                *)
(***************************************************************************)
VenueWritten ==
    \E w \in Workers :
        /\ req[w].step = "respond" /\ req[w].op \in VenueOps
        /\ RowIsThere(req[w].op, req[w].key)

(* Worker w has committed a write to event e, and will purge.              *)
EventWritten(w, e) ==
    /\ req[w].step = "respond" /\ req[w].op \notin VenueOps
    /\ RowIsThere(req[w].op, req[w].key)
    /\ \/ req[w].op \in Deletions
       \/ req[w].op = "cast_vote" /\ votes[req[w].key].event = e
       \/ req[w].op # "cast_vote" /\ req[w].key = e

Cached(k, p) == k \in DOMAIN cache /\ cache[k] = p

(* Worker w has the result p of the query for k and is about to store it.  *)
Selected(w, k, p) ==
    reads[w].step = "fill" /\ reads[w].key = k /\ reads[w].payload = p

VenueCacheFollows ==
    /\ \A k, p : Cached(k, p) => VenueAgrees(k, p) \/ VenueWritten
    /\ \A w \in Workers : \A k, p : Selected(w, k, p) => VenueAgrees(k, p)

EventCacheFollows ==
    \A k, p, e : k.view \in EventViews =>
        /\ Cached(k, p) =>
                \/ EventAgreesAt(k, p, e)
                \/ e \in missed
                \/ \E w \in Workers : EventWritten(w, e)
        /\ \A w \in Workers : Selected(w, k, p) => EventAgreesAt(k, p, e)

(***************************************************************************)
(* The hypotheses: no write to a table commits while a read of that table  *)
(* is between its query and cache_set.  Besides those of the event and     *)
(* vote endpoints, a write to a venue is one to events if it closes the    *)
(* venue or deletes it and there are events at it.                         *)
(***************************************************************************)
VenueReadsApart ==
    \A u, w \in Workers :
        ~ /\ reads[u].step = "fill" /\ reads[u].key.view \in VenueViews
          /\ req[w].step = "commit" /\ req[w].op \in VenueOps

WritesEvents(r) ==
    \/ r.op \notin VenueOps
    \/ r.op = "update_venue" /\ r.evs # {}
    \/ r.op = "delete_venue" /\ EventsAt(r.key) # {}

EventReadsApart ==
    \A u, w \in Workers :
        ~ /\ reads[u].step = "fill" /\ reads[u].key.view \in EventViews
          /\ req[w].step = "commit" /\ WritesEvents(req[w])

(* A decision is about the event of its request.                           *)
OwnDecisions ==
    \A w \in Workers :
        Deciding(req[w]) /\ req[w].step # "load_venue" => req[w].evs = {req[w].key}


-----------------------------------------------------------------------------
(* Any number of workers                                                   *)

LEMMA CachedStepIsStep == [CachedNext]_cachedVars => [Next]_vars
  BY DEF CachedNext, cachedVars, vars, Next, ReadStep, Miss, Select, Fill,
         CachedReceive, CachedExecute, RespondAndInvalidate, Expire,
         CachedRestart, CachedTick

(* The cache reads what the endpoints of venues, events and votes write    *)
(* and writes none of it: with the cache they behave as they do without    *)
(* (cache.py, router/venue.py, router/event.py).                           *)
THEOREM CacheIsTransparent == CachedSpec => Spec
<1>1. CachedInit => Init
  BY DEF CachedInit
<1> QED
  BY <1>1, CachedStepIsStep, PTL DEF CachedSpec, Spec

LEMMA ViewsOfKeys ==
    ASSUME NEW k \in Key
    PROVE  /\ k.view \in AllViews
           /\ k.view \in EventViews <=> k.view \notin VenueViews
  BY DEF Key, AllViews, EventViews, VenueViews

(* What a query returns is of the type of its view.                        *)
LEMMA QueryHasType ==
    ASSUME IInv, NEW k \in Key
    PROVE  PayloadOf(k, Query(k))
<1>1. \A S \in SUBSET DOMAIN events : IsTable(Restrict(events, S), EventIds, Event)
  BY DEF IInv, TypeOK, IsTable, Restrict
<1>2. \A S \in SUBSET DOMAIN venues : IsTable(Restrict(venues, S), VenueIds, Venue)
  BY DEF IInv, TypeOK, IsTable, Restrict
<1>3. IsTable(venues, VenueIds, Venue)
  BY DEF IInv, TypeOK
<1>4. k.view \in AllViews
  BY ViewsOfKeys
<1>5. CASE k.view = "event_detail"
  BY <1>1, <1>5 DEF PayloadOf, Query, EventViews
<1>6. CASE k.view = "event_pending"
  <2>1. {e \in DOMAIN events : events[e].status = "pending" /\ events[e].date >= now}
            \subseteq DOMAIN events
    OBVIOUS
  <2> QED
    BY <1>1, <1>6, <2>1 DEF PayloadOf, Query, EventViews
<1>7. CASE k.view = "event_upcoming"
  <2>1. {e \in DOMAIN events : events[e].status = "approved" /\ events[e].date >= now}
            \subseteq DOMAIN events
    OBVIOUS
  <2> QED
    BY <1>1, <1>7, <2>1 DEF PayloadOf, Query, EventViews
<1>8. CASE k.view = "venue_detail"
  BY <1>2, <1>8 DEF PayloadOf, Query, EventViews
<1>9. CASE k.view = "venue_all"
  BY <1>3, <1>9 DEF PayloadOf, Query, EventViews
<1> QED
  BY <1>4, <1>5, <1>6, <1>7, <1>8, <1>9 DEF AllViews, EventViews, VenueViews

(* An empty cache                                                          *)
LEMMA InitCInv == CachedInit => CInv
<1> SUFFICES ASSUME CachedInit PROVE CInv
  OBVIOUS
<1>1. IInv
  BY InitInv DEF CachedInit
<1>2. DOMAIN cache = {}
  BY DEF CachedInit
<1>3. DOMAIN reads = Workers /\ \A w \in Workers : reads[w] = NotReading
  BY DEF CachedInit
<1>4. ReadsOK
  BY <1>3 DEF ReadsOK, ReadOK, NotReading
<1> QED
  BY <1>1, <1>2, <1>3, <1>4 DEF CInv

(* A worker that reads is not writing.                                     *)
LEMMA WritersDoNotRead ==
    ASSUME CInv, NEW w \in Workers,
           Execute(w) \/ Respond(w) \/ DatabaseLocked(w)
    PROVE  reads[w] = NotReading
<1>1. req[w].step \notin Outcomes
  BY DEF Execute, Respond, Refresh, LoadTitle, DatabaseLocked, CreateVenueCommit,
         UpdateVenueLoadEvents, UpdateVenueCommit, DeleteVenueCommit,
         CreateEventCommit, UpdateEventStatusLoadVenue, UpdateEventStatusCommit,
         UpdateEventLoadVenue, UpdateEventCommit, DeleteEventCommit, LoadVotes,
         CastVoteLoadExisting, CastVoteCommit, DeleteVoteLoadEvent,
         DeleteVoteCommit, At, Outcomes
<1> QED
  BY <1>1 DEF CInv, ReadsOK, ReadOK

(* A step of worker w leaves the requests of the others as they are.       *)
LEMMA OthersStay ==
    ASSUME IInv, NEW w \in Workers,
           Receive(w) \/ Execute(w) \/ Respond(w) \/ DatabaseLocked(w),
           NEW u \in Workers, u # w
    PROVE  req'[u] = req[u]
<1>1. \E r : Becomes(w, r)
  BY DEF Receive, CreateVenue, UpdateVenue, DeleteVenue, CreateEvent,
         UpdateEventStatus, UpdateEvent, UpdateEventAwareDate, DeleteEvent,
         CastVote, DeleteVote, Execute, CreateVenueCommit,
         UpdateVenueLoadEvents, UpdateVenueCommit, DeleteVenueCommit,
         CreateEventCommit, UpdateEventStatusLoadVenue, UpdateEventStatusCommit,
         UpdateEventLoadVenue, UpdateEventCommit, DeleteEventCommit, LoadVotes,
         CastVoteLoadExisting, CastVoteCommit, DeleteVoteLoadEvent,
         DeleteVoteCommit, Respond, Refresh, LoadTitle, DatabaseLocked, Rollback, Refuse, Committed
<1> QED
  BY <1>1 DEF Becomes, IInv, TypeOK


(* A read that goes from q to another state, the writes untouched          *)
LEMMA ReadingKeepsCInv ==
    ASSUME CInv, IInv', NEW w \in Workers, NEW q, ReadOK(q),
           req[w].step \in Outcomes, req' = req,
           reads' = [reads EXCEPT ![w] = q],
           DOMAIN cache' \subseteq Key,
           \A k \in DOMAIN cache' : PayloadOf(k, cache'[k])
    PROVE  CInv'
<1>1. DOMAIN reads' = Workers /\ reads'[w] = q
      /\ \A u \in Workers : u # w => reads'[u] = reads[u]
  BY DEF CInv
<1>2. \A u \in Workers : ReadOK(reads'[u])
                         /\ (reads'[u].step # "idle" => req'[u].step \in Outcomes)
  BY <1>1 DEF CInv, ReadsOK
<1>3. ReadsOK'
  BY <1>2 DEF ReadsOK, ReadOK, PayloadOf
<1>4. \A k \in DOMAIN cache' : PayloadOf(k, cache[k])'
  BY DEF PayloadOf
<1> QED
  BY <1>1, <1>3, <1>4 DEF CInv

(* The same of a step that reads nothing and may purge entries             *)
LEMMA WritingKeepsCInv ==
    ASSUME CInv, IInv', reads' = reads,
           \A u \in Workers : reads[u] = NotReading \/ req'[u] = req[u],
           NEW S, cache' = Delete(cache, S) \/ cache' = cache
    PROVE  CInv'
<1>1. /\ DOMAIN cache' \subseteq DOMAIN cache
      /\ \A k \in DOMAIN cache' : cache'[k] = cache[k]
  BY DEF Delete, Restrict
<1>2. \A k \in DOMAIN cache' : PayloadOf(k, cache[k])'
  BY <1>1 DEF CInv, PayloadOf
<1>3. \A u \in Workers : /\ ReadOK(reads[u])
                         /\ reads[u].step # "idle" => req'[u].step \in Outcomes
  BY DEF CInv, ReadsOK, NotReading
<1>4. ReadsOK'
  BY <1>3 DEF ReadsOK, ReadOK, PayloadOf
<1> QED
  BY <1>1, <1>2, <1>4 DEF CInv

LEMMA ReadStepKeepsCInv ==
    ASSUME CInv, IInv', NEW w \in Workers, ReadStep(w)
    PROVE  CInv'
<1>1. CASE Miss(w)
  <2>1. PICK k \in Key : reads' = [reads EXCEPT ![w] = [step |-> "select", key |-> k]]
    BY <1>1 DEF Miss
  <2>2. ReadOK([step |-> "select", key |-> k])
    BY DEF ReadOK
  <2>3. req' = req /\ cache' = cache /\ req[w].step \in Outcomes
    BY <1>1 DEF Miss, vars
  <2> QED
    BY <2>1, <2>2, <2>3, ReadingKeepsCInv DEF CInv
<1>2. CASE Select(w)
  <2>1. req' = req /\ cache' = cache
    BY <1>2 DEF Select, vars
  <2>2. PICK k : k = reads[w].key
    OBVIOUS
  <2>3. k \in Key /\ req[w].step \in Outcomes
    BY <1>2, <2>2 DEF Select, CInv, ReadsOK, ReadOK, NotReading
  <2>4. PICK p : p = Query(k)
    OBVIOUS
  <2>5. PayloadOf(k, p)
    BY <2>3, <2>4, QueryHasType DEF CInv
  <2>6. ReadOK(NotReading) /\ ReadOK([step |-> "fill", key |-> k, payload |-> p])
    BY <2>3, <2>5 DEF ReadOK
  <2>7. \/ reads' = [reads EXCEPT ![w] = NotReading]
        \/ reads' = [reads EXCEPT ![w] = [step |-> "fill", key |-> k, payload |-> p]]
    BY <1>2, <2>2, <2>4 DEF Select
  <2> QED
    BY <2>1, <2>3, <2>6, <2>7, ReadingKeepsCInv DEF CInv
<1>3. CASE Fill(w)
  <2>1. /\ req' = req
        /\ reads' = [reads EXCEPT ![w] = NotReading]
        /\ cache' = Insert(cache, reads[w].key, reads[w].payload)
    BY <1>3 DEF Fill, vars
  <2>2. PICK k, p : k = reads[w].key /\ p = reads[w].payload
    OBVIOUS
  <2>3. k \in Key /\ PayloadOf(k, p) /\ req[w].step \in Outcomes
    BY <1>3, <2>2 DEF Fill, CInv, ReadsOK, ReadOK, NotReading
  <2>4. DOMAIN cache' \subseteq Key /\ \A x \in DOMAIN cache' : PayloadOf(x, cache'[x])
    BY <2>1, <2>2, <2>3 DEF CInv, Insert
  <2>5. ReadOK(NotReading)
    BY DEF ReadOK
  <2> QED
    BY <2>1, <2>3, <2>4, <2>5, ReadingKeepsCInv
<1> QED
  BY <1>1, <1>2, <1>3 DEF ReadStep

(* Every step, of any number of workers                                    *)
LEMMA NextCInv == CInv /\ [CachedNext]_cachedVars => CInv'
<1> SUFFICES ASSUME CInv, [CachedNext]_cachedVars PROVE CInv'
  OBVIOUS
<1>1. IInv'
  BY CachedStepIsStep, NextInv DEF CInv
<1>2. ASSUME NEW w \in Workers, ReadStep(w) PROVE CInv'
  BY <1>1, <1>2, ReadStepKeepsCInv
<1>3. ASSUME NEW w \in Workers, CachedReceive(w) PROVE CInv'
  <2>1. reads[w] = NotReading /\ reads' = reads /\ cache' = cache /\ Receive(w)
    BY <1>3 DEF CachedReceive
  <2>2. \A u \in Workers : reads[u] = NotReading \/ req'[u] = req[u]
    BY <2>1, OthersStay DEF CInv
  <2> QED
    BY <1>1, <2>1, <2>2, WritingKeepsCInv
<1>4. ASSUME NEW w \in Workers, CachedExecute(w) \/ RespondAndInvalidate(w) PROVE CInv'
  <2>1. Execute(w) \/ DatabaseLocked(w) \/ Respond(w)
    BY <1>4 DEF CachedExecute, RespondAndInvalidate
  <2>2. reads[w] = NotReading
    BY <2>1, WritersDoNotRead
  <2>3. \A u \in Workers : reads[u] = NotReading \/ req'[u] = req[u]
    BY <2>1, <2>2, OthersStay DEF CInv
  <2>4. reads' = reads /\ \E S : cache' = Delete(cache, S) \/ cache' = cache
    BY <1>4 DEF CachedExecute, RespondAndInvalidate, Invalidate
  <2> QED
    BY <1>1, <2>3, <2>4, WritingKeepsCInv
<1>5. ASSUME NEW k \in Key, Expire(k) PROVE CInv'
  BY <1>1, <1>5, WritingKeepsCInv DEF Expire, vars
<1>6. CASE CachedRestart
  <2>1. DOMAIN cache' = {} /\ DOMAIN reads' = Workers
        /\ \A w \in Workers : reads'[w] = NotReading
    BY <1>6 DEF CachedRestart
  <2>2. ReadsOK'
    BY <2>1 DEF ReadsOK, ReadOK, NotReading
  <2> QED
    BY <1>1, <2>1, <2>2 DEF CInv
<1>7. CASE CachedTick \/ UNCHANGED cachedVars
  BY <1>1, <1>7, WritingKeepsCInv DEF CachedTick, Tick, cachedVars
<1> QED
  BY <1>2, <1>3, <1>4, <1>5, <1>6, <1>7 DEF CachedNext

(* The invariant of Booking holds with the cache as well, and what is      *)
(* cached or about to be has the type of its view, for any number of       *)
(* workers.                                                                *)
THEOREM CachedInvariance == CachedSpec => []CInv
BY InitCInv, NextCInv, PTL DEF CachedSpec

(* Every payload in the cache holds rows of the table of its view, and a   *)
(* worker that serves a read serves no write, for any number of workers    *)
(* (cache_set in the GET endpoints).                                       *)
THEOREM CacheTypeCorrectness == CachedSpec => []CacheTypeOK
<1>1. CInv => CacheTypeOK
  BY DEF CInv, CacheTypeOK, PayloadOf, ReadsOK, ReadOK, NotReading
<1> QED
  BY <1>1, CachedInvariance, PTL


-----------------------------------------------------------------------------
(* What a step does to the agreement of a payload                          *)

(* A payload of venues agrees as before if the venues are as before.       *)
LEMMA VenuesUnchanged ==
    ASSUME NEW k \in Key, NEW p, venues' = venues, VenueAgrees(k, p)
    PROVE  VenueAgrees(k, p)'
<1>1. ASSUME k.view \in VenueViews PROVE Query(k)' = Query(k)
  <2>1. CASE k.view = "venue_detail"
    BY <2>1 DEF Query
  <2>2. CASE k.view = "venue_all"
    BY <2>2 DEF Query
  <2> QED
    BY <1>1, <2>1, <2>2 DEF VenueViews
<1> QED
  BY <1>1 DEF VenueAgrees

(* The rows that an event view shows                                       *)
Shown(k, e) ==
    /\ e \in DOMAIN events
    /\ CASE k.view = "event_detail" -> e = k.id
         [] k.view = "event_pending" ->
                events[e].status = "pending" /\ events[e].date >= now
         [] k.view = "event_upcoming" ->
                events[e].status = "approved" /\ events[e].date >= now

(* What a query of an event view returns, row by row                       *)
LEMMA QueryShows ==
    ASSUME NEW k \in Key, k.view \in EventViews, NEW e
    PROVE  /\ e \in DOMAIN Query(k) <=> Shown(k, e)
           /\ e \in DOMAIN Query(k) => Query(k)[e] = events[e]
<1>1. CASE k.view = "event_detail"
  BY <1>1 DEF Query, Shown, Restrict
<1>2. CASE k.view = "event_pending"
  BY <1>2 DEF Query, Shown, Restrict
<1>3. CASE k.view = "event_upcoming"
  BY <1>3 DEF Query, Shown, Restrict
<1> QED
  BY <1>1, <1>2, <1>3 DEF EventViews

(* Agreement without the query                                             *)
FlatAgreesAt(k, p, e) ==
    \/ e \notin DOMAIN p /\ ~ Shown(k, e)
    \/ e \in DOMAIN p /\ Shown(k, e) /\ p[e] = events[e]
    \/ /\ e \in DOMAIN p /\ e \in DOMAIN events
       /\ p[e] = events[e] /\ events[e].date < now

AgreementIsFlat ==
    \A k \in Key : \A p, e :
        k.view \in EventViews => (EventAgreesAt(k, p, e) <=> FlatAgreesAt(k, p, e))

LEMMA FlatAgreement == AgreementIsFlat
<1> SUFFICES ASSUME NEW k \in Key, NEW p, k.view \in EventViews, NEW e
             PROVE  EventAgreesAt(k, p, e) <=> FlatAgreesAt(k, p, e)
  BY DEF AgreementIsFlat
<1>1. /\ e \in DOMAIN Query(k) <=> Shown(k, e)
      /\ e \in DOMAIN Query(k) => Query(k)[e] = events[e]
  BY QueryShows
<1> QED
  BY <1>1 DEF EventAgreesAt, FlatAgreesAt

LEMMA FlatAgreementNext == AgreementIsFlat'
BY FlatAgreement, PTL

(* A step leaves event e as it is.                                         *)
Keeps(e) ==
    /\ e \in DOMAIN events' <=> e \in DOMAIN events
    /\ e \in DOMAIN events => events'[e] = events[e]

(* Agreement outlives the passing of time: a row that a payload shows as   *)
(* the table has it may leave the query when its date comes.               *)
LEMMA KeepingAgrees ==
    ASSUME IInv, NEW k \in Key, NEW p, NEW e, k.view \in EventViews,
           EventAgreesAt(k, p, e), Keeps(e),
           \/ now' = now
           \/ now' = now + 1 /\ events' = events
    PROVE  EventAgreesAt(k, p, e)'
<1>1. FlatAgreesAt(k, p, e)
  BY FlatAgreement DEF AgreementIsFlat
<1>2. FlatAgreesAt(k, p, e)'
  <2>1. CASE now' = now
    <3>1. Shown(k, e)' <=> Shown(k, e)
      BY <2>1 DEF Shown, Keeps
    <3> QED
      BY <1>1, <2>1, <3>1 DEF FlatAgreesAt, Keeps, Shown
  <2>2. CASE now' = now + 1 /\ events' = events
    <3>0. e \in DOMAIN events => now \in Int /\ events[e].date \in Int
      BY BoundsAreNaturals DEF IInv, TypeOK, IsTable, Event, Dates
    <3>1. CASE Shown(k, e)' <=> Shown(k, e)
      BY <1>1, <2>2, <3>0, <3>1 DEF FlatAgreesAt
    <3>2. CASE ~ (Shown(k, e)' <=> Shown(k, e))
      <4>1. /\ e \in DOMAIN events /\ Shown(k, e) /\ ~ Shown(k, e)'
            /\ events[e].date < now + 1
        BY <2>2, <3>0, <3>2 DEF Shown, EventViews
      <4> QED
        BY <1>1, <2>2, <3>0, <4>1 DEF FlatAgreesAt
    <3> QED
      BY <3>1, <3>2
  <2> QED
    BY <2>1, <2>2
<1> QED
  BY <1>2, FlatAgreementNext DEF AgreementIsFlat

(* A payload agrees with the query that returns it.                        *)
LEMMA QueryAgrees ==
    ASSUME NEW k \in Key
    PROVE  VenueAgrees(k, Query(k)) /\ \A e : EventAgreesAt(k, Query(k), e)
  BY DEF VenueAgrees, EventAgreesAt

-----------------------------------------------------------------------------
(* What the steps do to the cache, to the reads and to pending writes      *)

(* A read moves a payload from its query to the cache.                     *)
LEMMA ReadMoves ==
    ASSUME CInv, NEW w \in Workers, ReadStep(w)
    PROVE  /\ UNCHANGED vars
           /\ \A k, p : Cached(k, p)' => Cached(k, p) \/ Selected(w, k, p)
           /\ \A u \in Workers : \A k, p :
                Selected(u, k, p)' => \/ Selected(u, k, p)
                                      \/ k \in Key /\ p = Query(k)
<1>1. UNCHANGED vars
  BY DEF ReadStep, Miss, Select, Fill
<1>2. \A k, p : Cached(k, p)' => Cached(k, p) \/ Selected(w, k, p)
  BY DEF ReadStep, Miss, Select, Fill, Cached, Selected, Insert
<1>3. ASSUME NEW u \in Workers, NEW k, NEW p, Selected(u, k, p)'
      PROVE  \/ Selected(u, k, p)
             \/ k \in Key /\ p = Query(k)
  <2>1. CASE u # w
    BY <1>3, <2>1 DEF ReadStep, Miss, Select, Fill, Selected, CInv
  <2>2. CASE u = w /\ Select(w)
    <3>1. reads[w].key \in Key
      BY <2>2 DEF Select, CInv, ReadsOK, ReadOK, NotReading
    <3> QED
      BY <1>3, <2>2, <3>1 DEF Select, Selected, CInv, NotReading
  <2>3. CASE u = w /\ (Miss(w) \/ Fill(w))
    BY <1>3, <2>3 DEF Miss, Fill, Selected, CInv, NotReading
  <2> QED
    BY <2>1, <2>2, <2>3 DEF ReadStep
<1> QED
  BY <1>1, <1>2, <1>3

(* What is cached or selected is under a key.                              *)
LEMMA KeysAreKeys ==
    ASSUME CInv
    PROVE  /\ \A k, p : Cached(k, p) => k \in Key
           /\ \A w \in Workers : \A k, p : Selected(w, k, p) => k \in Key
  BY DEF CInv, Cached, Selected, ReadsOK, ReadOK, NotReading

LEMMA PurgingOnlyRemoves ==
    ASSUME NEW S, cache' = Delete(cache, S) \/ cache' = cache, reads' = reads
    PROVE  /\ \A k, p : Cached(k, p)' => Cached(k, p)
           /\ \A w \in Workers : \A k, p : Selected(w, k, p)' => Selected(w, k, p)
  BY DEF Cached, Selected, Delete, Restrict

(* A commit leaves its worker about to answer.                             *)
LEMMA CommittedResponds ==
    ASSUME TypeOK, NEW w \in Workers, NEW k, Committed(w, k)
    PROVE  req'[w].step = "respond" /\ req'[w].op = req[w].op /\ req'[w].key = k
  BY DEF Committed, Becomes, NewRequest, TypeOK


-----------------------------------------------------------------------------
(* Venues                                                                  *)

(* Only three commits change venues; who commits one shows it, or has      *)
(* deleted it, and so do those before.                                     *)
LEMMA WritesToVenues ==
    ASSUME IInv, NEW w \in Workers, Receive(w) \/ Execute(w)
    PROVE  /\ \/ venues' = venues
              \/ req[w].step = "commit" /\ req[w].op \in VenueOps /\ VenueWritten'
           /\ VenueWritten => VenueWritten'
<1>0. TypeOK
  BY DEF IInv
<1>1. ASSUME NEW k, Committed(w, k), req[w].op \in VenueOps,
             req[w].op = "delete_venue" \/ k \in DOMAIN venues'
      PROVE  VenueWritten'
  BY <1>0, <1>1, CommittedResponds DEF VenueWritten, RowIsThere, Deletions, VenueOps
<1>2. req[w].step # "respond"
  BY DEF Receive, CreateVenue, UpdateVenue, DeleteVenue, CreateEvent,
         UpdateEventStatus, UpdateEvent, UpdateEventAwareDate, DeleteEvent,
         CastVote, DeleteVote, Accepts, Execute, CreateVenueCommit,
         UpdateVenueLoadEvents, UpdateVenueCommit, DeleteVenueCommit,
         CreateEventCommit, UpdateEventStatusLoadVenue, UpdateEventStatusCommit,
         UpdateEventLoadVenue, UpdateEventCommit, DeleteEventCommit, LoadVotes,
         CastVoteLoadExisting, CastVoteCommit, DeleteVoteLoadEvent,
         DeleteVoteCommit, At, Outcomes
<1>3. ASSUME DOMAIN venues \subseteq DOMAIN venues' PROVE VenueWritten => VenueWritten'
  <2> SUFFICES ASSUME VenueWritten PROVE VenueWritten'
    OBVIOUS
  <2>1. PICK u \in Workers : /\ req[u].step = "respond" /\ req[u].op \in VenueOps
                             /\ RowIsThere(req[u].op, req[u].key)
    BY DEF VenueWritten
  <2>2. req'[u] = req[u]
    BY <1>2, <2>1, OthersStay
  <2> QED
    BY <1>3, <2>1, <2>2 DEF VenueWritten, RowIsThere, Deletions, VenueOps
<1>4. CASE UNCHANGED tables
  BY <1>3, <1>4 DEF tables
<1>5. CASE CreateVenueCommit(w)
  <2>1. PICK v \in VenueIds : \E row :
            venues' = Insert(venues, v, row) /\ Committed(w, v)
    BY <1>5 DEF CreateVenueCommit
  <2>2. v \in DOMAIN venues' /\ DOMAIN venues \subseteq DOMAIN venues'
    BY <2>1 DEF Insert
  <2> QED
    BY <1>1, <1>3, <1>5, <2>1, <2>2 DEF CreateVenueCommit, At, VenueOps
<1>6. CASE UpdateVenueCommit(w)
  <2>1. CASE Rollback(w)
    BY <1>4, <2>1 DEF Rollback, Read, tables
  <2>2. CASE ~ Rollback(w)
    <3>1. DOMAIN venues' = DOMAIN venues /\ Committed(w, req[w].key)
      BY <1>6, <2>2 DEF UpdateVenueCommit
    <3>2. venues' = venues \/ req[w].key \in DOMAIN venues
      BY <1>0, <1>6, <2>2 DEF UpdateVenueCommit, TypeOK, IsTable
    <3> QED
      BY <1>1, <1>3, <1>6, <3>1, <3>2 DEF UpdateVenueCommit, At, VenueOps
  <2> QED
    BY <2>1, <2>2
<1>7. CASE DeleteVenueCommit(w)
  BY <1>1, <1>7 DEF DeleteVenueCommit, At, VenueOps
<1>8. CASE CreateEventCommit(w) \/ UpdateEventStatusCommit(w)
           \/ UpdateEventCommit(w) \/ DeleteEventCommit(w)
           \/ CastVoteCommit(w) \/ DeleteVoteCommit(w)
  BY <1>3, <1>8 DEF CreateEventCommit, UpdateEventStatusCommit, UpdateEventCommit,
         DeleteEventCommit, CastVoteCommit, DeleteVoteCommit, Rollback, Read
<1> QED
  BY <1>4, <1>5, <1>6, <1>7, <1>8, WhoWrites

(* The answer to a write to venues purges their keys, unless its row is    *)
(* gone; then it is the write that deleted the row which does.             *)
LEMMA RespondingPurgesVenues ==
    ASSUME CInv, VenueCacheFollows, NEW w \in Workers, RespondAndInvalidate(w)
    PROVE  VenueCacheFollows'
<1>1. /\ reads' = reads
      /\ UNCHANGED <<venues, events, votes, now>>
      /\ \E S : cache' = Delete(cache, S) \/ cache' = cache
  BY DEF RespondAndInvalidate, Invalidate, Respond, Refresh, LoadTitle, Read
<1>2. \A u \in Workers : u # w => req'[u] = req[u]
  BY OthersStay DEF RespondAndInvalidate, CInv
<1>3. /\ \A k, p : Cached(k, p)' => Cached(k, p) /\ k \in Key
      /\ \A u \in Workers : \A k, p : Selected(u, k, p)' => Selected(u, k, p) /\ k \in Key
  BY <1>1, PurgingOnlyRemoves, KeysAreKeys
<1>4. ASSUME NEW k, NEW p, Cached(k, p)' PROVE VenueAgrees(k, p)' \/ VenueWritten'
  <2>1. CASE VenueAgrees(k, p)
    BY <1>1, <1>3, <1>4, <2>1, VenuesUnchanged
  <2>2. CASE VenueWritten
    <3>1. PICK u \in Workers : /\ req[u].step = "respond" /\ req[u].op \in VenueOps
                               /\ RowIsThere(req[u].op, req[u].key)
      BY <2>2 DEF VenueWritten
    <3>2. CASE u # w
      <4>1. req'[u] = req[u]
        BY <1>2, <3>2
      <4> QED
        BY <1>1, <3>1, <4>1 DEF VenueWritten, RowIsThere
    <3>3. CASE u = w
      <4>1. cache' = Delete(cache, WithPrefix("venue"))
        BY <3>1, <3>3 DEF RespondAndInvalidate, Invalidate, Prefix
      <4>2. k \notin WithPrefix("venue") /\ k \in DOMAIN cache
        BY <1>4, <4>1 DEF Cached, Delete, Restrict
      <4> QED
        BY <4>2 DEF WithPrefix, VenueAgrees
    <3> QED
      BY <3>2, <3>3
  <2> QED
    BY <1>3, <1>4, <2>1, <2>2 DEF VenueCacheFollows
<1>5. ASSUME NEW u \in Workers, NEW k, NEW p, Selected(u, k, p)'
      PROVE  VenueAgrees(k, p)'
  BY <1>1, <1>3, <1>5, VenuesUnchanged DEF VenueCacheFollows
<1> QED
  BY <1>4, <1>5 DEF VenueCacheFollows

LEMMA NextVenueCache ==
    ASSUME ~ LockTimeouts, CInv, VenueCacheFollows, VenueReadsApart,
           [CachedNext]_cachedVars
    PROVE  VenueCacheFollows'
<1>0. /\ \A k, p : Cached(k, p) => k \in Key
      /\ \A w \in Workers : \A k, p : Selected(w, k, p) => k \in Key
  BY KeysAreKeys
<1>1. ASSUME NEW w \in Workers, ReadStep(w) PROVE VenueCacheFollows'
  <2>1. venues' = venues /\ VenueWritten' = VenueWritten
    BY <1>1, ReadMoves DEF vars, VenueWritten, RowIsThere
  <2>2. ASSUME NEW k, NEW p, Cached(k, p)' PROVE VenueAgrees(k, p)' \/ VenueWritten'
    BY <1>0, <1>1, <2>1, <2>2, ReadMoves, VenuesUnchanged DEF VenueCacheFollows
  <2>3. ASSUME NEW u \in Workers, NEW k, NEW p, Selected(u, k, p)'
        PROVE  VenueAgrees(k, p)'
    <3>1. k \in Key /\ VenueAgrees(k, p)
      BY <1>0, <1>1, <2>3, ReadMoves, QueryAgrees DEF VenueCacheFollows
    <3> QED
      BY <2>1, <3>1, VenuesUnchanged
  <2> QED
    BY <2>2, <2>3 DEF VenueCacheFollows
<1>2. ASSUME NEW w \in Workers, Receive(w) \/ Execute(w), UNCHANGED <<cache, reads>>
      PROVE  VenueCacheFollows'
  <2>1. /\ \A k, p : Cached(k, p)' => Cached(k, p)
        /\ \A u \in Workers : \A k, p : Selected(u, k, p)' => Selected(u, k, p)
    BY <1>2 DEF Cached, Selected
  <2>2. /\ \/ venues' = venues
           \/ req[w].step = "commit" /\ req[w].op \in VenueOps /\ VenueWritten'
        /\ VenueWritten => VenueWritten'
    BY <1>2, WritesToVenues DEF CInv
  <2>3. ASSUME NEW k, NEW p, Cached(k, p)' PROVE VenueAgrees(k, p)' \/ VenueWritten'
    BY <1>0, <2>1, <2>2, <2>3, VenuesUnchanged DEF VenueCacheFollows
  <2>4. ASSUME NEW u \in Workers, NEW k, NEW p, Selected(u, k, p)'
        PROVE  VenueAgrees(k, p)'
    <3>1. Selected(u, k, p) /\ VenueAgrees(k, p) /\ k \in Key
      BY <1>0, <2>1, <2>4 DEF VenueCacheFollows
    <3>2. CASE venues' = venues
      BY <3>1, <3>2, VenuesUnchanged
    <3>3. CASE req[w].step = "commit" /\ req[w].op \in VenueOps
      BY <3>1, <3>3 DEF VenueReadsApart, Selected, VenueAgrees
    <3> QED
      BY <2>2, <3>2, <3>3
  <2> QED
    BY <2>3, <2>4 DEF VenueCacheFollows
<1>3. ASSUME NEW w \in Workers, CachedReceive(w) \/ CachedExecute(w)
      PROVE  VenueCacheFollows'
  BY <1>2, <1>3 DEF CachedReceive, CachedExecute, DatabaseLocked
<1>4. ASSUME NEW w \in Workers, RespondAndInvalidate(w) PROVE VenueCacheFollows'
  BY <1>4, RespondingPurgesVenues
<1>5. CASE CachedRestart
  BY <1>5 DEF CachedRestart, VenueCacheFollows, Cached, Selected, NotReading
<1>6. CASE (\E k \in Key : Expire(k)) \/ CachedTick \/ UNCHANGED cachedVars
  <2>1. /\ UNCHANGED <<venues, events, votes, req, reads>>
        /\ \E S : cache' = Delete(cache, S) \/ cache' = cache
    BY <1>6 DEF Expire, CachedTick, Tick, cachedVars, vars
  <2>2. /\ \A k, p : Cached(k, p)' => Cached(k, p)
        /\ \A u \in Workers : \A k, p : Selected(u, k, p)' => Selected(u, k, p)
    BY <2>1, PurgingOnlyRemoves
  <2>3. VenueWritten' = VenueWritten
    BY <2>1 DEF VenueWritten, RowIsThere
  <2> QED
    BY <1>0, <2>1, <2>2, <2>3, VenuesUnchanged DEF VenueCacheFollows
<1> QED
  BY <1>1, <1>3, <1>4, <1>5, <1>6 DEF CachedNext

(* Once all writes have been answered no cached payload of get_venue and   *)
(* get_all_venues is stale, however many writes overlap, as long as none   *)
(* to a venue commits between the query of such a read and its cache_set:  *)
(* invalidate("venue") is called by every endpoint that changes a venue    *)
(* (router/venue.py, cache.py).                                            *)
THEOREM VenueCacheIfReadsApart ==
    ASSUME ~ LockTimeouts
    PROVE  CachedSpec => ([]VenueReadsApart => []VenueCacheFresh)
<1>1. CachedInit => VenueCacheFollows
  BY DEF CachedInit, VenueCacheFollows, Cached, Selected, NotReading
<1>2. CInv /\ VenueCacheFollows /\ VenueReadsApart /\ [CachedNext]_cachedVars
        => VenueCacheFollows'
  BY NextVenueCache
<1>3. VenueCacheFollows => VenueCacheFresh
  BY DEF VenueCacheFollows, Cached, VenueAgrees, VenueCacheFresh, Fresh,
         InvalidationPending, VenueWritten
<1> QED
  BY <1>1, <1>2, <1>3, CachedInvariance, PTL DEF CachedSpec


-----------------------------------------------------------------------------
(* Events                                                                  *)

(* update_event_status decides the event of its request, whatever overlaps *)
(* with it.                                                                *)
LEMMA NextOwnDecisions ==
    ASSUME TypeOK, OwnDecisions, [Next]_vars
    PROVE  OwnDecisions'
<1>1. ASSUME NEW w \in Workers,
             Receive(w) \/ Execute(w) \/ Respond(w) \/ DatabaseLocked(w),
             Deciding(req'[w]), req'[w].step # "load_venue"
      PROVE  req'[w].evs = {req'[w].key}
  <2>0. \A r : Becomes(w, r) => req'[w] = r
    BY DEF Becomes, TypeOK
  <2>1. Running(req'[w]) /\ req'[w].op = "update_event_status"
    BY <1>1 DEF Deciding
  <2>2. ~ Refuse(w)
    BY <2>0, <2>1 DEF Refuse, Running, Free, NewRequest, Outcomes
  <2>3. ~ Receive(w)
    <3>1. UpdateEventStatus(w) => req'[w].step = "load_venue"
      BY <2>0, <2>2 DEF UpdateEventStatus, Call, NewRequest
    <3> QED
      BY <1>1, <2>1, <3>1, AcceptedOp
  <2>4. /\ \/ UpdateVenueLoadEvents(w) \/ UpdateEventStatusLoadVenue(w)
           \/ UpdateEventLoadVenue(w) \/ LoadVotes(w)
           \/ CastVoteLoadExisting(w) \/ DeleteVoteLoadEvent(w)
        /\ req'[w].op = req[w].op /\ req'[w].key = req[w].key
    BY <1>1, <2>1, <2>3, RunningOn
  <2>5. UpdateEventStatusLoadVenue(w) \/ LoadVotes(w)
    BY <2>1, <2>4
    DEF UpdateVenueLoadEvents, UpdateEventLoadVenue, CastVoteLoadExisting,
        DeleteVoteLoadEvent, At
  <2>6. req[w] \in Request
    BY DEF TypeOK
  <2>7. CASE UpdateEventStatusLoadVenue(w)
    BY <2>0, <2>2, <2>6, <2>7 DEF UpdateEventStatusLoadVenue, Request
  <2>8. CASE LoadVotes(w)
    <3>1. req[w].evs = {req[w].key}
      BY <2>1, <2>4, <2>8 DEF LoadVotes, OwnDecisions, Deciding, Running, Outcomes
    <3> QED
      BY <2>0, <2>4, <2>6, <2>8, <3>1 DEF LoadVotes, Request
  <2> QED
    BY <2>5, <2>7, <2>8
<1>2. ASSUME NEW w \in Workers,
             Receive(w) \/ Execute(w) \/ Respond(w) \/ DatabaseLocked(w),
             \A u \in Workers : u # w => req'[u] = req[u]
      PROVE  OwnDecisions'
  BY <1>1, <1>2 DEF OwnDecisions
<1>3. CASE \A w \in Workers : req'[w] = Free("idle")
  BY <1>3 DEF OwnDecisions, Deciding, Running, Free, NewRequest, Outcomes
<1>4. CASE req' = req
  BY <1>4 DEF OwnDecisions
<1> QED
  BY <1>2, <1>3, <1>4, WhoActs

LEMMA DecisionsAreOwn == CachedSpec => []OwnDecisions
<1>1. Init => OwnDecisions
  BY DEF Init, OwnDecisions, Deciding, Running, Free, NewRequest, Outcomes
<1>2. TypeOK /\ OwnDecisions /\ [Next]_vars => OwnDecisions'
  BY NextOwnDecisions
<1> QED
  BY <1>1, <1>2, TypeCorrectness, CacheIsTransparent, PTL DEF Spec

(* A write to one event leaves all others as they are, and shows its row,  *)
(* or deletes; a write to a venue changes the events it has loaded.        *)
LEMMA WritesToEvents ==
    ASSUME IInv, OwnDecisions, NEW w \in Workers, Receive(w) \/ Execute(w), NEW e
    PROVE  /\ now' = now
           /\ \/ Keeps(e)
              \/ /\ req[w].step = "commit" /\ WritesEvents(req[w])
                 /\ EventWritten(w, e)' \/ e \in ChangedWithVenue(w)
<1> DEFINE r == req[w]
           Writes == /\ r.step = "commit" /\ r.op \notin VenueOps
                     /\ EventWritten(w, e)'
           Changes == /\ r.step = "commit" /\ WritesEvents(r)
                      /\ e \in ChangedWithVenue(w)
<1>0. TypeOK /\ r \in Request
  BY DEF IInv, TypeOK
<1>1. ASSUME UNCHANGED <<events, now>> PROVE now' = now /\ Keeps(e)
  BY <1>1 DEF Keeps
<1>2. CASE UNCHANGED tables
  <2>1. now' = now
    BY <1>2 DEF Receive, CreateVenue, UpdateVenue, DeleteVenue, CreateEvent,
         UpdateEventStatus, UpdateEvent, UpdateEventAwareDate, DeleteEvent,
         CastVote, DeleteVote, Rollback, Read, Execute, CreateVenueCommit,
         UpdateVenueLoadEvents, UpdateVenueCommit, DeleteVenueCommit,
         CreateEventCommit, UpdateEventStatusLoadVenue, UpdateEventStatusCommit,
         UpdateEventLoadVenue, UpdateEventCommit, DeleteEventCommit, LoadVotes,
         CastVoteLoadExisting, CastVoteCommit, DeleteVoteLoadEvent,
         DeleteVoteCommit
  <2> QED
    BY <1>1, <1>2, <2>1 DEF tables
<1>3. CASE Rollback(w)
  BY <1>1, <1>3 DEF Rollback, Read
<1>4. CASE CreateVenueCommit(w)
  BY <1>1, <1>4 DEF CreateVenueCommit
<1>5. CASE UpdateVenueCommit(w) /\ ~ Rollback(w)
  <2>1. /\ events' = SetStatus(r.evs, "rejected") /\ now' = now
        /\ r.op = "update_venue" /\ r.step = "commit"
    BY <1>5 DEF UpdateVenueCommit, At
  <2>2. DOMAIN events' = DOMAIN events /\ (e \notin r.evs => Keeps(e))
    BY <2>1 DEF SetStatus, Keeps
  <2>3. e \in r.evs => Keeps(e) \/ Changes
    BY <2>1, <2>2 DEF Keeps, ChangedWithVenue, WritesEvents, VenueOps
  <2> QED
    BY <2>1, <2>2, <2>3
<1>6. CASE DeleteVenueCommit(w)
  <2>1. /\ events' = Delete(events, EventsAt(r.key)) /\ now' = now
        /\ r.op = "delete_venue" /\ r.step = "commit"
    BY <1>6 DEF DeleteVenueCommit, DropEvents, At
  <2>2. e \notin EventsAt(r.key) => Keeps(e)
    BY <2>1 DEF Delete, Restrict, Keeps
  <2>3. e \in EventsAt(r.key) => Changes
    BY <2>1 DEF Delete, Restrict, EventsAt, ChangedWithVenue, WritesEvents, VenueOps
  <2> QED
    BY <2>1, <2>2, <2>3
<1>7. CASE CreateEventCommit(w) /\ ~ Rollback(w)
  <2>1. PICK k \in EventIds : \E row :
            /\ events' = Insert(events, k, row) /\ Committed(w, k) /\ now' = now
    BY <1>7 DEF CreateEventCommit
  <2>2. k \in DOMAIN events' /\ (e # k => Keeps(e))
    BY <2>1 DEF Insert, Keeps
  <2>3. e = k => Writes
    BY <1>0, <1>7, <2>1, <2>2, CommittedResponds
    DEF CreateEventCommit, At, VenueOps, EventWritten, RowIsThere, Deletions
  <2> QED
    BY <2>1, <2>2, <2>3 DEF WritesEvents
<1>8. CASE UpdateEventStatusCommit(w) /\ ~ Rollback(w)
  <2>1. r.evs = {r.key}
    BY <1>8 DEF UpdateEventStatusCommit, At, OwnDecisions, Deciding, Running, Outcomes
  <2>2. /\ events' = SetStatus(r.evs, r.status) /\ Committed(w, r.key)
        /\ now' = now /\ r.key \in DOMAIN events
    BY <1>8, <2>1 DEF UpdateEventStatusCommit
  <2>3. r.key \in DOMAIN events' /\ (e # r.key => Keeps(e))
    BY <2>1, <2>2 DEF SetStatus, Keeps
  <2>4. e = r.key => Writes
    BY <1>0, <1>8, <2>2, <2>3, CommittedResponds
    DEF UpdateEventStatusCommit, At, VenueOps, EventWritten, RowIsThere, Deletions
  <2> QED
    BY <2>2, <2>3, <2>4 DEF WritesEvents
<1>9. CASE UpdateEventCommit(w) /\ ~ Rollback(w)
  <2>1. /\ DOMAIN events' = DOMAIN events
        /\ e \in DOMAIN events /\ e # r.key => events'[e] = events[e]
        /\ Committed(w, r.key) /\ now' = now
    BY <1>9 DEF UpdateEventCommit
  <2>2. e # r.key \/ e \notin DOMAIN events => Keeps(e)
    BY <2>1 DEF Keeps
  <2>3. e = r.key /\ e \in DOMAIN events => Writes
    BY <1>0, <1>9, <2>1, CommittedResponds
    DEF UpdateEventCommit, At, VenueOps, EventWritten, RowIsThere, Deletions
  <2> QED
    BY <2>1, <2>2, <2>3 DEF WritesEvents
<1>10. CASE DeleteEventCommit(w) \/ (DeleteVoteCommit(w) /\ ~ Rollback(w))
  <2>1. Committed(w, r.key) /\ now' = now
    BY <1>10 DEF DeleteEventCommit, DeleteVoteCommit
  <2>2. Writes
    BY <1>0, <1>10, <2>1, CommittedResponds
    DEF DeleteEventCommit, DeleteVoteCommit, At, VenueOps, EventWritten,
        RowIsThere, Deletions
  <2> QED
    BY <2>1, <2>2 DEF WritesEvents
<1>11. CASE CastVoteCommit(w) /\ ~ Rollback(w)
  <2>1. PICK v \in VoteIds :
            /\ votes' = Insert(votes, v, [event |-> r.key, customer |-> r.user,
                                          status |-> "ballot_open"])
            /\ events' = [events EXCEPT ![r.key].vote_count = r.count + 1]
            /\ Committed(w, v) /\ now' = now
    BY <1>11 DEF CastVoteCommit
  <2>2. e # r.key => Keeps(e)
    BY <2>1 DEF Keeps
  <2>3. v \in DOMAIN votes' /\ votes'[v].event = r.key
    BY <2>1 DEF Insert
  <2>4. e = r.key => Writes
    BY <1>0, <1>11, <2>1, <2>3, CommittedResponds
    DEF CastVoteCommit, At, VenueOps, EventWritten, RowIsThere, Deletions
  <2> QED
    BY <2>1, <2>2, <2>4 DEF WritesEvents
<1> QED
  BY <1>2, <1>3, <1>4, <1>5, <1>6, <1>7, <1>8, <1>9, <1>10, <1>11, WhoWrites
  DEF UpdateVenueCommit, WritesEvents

(* A write that is about to be answered still shows its row, unless the    *)
(* row is gone; then a write to the venue has deleted it with its event,   *)
(* or who deleted the row is about to purge.                               *)
LEMMA PendingWritesStay ==
    ASSUME IInv, NEW w \in Workers, Receive(w) \/ Execute(w),
           NEW u \in Workers, NEW e, EventWritten(u, e)
    PROVE  e \in ChangedWithVenue(w) \/ \E x \in Workers : EventWritten(x, e)'
<1>0. TypeOK /\ req[w] \in Request /\ req[u] \in Request
  BY DEF IInv, TypeOK
<1>1. req[w].step # "respond"
  BY DEF Receive, CreateVenue, UpdateVenue, DeleteVenue, CreateEvent,
         UpdateEventStatus, UpdateEvent, UpdateEventAwareDate, DeleteEvent,
         CastVote, DeleteVote, Accepts, Execute, CreateVenueCommit,
         UpdateVenueLoadEvents, UpdateVenueCommit, DeleteVenueCommit,
         CreateEventCommit, UpdateEventStatusLoadVenue, UpdateEventStatusCommit,
         UpdateEventLoadVenue, UpdateEventCommit, DeleteEventCommit, LoadVotes,
         CastVoteLoadExisting, CastVoteCommit, DeleteVoteLoadEvent,
         DeleteVoteCommit, At, Outcomes
<1>2. req'[u] = req[u]
  BY <1>1, OthersStay DEF EventWritten
<1> DEFINE Goal == \/ e \in ChangedWithVenue(w)
                   \/ \E x \in Workers : EventWritten(x, e)'
<1>d. ASSUME DeleteEventCommit(w) \/ DeleteVoteCommit(w), ~ Rollback(w) PROVE Goal
  <2>1. req'[w].step = "respond" /\ req'[w].op \in {"delete_event", "delete_vote"}
    BY <1>0, <1>d, CommittedResponds DEF DeleteEventCommit, DeleteVoteCommit, At
  <2> QED
    BY <2>1 DEF EventWritten, RowIsThere, Deletions, VenueOps
<1>3. CASE req[u].op \in Deletions
  BY <1>2, <1>3 DEF EventWritten, RowIsThere
<1>4. CASE req[u].op \notin Deletions /\ req[u].op # "cast_vote"
  <2>1. /\ req[u].op \in {"create_event", "update_event", "update_event_status"}
        /\ req[u].key = e
    BY <1>4 DEF EventWritten, RowIsThere, VenueOps
  <2>2. e \in DOMAIN events
    BY <1>4, <2>1 DEF EventWritten, RowIsThere
  <2>3. CASE e \in DOMAIN events'
    BY <1>2, <1>4, <2>1, <2>3 DEF EventWritten, RowIsThere
  <2>4. CASE UNCHANGED tables \/ Rollback(w) \/ CreateVenueCommit(w)
             \/ UpdateVenueCommit(w) \/ CreateEventCommit(w)
             \/ UpdateEventStatusCommit(w) \/ UpdateEventCommit(w)
             \/ CastVoteCommit(w) \/ DeleteVoteCommit(w)
    <3>1. e \in DOMAIN events'
      BY <1>0, <2>2, <2>4
      DEF tables, Rollback, Read, CreateVenueCommit, UpdateVenueCommit,
          CreateEventCommit, UpdateEventStatusCommit, UpdateEventCommit,
          CastVoteCommit, DeleteVoteCommit, SetStatus, Insert, TypeOK, IsTable
    <3> QED
      BY <2>3, <3>1
  <2>5. CASE DeleteVenueCommit(w)
    <3>1. e \in DOMAIN events' \/ e \in ChangedWithVenue(w)
      BY <2>2, <2>5 DEF DeleteVenueCommit, At, ChangedWithVenue, VenueOps
    <3> QED
      BY <2>3, <3>1
  <2>6. CASE DeleteEventCommit(w) /\ ~ Rollback(w)
    BY <1>d, <2>6
  <2> QED
    BY <2>4, <2>5, <2>6, WhoWrites
<1>5. CASE req[u].op = "cast_vote"
  <2> DEFINE v == req[u].key
  <2>1. v \in DOMAIN votes /\ votes[v].event = e
    BY <1>5 DEF EventWritten, RowIsThere, Deletions
  <2>2. CASE v \in DOMAIN votes' /\ votes'[v].event = votes[v].event
    BY <1>2, <1>5, <2>1, <2>2 DEF EventWritten, RowIsThere, VenueOps
  <2>3. CASE UNCHANGED tables \/ Rollback(w)
    BY <2>1, <2>2, <2>3 DEF tables, Rollback, Read
  <2>4. CASE CreateVenueCommit(w) \/ CreateEventCommit(w) \/ UpdateEventCommit(w)
    BY <2>1, <2>2, <2>3, <2>4
    DEF CreateVenueCommit, CreateEventCommit, UpdateEventCommit
  <2>5. CASE UpdateVenueCommit(w) \/ UpdateEventStatusCommit(w)
    BY <1>0, <2>1, <2>2, <2>3, <2>5, CloseBallotsKeepsVotes
    DEF UpdateVenueCommit, UpdateEventStatusCommit
  <2>6. CASE DeleteVenueCommit(w)
    <3>1. /\ events' = Delete(events, EventsAt(req[w].key))
          /\ votes' = Delete(votes, {x \in DOMAIN votes :
                                        votes[x].event \in EventsAt(req[w].key)})
          /\ req[w].op = "delete_venue"
      BY <2>6 DEF DeleteVenueCommit, DropEvents, At
    <3>2. e \in EventsAt(req[w].key) => e \in ChangedWithVenue(w)
      BY <3>1 DEF ChangedWithVenue, VenueOps, EventsAt, Delete, Restrict
    <3> QED
      BY <2>1, <2>2, <3>1, <3>2 DEF Delete, Restrict
  <2>7. CASE (DeleteEventCommit(w) \/ DeleteVoteCommit(w)) /\ ~ Rollback(w)
    BY <1>d, <2>7
  <2>8. CASE CastVoteCommit(w) /\ ~ Rollback(w)
    <3>1. PICK x \in VoteIds : \E row :
              IsNextId(votes, x) /\ votes' = Insert(votes, x, row)
      BY <2>8 DEF CastVoteCommit
    <3>2. x \notin DOMAIN votes
      BY <1>0, <3>1, NextIdIsFree, BoundsAreNaturals DEF TypeOK, IsTable, VoteIds
    <3> QED
      BY <2>1, <2>2, <3>1, <3>2 DEF Insert
  <2> QED
    BY <2>3, <2>4, <2>5, <2>6, <2>7, <2>8, WhoWrites
<1> QED
  BY <1>3, <1>4, <1>5


(* The answer to a write of the event and vote endpoints purges the keys   *)
(* of events, unless its row is gone.                                      *)
LEMMA RespondingPurgesEvents ==
    ASSUME CInv, EventCacheFollows, NEW w \in Workers, RespondAndInvalidate(w)
    PROVE  EventCacheFollows'
<1>1. /\ reads' = reads
      /\ UNCHANGED <<venues, events, votes, now>>
      /\ \E S : cache' = Delete(cache, S) \/ cache' = cache
  BY DEF RespondAndInvalidate, Invalidate, Respond, Refresh, LoadTitle, Read
<1>2. \A u \in Workers : u # w => req'[u] = req[u]
  BY OthersStay DEF RespondAndInvalidate, CInv
<1>3. /\ \A k, p : Cached(k, p)' => Cached(k, p) /\ k \in Key
      /\ \A u \in Workers : \A k, p : Selected(u, k, p)' => Selected(u, k, p) /\ k \in Key
  BY <1>1, PurgingOnlyRemoves, KeysAreKeys
<1>4. ASSUME NEW k \in Key, NEW p, NEW e, k.view \in EventViews, EventAgreesAt(k, p, e)
      PROVE  EventAgreesAt(k, p, e)'
  BY <1>1, <1>4, KeepingAgrees DEF CInv, Keeps
<1>5. ASSUME NEW k, NEW p, NEW e, k.view \in EventViews, Cached(k, p)'
      PROVE  EventAgreesAt(k, p, e)' \/ e \in missed'
             \/ \E x \in Workers : EventWritten(x, e)'
  <2>0. cache' = Delete(cache, WithPrefix("event")) => FALSE
    <3> HAVE cache' = Delete(cache, WithPrefix("event"))
    <3>1. k \notin WithPrefix("event") /\ k \in DOMAIN cache
      BY <1>5 DEF Cached, Delete, Restrict
    <3> QED
      BY <1>5, <3>1 DEF WithPrefix
  <2>1. CASE EventAgreesAt(k, p, e)
    BY <1>3, <1>4, <1>5, <2>1
  <2>2. ASSUME NEW u \in Workers, EventWritten(u, e), u # w
        PROVE  EventWritten(u, e)'
    <3>1. req'[u] = req[u]
      BY <1>2, <2>2
    <3> QED
      BY <1>1, <2>2, <3>1 DEF EventWritten, RowIsThere
  <2>3. ~ EventWritten(w, e)
    <3> SUFFICES ASSUME EventWritten(w, e) PROVE FALSE
      OBVIOUS
    <3>1. cache' = Delete(cache, WithPrefix("event"))
      BY DEF EventWritten, RespondAndInvalidate, Invalidate, Prefix
    <3> QED
      BY <2>0, <3>1
  <2>4. missed' = missed
    BY <2>0 DEF RespondAndInvalidate, Invalidate, Prefix
  <2> QED
    BY <1>3, <1>5, <2>1, <2>2, <2>3, <2>4 DEF EventCacheFollows
<1>6. ASSUME NEW u \in Workers, NEW k, NEW p, NEW e, k.view \in EventViews,
             Selected(u, k, p)'
      PROVE  EventAgreesAt(k, p, e)'
  BY <1>3, <1>4, <1>6 DEF EventCacheFollows
<1> QED
  BY <1>5, <1>6 DEF EventCacheFollows

(* An endpoint that accepts a request changes no event yet.                *)
LEMMA ReceivingChangesNothing ==
    ASSUME NEW w \in Workers, Receive(w)
    PROVE  ChangedWithVenue(w) = {}
<1>1. events' = events
  BY DEF Receive, CreateVenue, UpdateVenue, DeleteVenue, CreateEvent,
         UpdateEventStatus, UpdateEvent, UpdateEventAwareDate, DeleteEvent,
         CastVote, DeleteVote, Rollback, Read
<1> QED
  BY <1>1 DEF ChangedWithVenue

LEMMA NextEventCache ==
    ASSUME ~ LockTimeouts, CInv, OwnDecisions, EventCacheFollows, EventReadsApart,
           [CachedNext]_cachedVars
    PROVE  EventCacheFollows'
<1>0. /\ \A k, p : Cached(k, p) => k \in Key
      /\ \A w \in Workers : \A k, p : Selected(w, k, p) => k \in Key
  BY KeysAreKeys
<1>1. ASSUME UNCHANGED <<venues, events, votes, req>>, now' = now \/ now' = now + 1
      PROVE  /\ \A k \in Key : \A p, e :
                    k.view \in EventViews /\ EventAgreesAt(k, p, e)
                    => EventAgreesAt(k, p, e)'
             /\ \A w \in Workers : \A e : EventWritten(w, e) => EventWritten(w, e)'
  BY <1>1, KeepingAgrees DEF CInv, Keeps, EventWritten, RowIsThere
<1>2. ASSUME NEW w \in Workers, ReadStep(w) PROVE EventCacheFollows'
  <2>1. UNCHANGED <<venues, events, votes, req, now>> /\ missed' = missed
    BY <1>2, ReadMoves DEF vars, ReadStep, Miss, Select, Fill
  <2>2. ASSUME NEW k, NEW p, NEW e, k.view \in EventViews, Cached(k, p)'
        PROVE  EventAgreesAt(k, p, e)' \/ e \in missed'
               \/ \E x \in Workers : EventWritten(x, e)'
    <3>1. Cached(k, p) \/ Selected(w, k, p)
      BY <1>2, <2>2, ReadMoves
    <3>2. /\ k \in Key
          /\ \/ EventAgreesAt(k, p, e)
             \/ e \in missed
             \/ \E x \in Workers : EventWritten(x, e)
      BY <1>0, <2>2, <3>1 DEF EventCacheFollows
    <3> QED
      BY <1>1, <2>1, <2>2, <3>2
  <2>3. ASSUME NEW u \in Workers, NEW k, NEW p, NEW e, k.view \in EventViews,
               Selected(u, k, p)'
        PROVE  EventAgreesAt(k, p, e)'
    <3>1. Selected(u, k, p) \/ (k \in Key /\ p = Query(k))
      BY <1>2, <2>3, ReadMoves
    <3>2. k \in Key /\ EventAgreesAt(k, p, e)
      BY <1>0, <2>3, <3>1, QueryAgrees DEF EventCacheFollows
    <3> QED
      BY <1>1, <2>1, <2>3, <3>2
  <2> QED
    BY <2>2, <2>3 DEF EventCacheFollows
<1>3. ASSUME NEW w \in Workers, UNCHANGED <<cache, reads>>,
             \/ Receive(w) /\ missed' = missed
             \/ Execute(w) /\ missed' = missed \cup ChangedWithVenue(w)
      PROVE  EventCacheFollows'
  <2>0. missed \subseteq missed' /\ ChangedWithVenue(w) \subseteq missed'
    BY <1>3, ReceivingChangesNothing
  <2>1. /\ \A k, p : Cached(k, p)' => Cached(k, p)
        /\ \A u \in Workers : \A k, p : Selected(u, k, p)' => Selected(u, k, p)
    BY <1>3 DEF Cached, Selected
  <2>2. \A e : /\ now' = now
               /\ \/ Keeps(e)
                  \/ /\ req[w].step = "commit" /\ WritesEvents(req[w])
                     /\ EventWritten(w, e)' \/ e \in ChangedWithVenue(w)
    BY <1>3, WritesToEvents DEF CInv
  <2>3. ASSUME NEW k, NEW p, NEW e, k.view \in EventViews, Cached(k, p)'
        PROVE  EventAgreesAt(k, p, e)' \/ e \in missed'
               \/ \E x \in Workers : EventWritten(x, e)'
    <3>1. k \in Key
      BY <1>0, <2>1, <2>3
    <3>2. CASE EventAgreesAt(k, p, e)
      BY <2>0, <2>2, <2>3, <3>1, <3>2, KeepingAgrees DEF CInv
    <3>3. ASSUME NEW u \in Workers, EventWritten(u, e)
          PROVE  EventAgreesAt(k, p, e)' \/ e \in missed'
               \/ \E x \in Workers : EventWritten(x, e)'
      <4>1. e \in ChangedWithVenue(w) \/ \E x \in Workers : EventWritten(x, e)'
        BY <1>3, <3>3, PendingWritesStay DEF CInv
      <4> QED
        BY <2>0, <4>1
    <3> QED
      BY <2>0, <2>1, <2>3, <3>2, <3>3 DEF EventCacheFollows
  <2>4. ASSUME NEW u \in Workers, NEW k, NEW p, NEW e, k.view \in EventViews,
               Selected(u, k, p)'
        PROVE  EventAgreesAt(k, p, e)'
    <3>1. Selected(u, k, p) /\ k \in Key /\ EventAgreesAt(k, p, e)
      BY <1>0, <2>1, <2>4 DEF EventCacheFollows
    <3>2. ~ (req[w].step = "commit" /\ WritesEvents(req[w]))
      BY <2>4, <3>1 DEF EventReadsApart, Selected
    <3> QED
      BY <2>2, <2>4, <3>1, <3>2, KeepingAgrees DEF CInv
  <2> QED
    BY <2>3, <2>4 DEF EventCacheFollows
<1>4. ASSUME NEW w \in Workers, CachedReceive(w) \/ CachedExecute(w)
      PROVE  EventCacheFollows'
  <2>1. CASE CachedReceive(w)
    BY <1>3, <2>1 DEF CachedReceive
  <2>2. CASE CachedExecute(w)
    BY <1>3, <2>2 DEF CachedExecute, DatabaseLocked
  <2> QED
    BY <1>4, <2>1, <2>2
<1>5. ASSUME NEW w \in Workers, RespondAndInvalidate(w) PROVE EventCacheFollows'
  BY <1>5, RespondingPurgesEvents
<1>6. CASE CachedRestart
  BY <1>6 DEF CachedRestart, EventCacheFollows, Cached, Selected, NotReading
<1>7. CASE (\E k \in Key : Expire(k)) \/ CachedTick \/ UNCHANGED cachedVars
  <2>1. /\ UNCHANGED <<venues, events, votes, req, reads, missed>>
        /\ now' = now \/ now' = now + 1
        /\ \E S : cache' = Delete(cache, S) \/ cache' = cache
    BY <1>7 DEF Expire, CachedTick, Tick, cachedVars, vars
  <2>2. /\ \A k, p : Cached(k, p)' => Cached(k, p)
        /\ \A u \in Workers : \A k, p : Selected(u, k, p)' => Selected(u, k, p)
    BY <2>1, PurgingOnlyRemoves
  <2> QED
    BY <1>0, <1>1, <2>1, <2>2 DEF EventCacheFollows
<1> QED
  BY <1>2, <1>4, <1>5, <1>6, <1>7 DEF CachedNext

(* Once all writes have been answered the cached payloads of the event     *)
(* endpoints miss nothing but what writes to venues have done to events    *)
(* since the last purge and what the clock does, however many writes       *)
(* overlap, as long as no write to events commits between the query of     *)
(* such a read and its cache_set: invalidate("event") is called by every   *)
(* endpoint of router/event.py and router/vote.py that changes one.        *)
THEOREM EventCacheIfReadsApart ==
    ASSUME ~ LockTimeouts
    PROVE  CachedSpec => ([]EventReadsApart => []OnlyVenueWritesMissed)
<1>1. CachedInit => EventCacheFollows
  BY DEF CachedInit, EventCacheFollows, Cached, Selected, NotReading
<1>2. /\ CInv /\ OwnDecisions /\ EventCacheFollows /\ EventReadsApart
      /\ [CachedNext]_cachedVars
      => EventCacheFollows'
  BY NextEventCache
<1>3. EventCacheFollows => OnlyVenueWritesMissed
  <2> SUFFICES ASSUME EventCacheFollows, ~ InvalidationPending, NEW k \in DOMAIN cache,
                      k.view \in EventViews,
                      NEW e \in (DOMAIN cache[k] \cup DOMAIN Query(k)) \ missed
               PROVE  \/ /\ e \in DOMAIN cache[k] \cap DOMAIN Query(k)
                         /\ cache[k][e] = Query(k)[e]
                      \/ /\ e \in DOMAIN cache[k] \cap DOMAIN events
                         /\ cache[k][e] = events[e]
                         /\ events[e].date < now
    BY DEF OnlyVenueWritesMissed
  <2>1. EventAgreesAt(k, cache[k], e)
    BY DEF EventCacheFollows, Cached, InvalidationPending, EventWritten
  <2> QED
    BY <2>1 DEF EventAgreesAt
<1> QED
  BY <1>1, <1>2, <1>3, CachedInvariance, DecisionsAreOwn, PTL DEF CachedSpec

-----------------------------------------------------------------------------
(* One worker                                                              *)

(* A worker that reads does not write meanwhile.                           *)
LEMMA OneWorkerReadsApart ==
    ASSUME OneWorker
    PROVE  CInv => VenueReadsApart /\ EventReadsApart
  BY DEF OneWorker, CInv, ReadsOK, Outcomes, VenueReadsApart, EventReadsApart

(* One request at a time, no cached payload of get_venue and get_all_venues*)
(* is stale once the write has been answered.                              *)
THEOREM SerialVenueCache ==
    ASSUME OneWorker, ~ LockTimeouts PROVE CachedSpec => []VenueCacheFresh
  BY OneWorkerReadsApart, VenueCacheIfReadsApart, CachedInvariance, PTL

(* One request at a time, the cached payloads of the event endpoints miss  *)
(* nothing but what writes to venues and the clock do.                     *)
THEOREM SerialEventCache ==
    ASSUME OneWorker, ~ LockTimeouts PROVE CachedSpec => []OnlyVenueWritesMissed
  BY OneWorkerReadsApart, EventCacheIfReadsApart, CachedInvariance, PTL
=============================================================================
