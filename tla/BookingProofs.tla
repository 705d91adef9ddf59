--------------------------- MODULE BookingProofs ---------------------------
(***************************************************************************)
(* What Booking guarantees for any number of workers, customers, managers, *)
(* rows and clock ticks, whatever requests overlap: the types of the       *)
(* tables and requests, the foreign keys, and that no decision and no      *)
(* ballot is ever reopened.                                                *)
(*                                                                         *)
(* The other guarantees are broken by overlaps.  For each of them the last *)
(* six sections name the overlap that breaks it (VotersApart,              *)
(* DecisionsApart, CountersApart, BallotsApart, EditsApart, ClosingsApart) *)
(* and prove that it holds as long as this overlap does not occur,         *)
(* whatever else overlaps.                                                 *)
(***************************************************************************)
EXTENDS Booking, FiniteSetTheorems, TLAPS

(***************************************************************************)
(* The strengthening: what a request in flight carries from the endpoint   *)
(* that accepted it to its commit.  TypeOK alone allows, say, a worker     *)
(* about to commit a decision whose target status is "pending".            *)
(***************************************************************************)
PayloadOK(r) ==
    r.step \notin Outcomes \cup {"respond", "title"} =>
        /\ r.op = "create_venue" => r.user \in Managers /\ r.status \in VenueStatus
        /\ r.op = "update_venue" => r.status \in VenueStatus \cup {None}
        /\ r.op = "create_event" => /\ r.user \in Customers
                                    /\ r.venue \in VenueIds
                                    /\ r.date \in Dates
                                    /\ r.status \in EventStatus
        /\ r.op = "update_event_status" => /\ r.key \in EventIds
                                           /\ r.status \in {"approved", "rejected"}
        /\ r.op = "cast_vote" => r.user \in Customers

Payloads == \A w \in Workers : PayloadOK(req[w])

IInv == TypeOK /\ Payloads /\ ReferentialIntegrity

(* What is stored behind BallotsFollowStatus, which shows it through the   *)
(* clock: a ballot is open exactly while its event is pending.             *)
StoredBallots ==
    \A v \in DOMAIN votes :
        votes[v].status = "ballot_open" <=> events[votes[v].event].status = "pending"

LEMMA StoredBallotsShow == IInv /\ StoredBallots => BallotsFollowStatus
<1> SUFFICES ASSUME IInv, StoredBallots, NEW v \in DOMAIN votes
             PROVE  LET e == events[votes[v].event]
                    IN  /\ StoredStatus(v) = "ballot_open" => e.status = "pending"
                        /\ EffectiveStatus(v) = "ballot_open"
                                <=> e.status = "pending" /\ e.date >= now
  BY DEF BallotsFollowStatus
<1> DEFINE e == events[votes[v].event]
<1>1. e.date \in Int /\ now \in Int
  BY BoundsAreNaturals
     DEF IInv, ReferentialIntegrity, TypeOK, IsTable, Event, Dates
<1>2. e.date >= now <=> ~ (e.date < now)
  BY <1>1
<1>3. votes[v].status = "ballot_open" <=> e.status = "pending"
  BY DEF StoredBallots
<1> QED
  BY <1>2, <1>3 DEF StoredStatus, EffectiveStatus

-----------------------------------------------------------------------------
(* Lemmas about the store                                                  *)

(* Closing ballots and setting statuses touch no other column and no other *)
(* row, and add and remove none.                                           *)
LEMMA CloseBallotsKeepsVotes ==
    ASSUME TypeOK, NEW vs
    PROVE  /\ IsTable(CloseBallots(vs), VoteIds, Vote)
           /\ DOMAIN CloseBallots(vs) = DOMAIN votes
           /\ \A v \in DOMAIN votes : CloseBallots(vs)[v].event = votes[v].event
  BY DEF TypeOK, IsTable, CloseBallots, Vote, VoteStatus

LEMMA SetStatusKeepsEvents ==
    ASSUME TypeOK, NEW es, NEW s \in EventStatus
    PROVE  /\ IsTable(SetStatus(es, s), EventIds, Event)
           /\ DOMAIN SetStatus(es, s) = DOMAIN events
           /\ \A e \in DOMAIN events : SetStatus(es, s)[e].venue = events[e].venue
  BY DEF TypeOK, IsTable, SetStatus, Event

(* Deleting events leaves no vote without its event.                       *)
LEMMA DropEventsKeepsTables ==
    ASSUME IInv, NEW es, NEW vs, DropEvents(es, vs)
    PROVE  /\ IsTable(events', EventIds, Event)
           /\ IsTable(votes', VoteIds, Vote)
           /\ DOMAIN events' = DOMAIN events \ es
           /\ \A e \in DOMAIN events' : events'[e] = events[e]
           /\ \A v \in DOMAIN votes' : votes'[v].event \in DOMAIN events'
<1> DEFINE gone == vs \cup {v \in DOMAIN votes : votes[v].event \in es}
<1>1. events' = Delete(events, es) /\ votes' = Delete(votes, gone)
  BY DEF DropEvents
<1>2. IsTable(events, EventIds, Event) /\ IsTable(votes, VoteIds, Vote)
  BY DEF IInv, TypeOK
<1> QED
  BY <1>1, <1>2 DEF IInv, ReferentialIntegrity, IsTable, Delete, Restrict

(* The id of a new row is not in use.                                      *)
LEMMA NextIdIsFree ==
    ASSUME NEW ids \in SUBSET Int, NEW t, DOMAIN t \subseteq ids,
           NEW id \in ids, IsNextId(t, id)
    PROVE  id \notin DOMAIN t
  BY DEF IsNextId

(* An event has finitely many votes.                                       *)
LEMMA VotesAreFinite ==
    ASSUME TypeOK, NEW e
    PROVE  /\ IsFiniteSet(VotesOf(e))
           /\ Cardinality(VotesOf(e)) \in Nat
<1>1. IsFiniteSet(VoteIds)
  BY BoundsAreNaturals, FS_Interval DEF VoteIds
<1>2. VotesOf(e) \subseteq VoteIds
  BY DEF TypeOK, IsTable, VotesOf
<1> QED
  BY <1>1, <1>2, FS_Subset, FS_CardinalityType

-----------------------------------------------------------------------------
(* Lemmas about requests                                                   *)

(* A new request is a request, and so is one with other field values.      *)
LEMMA NewIsRequest ==
    ASSUME NEW step \in Steps, NEW op \in OpNames \cup {None},
           NEW u \in Users \cup {None}, NEW k \in Nat
    PROVE  NewRequest(step, op, u, k) \in Request
<1>1. 0 \in Counts
  BY BoundsAreNaturals DEF Counts
<1> QED
  BY <1>1 DEF NewRequest, Request

LEMMA EditIsRequest ==
    ASSUME NEW r \in Request
    PROVE  /\ \A x \in Steps : [r EXCEPT !.step = x] \in Request
           /\ \A x \in VenueIds \cup {None} : [r EXCEPT !.venue = x] \in Request
           /\ \A x \in Dates \cup {None} : [r EXCEPT !.date = x] \in Request
           /\ \A x \in VenueStatus \cup EventStatus \cup {None} :
                [r EXCEPT !.status = x] \in Request
           /\ \A x \in Nat : [r EXCEPT !.ref = x] \in Request
           /\ \A x \in Counts : [r EXCEPT !.count = x] \in Request
           /\ \A x \in SUBSET EventIds : [r EXCEPT !.evs = x] \in Request
           /\ \A x \in SUBSET VoteIds : [r EXCEPT !.vts = x] \in Request
           /\ \A x \in SUBSET EventIds : [r EXCEPT !.todo = x] \in Request
  BY DEF Request

LEMMA FreeIsRequest ==
    ASSUME NEW o \in Outcomes
    PROVE  Free(o) \in Request /\ PayloadOK(Free(o))
  BY NewIsRequest DEF Free, NewRequest, PayloadOK, Steps

LEMMA CallIsRequest ==
    ASSUME NEW op \in OpNames, NEW u \in Users \cup {None}, NEW k \in Nat
    PROVE  Call(op, u, k) \in Request
  BY NewIsRequest DEF Call, Steps

(* A step of worker w that leaves it with a proper request keeps what the  *)
(* invariant says about requests.                                          *)
LEMMA BecomesKeepsRequests ==
    ASSUME NEW w \in Workers, NEW r \in Request, PayloadOK(r),
           req \in [Workers -> Request], Payloads, Becomes(w, r)
    PROVE  req' \in [Workers -> Request] /\ Payloads'
  BY DEF Becomes, Payloads

(* What a request does once its transaction has committed: it reads, and   *)
(* either ends or, for cast_vote, goes on to the title.                    *)
LEMMA AnswerSteps ==
    ASSUME NEW w \in Workers, Respond(w)
    PROVE  /\ Read
           /\ \/ Becomes(w, Free("ok"))
              \/ Becomes(w, Free("error"))
              \/ Becomes(w, [req[w] EXCEPT !.step = "title"])
<1>1. CASE Refresh(w)
  BY <1>1 DEF Refresh
<1>2. CASE LoadTitle(w)
  BY <1>2 DEF LoadTitle
<1> QED
  BY <1>1, <1>2 DEF Respond

(* A step that only reads the database keeps the invariant if it leaves    *)
(* the worker with a proper request.                                       *)
LEMMA ReadKeepsInv ==
    ASSUME IInv, NEW w \in Workers, NEW r \in Request, PayloadOK(r),
           Becomes(w, r), Read
    PROVE  IInv'
<1>1. req' \in [Workers -> Request] /\ Payloads'
  BY BecomesKeepsRequests DEF IInv, TypeOK
<1> QED
  BY <1>1 DEF IInv, TypeOK, Read, ReferentialIntegrity

LEMMA RefuseKeepsInv ==
    ASSUME IInv, NEW w \in Workers, Refuse(w), Read
    PROVE  IInv'
  BY FreeIsRequest, ReadKeepsInv DEF Refuse, Outcomes

LEMMA RollbackKeepsInv ==
    ASSUME IInv, NEW w \in Workers, Rollback(w)
    PROVE  IInv'
  BY FreeIsRequest, ReadKeepsInv DEF Rollback, Outcomes

(* A committed transaction keeps the invariant if it keeps the tables well *)
(* typed and the foreign keys intact.                                      *)
LEMMA CommitKeepsInv ==
    ASSUME IInv, NEW w \in Workers, NEW k \in Nat, Committed(w, k), now' = now,
           IsTable(venues', VenueIds, Venue),
           IsTable(events', EventIds, Event),
           IsTable(votes', VoteIds, Vote),
           ReferentialIntegrity'
    PROVE  IInv'
<1> DEFINE n == NewRequest("respond", req[w].op, None, k)
           r == [n EXCEPT !.ref = req[w].key]
<1>1. n \in Request /\ req[w].key \in Nat /\ n.step = "respond"
  BY NewIsRequest DEF IInv, TypeOK, Request, Steps, NewRequest
<1> HIDE DEF n
<1>4. r \in Request
  BY <1>1, EditIsRequest
<1>2. PayloadOK(r)
  BY <1>1 DEF PayloadOK, Request
<1>3. req' \in [Workers -> Request] /\ Payloads'
  BY <1>2, <1>4, BecomesKeepsRequests DEF IInv, TypeOK, Committed, n
<1> QED
  BY <1>3 DEF IInv, TypeOK

-----------------------------------------------------------------------------
(* The endpoints of router/venue.py keep the invariant.                    *)

LEMMA VenueEndpointsKeepInv ==
    ASSUME IInv, NEW w \in Workers
    PROVE  /\ CreateVenue(w) => IInv'
           /\ CreateVenueCommit(w) => IInv'
           /\ UpdateVenue(w) => IInv'
           /\ UpdateVenueLoadEvents(w) => IInv'
           /\ UpdateVenueCommit(w) => IInv'
           /\ DeleteVenue(w) => IInv'
           /\ DeleteVenueCommit(w) => IInv'
<1> USE DEF IInv
<1>1. ASSUME CreateVenue(w) PROVE IInv'
  <2>1. PICK m \in Managers, s \in VenueInputs :
            Becomes(w, [Call("create_venue", m, 0) EXCEPT !.status = s])
    BY <1>1 DEF CreateVenue
  <2> DEFINE r == [Call("create_venue", m, 0) EXCEPT !.status = s]
  <2>2. s \in VenueStatus
    BY RequestsAssumption
  <2>3. r \in Request
    BY <2>2, CallIsRequest, EditIsRequest DEF OpNames, Users
  <2>4. PayloadOK(r)
    BY <2>2 DEF PayloadOK, Call, NewRequest
  <2> QED
    BY <1>1, <2>1, <2>3, <2>4, ReadKeepsInv DEF CreateVenue
<1>2. ASSUME CreateVenueCommit(w) PROVE IInv'
  <2>1. PICK v \in VenueIds :
            /\ venues' = Insert(venues, v, [manager |-> req[w].user,
                                            status |-> req[w].status])
            /\ Committed(w, v)
    BY <1>2 DEF CreateVenueCommit
  <2>2. [manager |-> req[w].user, status |-> req[w].status] \in Venue
    BY <1>2 DEF CreateVenueCommit, At, Payloads, PayloadOK, Outcomes, Venue
  <2>3. IsTable(venues, VenueIds, Venue)
    BY DEF IInv, TypeOK
  <2>4. IsTable(venues', VenueIds, Venue) /\ DOMAIN venues' = DOMAIN venues \cup {v}
    BY <2>1, <2>2, <2>3 DEF IsTable, Insert
  <2>5. UNCHANGED <<events, votes, now>>
    BY <1>2 DEF CreateVenueCommit
  <2>6. ReferentialIntegrity'
    BY <2>4, <2>5 DEF ReferentialIntegrity
  <2>7. v \in Nat
    BY DEF VenueIds
  <2> QED
    BY <2>1, <2>4, <2>5, <2>6, <2>7, CommitKeepsInv DEF TypeOK
<1>3. ASSUME UpdateVenue(w) PROVE IInv'
  <2>1. PICK m \in Managers, v \in VenueIds, s \in VenueInputs \cup {None} :
            IF v \notin DOMAIN venues \/ venues[v].manager # m
            THEN Refuse(w)
            ELSE LET new == IF s = None THEN venues[v].status ELSE s
                 IN Becomes(w, [Call("update_venue", m, v) EXCEPT
                        !.status = IF new = venues[v].status THEN None ELSE new,
                        !.step = IF new = "closed" THEN "load_events" ELSE "commit"])
    BY <1>3 DEF UpdateVenue
  <2>2. CASE v \notin DOMAIN venues \/ venues[v].manager # m
    BY <1>3, <2>1, <2>2, RefuseKeepsInv DEF UpdateVenue
  <2>3. CASE ~ (v \notin DOMAIN venues \/ venues[v].manager # m)
    <3> DEFINE new == IF s = None THEN venues[v].status ELSE s
               st == IF new = venues[v].status THEN None ELSE new
               sp == IF new = "closed" THEN "load_events" ELSE "commit"
               r == [Call("update_venue", m, v) EXCEPT !.status = st, !.step = sp]
    <3>1. st \in VenueStatus \cup {None} /\ sp \in Steps
      BY <2>3, RequestsAssumption DEF TypeOK, IsTable, Venue, Steps
    <3>2. r \in Request
      <4>1. Call("update_venue", m, v) \in Request
        BY CallIsRequest DEF OpNames, Users, VenueIds
      <4> QED
        BY <3>1, <4>1 DEF Request
    <3>3. PayloadOK(r)
      BY <3>1 DEF PayloadOK, Call, NewRequest
    <3> QED
      BY <1>3, <2>1, <2>3, <3>2, <3>3, ReadKeepsInv DEF UpdateVenue
  <2> QED
    BY <2>2, <2>3
<1>4. ASSUME UpdateVenueLoadEvents(w) PROVE IInv'
  <2> DEFINE es == EventsAt(req[w].key)
             chg == {e \in es : events[e].status # "rejected"}
             sp == IF es = {} THEN "commit" ELSE "load_votes"
             r == [req[w] EXCEPT !.evs = chg, !.todo = es, !.step = sp]
  <2>1. es \in SUBSET EventIds /\ chg \in SUBSET EventIds /\ sp \in Steps
    BY DEF TypeOK, IsTable, EventsAt, Steps
  <2>2. req[w] \in Request
    BY DEF TypeOK
  <2>3. r \in Request
    BY <2>1, <2>2, EditIsRequest
  <2>4. PayloadOK(req[w]) /\ req[w].step = "load_events"
    BY <1>4 DEF UpdateVenueLoadEvents, At, Payloads
  <2>5. PayloadOK(r)
    BY <2>2, <2>4 DEF PayloadOK, Request, Outcomes
  <2> QED
    BY <1>4, <2>3, <2>5, ReadKeepsInv DEF UpdateVenueLoadEvents
<1>5. ASSUME UpdateVenueCommit(w) PROVE IInv'
  <2> DEFINE r == req[w]
  <2>1. CASE Rollback(w)
    BY <2>1, RollbackKeepsInv
  <2>2. CASE ~ Rollback(w)
    <3>1. /\ r.status # None => r.key \in DOMAIN venues
          /\ venues' = IF r.status = None THEN venues
                       ELSE [venues EXCEPT ![r.key].status = r.status]
          /\ events' = SetStatus(r.evs, "rejected")
          /\ votes' = CloseBallots(r.vts)
          /\ Committed(w, r.key)
          /\ UNCHANGED now
      BY <1>5, <2>2 DEF UpdateVenueCommit
    <3>2. r.status \in VenueStatus \cup {None} /\ r.key \in Nat
      BY <1>5 DEF UpdateVenueCommit, At, Payloads, PayloadOK, Outcomes, TypeOK, Request
    <3>3. IsTable(venues', VenueIds, Venue) /\ DOMAIN venues' = DOMAIN venues
      BY <3>1, <3>2 DEF TypeOK, IsTable, Venue
    <3>4. /\ IsTable(events', EventIds, Event)
          /\ DOMAIN events' = DOMAIN events
          /\ \A e \in DOMAIN events : events'[e].venue = events[e].venue
      BY <3>1, SetStatusKeepsEvents DEF EventStatus
    <3>5. /\ IsTable(votes', VoteIds, Vote)
          /\ DOMAIN votes' = DOMAIN votes
          /\ \A v \in DOMAIN votes : votes'[v].event = votes[v].event
      BY <3>1, CloseBallotsKeepsVotes
    <3>6. ReferentialIntegrity'
      BY <3>3, <3>4, <3>5 DEF ReferentialIntegrity
    <3> QED
      BY <3>1, <3>2, <3>3, <3>4, <3>5, <3>6, CommitKeepsInv
  <2> QED
    BY <2>1, <2>2
<1>6. ASSUME DeleteVenue(w) PROVE IInv'
  <2>1. PICK m \in Managers, v \in VenueIds :
            Refuse(w) \/ Becomes(w, Call("delete_venue", m, v))
    BY <1>6 DEF DeleteVenue
  <2>2. Call("delete_venue", m, v) \in Request
    BY CallIsRequest DEF OpNames, Users, VenueIds
  <2>3. PayloadOK(Call("delete_venue", m, v))
    BY DEF PayloadOK, Call, NewRequest
  <2> QED
    BY <1>6, <2>1, <2>2, <2>3, ReadKeepsInv, RefuseKeepsInv DEF DeleteVenue
<1>7. ASSUME DeleteVenueCommit(w) PROVE IInv'
  <2> DEFINE k == req[w].key
  <2>1. /\ venues' = Delete(venues, {k})
        /\ DropEvents(EventsAt(k), {})
        /\ Committed(w, k)
        /\ now' = now
    BY <1>7 DEF DeleteVenueCommit
  <2>2. IsTable(venues', VenueIds, Venue) /\ DOMAIN venues' = DOMAIN venues \ {k}
    BY <2>1 DEF TypeOK, IsTable, Delete, Restrict
  <2>3. /\ IsTable(events', EventIds, Event)
        /\ IsTable(votes', VoteIds, Vote)
        /\ DOMAIN events' = DOMAIN events \ EventsAt(k)
        /\ \A e \in DOMAIN events' : events'[e] = events[e]
        /\ \A v \in DOMAIN votes' : votes'[v].event \in DOMAIN events'
    BY <2>1, DropEventsKeepsTables
  <2>4. ReferentialIntegrity'
    BY <2>2, <2>3 DEF ReferentialIntegrity, EventsAt
  <2>5. k \in Nat
    BY DEF TypeOK, Request
  <2> QED
    BY <2>1, <2>2, <2>3, <2>4, <2>5, CommitKeepsInv
<1> QED
  BY <1>1, <1>2, <1>3, <1>4, <1>5, <1>6, <1>7

-----------------------------------------------------------------------------
(* The endpoints of router/event.py keep the invariant.                    *)

LEMMA EventEndpointsKeepInv ==
    ASSUME IInv, NEW w \in Workers
    PROVE  /\ CreateEvent(w) => IInv'
           /\ CreateEventCommit(w) => IInv'
           /\ UpdateEventStatus(w) => IInv'
           /\ UpdateEventStatusLoadVenue(w) => IInv'
           /\ UpdateEventStatusCommit(w) => IInv'
           /\ UpdateEvent(w) => IInv'
           /\ UpdateEventLoadVenue(w) => IInv'
           /\ UpdateEventCommit(w) => IInv'
           /\ DeleteEvent(w) => IInv'
           /\ DeleteEventCommit(w) => IInv'
           /\ LoadVotes(w) => IInv'
           /\ UpdateEventAwareDate(w) => IInv'
<1> USE DEF IInv
<1>1. ASSUME CreateEvent(w) PROVE IInv'
  <2>1. PICK c \in Customers, v \in VenueIds, d \in Dates, s \in EventInputs :
            \/ Refuse(w)
            \/ Becomes(w, [Call("create_event", c, 0) EXCEPT
                              !.venue = v, !.date = d, !.status = s])
    BY <1>1 DEF CreateEvent
  <2> DEFINE r == [Call("create_event", c, 0) EXCEPT
                      !.venue = v, !.date = d, !.status = s]
  <2>2. s \in EventStatus
    BY RequestsAssumption
  <2>3. Call("create_event", c, 0) \in Request
    BY CallIsRequest DEF OpNames, Users
  <2>4. r \in Request
    BY <2>2, <2>3 DEF Request
  <2>5. PayloadOK(r)
    BY <2>2 DEF PayloadOK, Call, NewRequest
  <2> QED
    BY <1>1, <2>1, <2>4, <2>5, ReadKeepsInv, RefuseKeepsInv DEF CreateEvent
<1>2. ASSUME CreateEventCommit(w) PROVE IInv'
  <2> DEFINE r == req[w]
  <2>1. CASE Rollback(w)
    BY <2>1, RollbackKeepsInv
  <2>2. CASE ~ Rollback(w)
    <3>1. PICK e \in EventIds :
            /\ events' = Insert(events, e,
                    [status |-> r.status, date |-> r.date, venue |-> r.venue,
                     customer |-> r.user, vote_count |-> 0])
            /\ Committed(w, e)
            /\ UNCHANGED <<venues, votes, now>>
      BY <1>2, <2>2 DEF CreateEventCommit
    <3>2. r.venue \in DOMAIN venues
      BY <1>2, <2>2 DEF CreateEventCommit
    <3>3. /\ r.user \in Customers /\ r.venue \in VenueIds
          /\ r.date \in Dates /\ r.status \in EventStatus
      BY <1>2 DEF CreateEventCommit, At, Payloads, PayloadOK, Outcomes
    <3>4. 0 \in Counts
      BY BoundsAreNaturals DEF Counts
    <3>5. IsTable(events', EventIds, Event) /\ DOMAIN events' = DOMAIN events \cup {e}
      BY <3>1, <3>3, <3>4 DEF TypeOK, IsTable, Insert, Event
    <3>6. \A x \in DOMAIN events' : events'[x].venue \in DOMAIN venues
      BY <3>1, <3>2 DEF ReferentialIntegrity, Insert
    <3>7. ReferentialIntegrity'
      BY <3>1, <3>5, <3>6 DEF ReferentialIntegrity
    <3>8. e \in Nat
      BY DEF EventIds
    <3> QED
      BY <3>1, <3>5, <3>7, <3>8, CommitKeepsInv DEF TypeOK
  <2> QED
    BY <2>1, <2>2
<1>3. ASSUME UpdateEventStatus(w) PROVE IInv'
  <2>1. PICK m \in Managers, e \in EventIds, s \in EventInputs :
            IF \/ e \notin DOMAIN events
               \/ events[e].status # "pending"
               \/ s \notin {"approved", "rejected"}
            THEN Refuse(w)
            ELSE Becomes(w, [Call("update_event_status", m, e) EXCEPT
                                !.ref = events[e].venue,
                                !.date = events[e].date,
                                !.status = s,
                                !.step = "load_venue"])
    BY <1>3 DEF UpdateEventStatus
  <2>2. CASE Refuse(w)
    BY <1>3, <2>2, RefuseKeepsInv DEF UpdateEventStatus
  <2>3. CASE ~ Refuse(w)
    <3> DEFINE r == [Call("update_event_status", m, e) EXCEPT
                        !.ref = events[e].venue,
                        !.date = events[e].date,
                        !.status = s,
                        !.step = "load_venue"]
    <3>1. e \in DOMAIN events /\ s \in {"approved", "rejected"} /\ Becomes(w, r)
      BY <2>1, <2>3
    <3>2. events[e].venue \in Nat /\ events[e].date \in Dates
      BY <3>1 DEF TypeOK, IsTable, Event, VenueIds
    <3>3. Call("update_event_status", m, e) \in Request
      BY CallIsRequest DEF OpNames, Users, EventIds
    <3>4. s \in EventStatus /\ "load_venue" \in Steps
      BY <3>1 DEF EventStatus, Steps
    <3>5. r \in Request
      BY <3>2, <3>3, <3>4 DEF Request
    <3>6. PayloadOK(r)
      BY <3>1 DEF PayloadOK, Call, NewRequest
    <3> QED
      BY <1>3, <3>1, <3>5, <3>6, ReadKeepsInv DEF UpdateEventStatus
  <2> QED
    BY <2>2, <2>3
<1>4. ASSUME UpdateEventStatusLoadVenue(w) PROVE IInv'
  <2> DEFINE r == [req[w] EXCEPT !.evs = {req[w].key}, !.todo = {req[w].key},
                                 !.step = "load_votes"]
  <2>1. Refuse(w) \/ Becomes(w, r)
    BY <1>4 DEF UpdateEventStatusLoadVenue
  <2>2. req[w] \in Request /\ PayloadOK(req[w])
    BY DEF TypeOK, Payloads
  <2>3. req[w].key \in EventIds /\ req[w].step = "load_venue"
    BY <1>4 DEF UpdateEventStatusLoadVenue, At, Payloads, PayloadOK, Outcomes
  <2>4. r \in Request
    BY <2>2, <2>3 DEF Request, Steps
  <2>5. PayloadOK(r)
    BY <2>2, <2>3 DEF PayloadOK, Request, Outcomes
  <2> QED
    BY <1>4, <2>1, <2>4, <2>5, ReadKeepsInv, RefuseKeepsInv
    DEF UpdateEventStatusLoadVenue
<1>5. ASSUME UpdateEventStatusCommit(w) PROVE IInv'
  <2> DEFINE r == req[w]
  <2>1. CASE Rollback(w)
    BY <2>1, RollbackKeepsInv
  <2>2. CASE ~ Rollback(w)
    <3>1. /\ events' = SetStatus(r.evs, r.status)
          /\ votes' = CloseBallots(r.vts)
          /\ Committed(w, r.key)
          /\ UNCHANGED <<venues, now>>
      BY <1>5, <2>2 DEF UpdateEventStatusCommit
    <3>2. r.status \in EventStatus /\ r.key \in Nat
      BY <1>5 DEF UpdateEventStatusCommit, At, Payloads, PayloadOK, Outcomes,
                  TypeOK, Request, EventStatus
    <3>3. /\ IsTable(events', EventIds, Event)
          /\ DOMAIN events' = DOMAIN events
          /\ \A e \in DOMAIN events : events'[e].venue = events[e].venue
      BY <3>1, <3>2, SetStatusKeepsEvents
    <3>4. /\ IsTable(votes', VoteIds, Vote)
          /\ DOMAIN votes' = DOMAIN votes
          /\ \A v \in DOMAIN votes : votes'[v].event = votes[v].event
      BY <3>1, CloseBallotsKeepsVotes
    <3>5. ReferentialIntegrity'
      BY <3>1, <3>3, <3>4 DEF ReferentialIntegrity
    <3> QED
      BY <3>1, <3>2, <3>3, <3>4, <3>5, CommitKeepsInv DEF TypeOK
  <2> QED
    BY <2>1, <2>2
<1>6. ASSUME UpdateEvent(w) PROVE IInv'
  <2>1. PICK c \in Customers, e \in EventIds,
             d \in Dates \cup {None}, v \in VenueIds \cup {None} :
            IF \/ e \notin DOMAIN events
               \/ events[e].customer # c
               \/ events[e].status # "pending"
               \/ d # None /\ d <= now
            THEN Refuse(w)
            ELSE Becomes(w, [Call("update_event", c, e) EXCEPT
                    !.date = IF d = events[e].date THEN None ELSE d,
                    !.venue = v,
                    !.ref = events[e].venue,
                    !.step = IF v = None THEN "commit" ELSE "load_venue"])
    BY <1>6 DEF UpdateEvent
  <2>2. CASE Refuse(w)
    BY <1>6, <2>2, RefuseKeepsInv DEF UpdateEvent
  <2>3. CASE ~ Refuse(w)
    <3> DEFINE dt == IF d = events[e].date THEN None ELSE d
               sp == IF v = None THEN "commit" ELSE "load_venue"
               r == [Call("update_event", c, e) EXCEPT
                        !.date = dt, !.venue = v, !.ref = events[e].venue,
                        !.step = sp]
    <3>1. e \in DOMAIN events /\ Becomes(w, r)
      BY <2>1, <2>3
    <3>2. events[e].venue \in Nat
      BY <3>1 DEF TypeOK, IsTable, Event, VenueIds
    <3>3. dt \in Dates \cup {None} /\ sp \in Steps
      BY DEF Steps
    <3>4. Call("update_event", c, e) \in Request
      BY CallIsRequest DEF OpNames, Users, EventIds
    <3>5. r \in Request
      BY <3>2, <3>3, <3>4 DEF Request
    <3>6. PayloadOK(r)
      BY DEF PayloadOK, Call, NewRequest
    <3> QED
      BY <1>6, <3>1, <3>5, <3>6, ReadKeepsInv DEF UpdateEvent
  <2> QED
    BY <2>2, <2>3
<1>7. ASSUME UpdateEventLoadVenue(w) PROVE IInv'
  <2> DEFINE vn == IF req[w].venue = req[w].ref THEN None ELSE req[w].venue
             r == [req[w] EXCEPT !.venue = vn, !.step = "commit"]
  <2>1. Refuse(w) \/ Becomes(w, r)
    BY <1>7 DEF UpdateEventLoadVenue, TypeOK, Request
  <2>2. req[w] \in Request /\ req[w].op = "update_event"
    BY <1>7 DEF TypeOK, UpdateEventLoadVenue, At
  <2>3. r \in Request
    BY <2>2 DEF Request, Steps
  <2>4. PayloadOK(r)
    BY <2>2 DEF PayloadOK, Request
  <2> QED
    BY <1>7, <2>1, <2>3, <2>4, ReadKeepsInv, RefuseKeepsInv DEF UpdateEventLoadVenue
<1>8. ASSUME UpdateEventCommit(w) PROVE IInv'
  <2> DEFINE r == req[w]
  <2>1. CASE Rollback(w)
    BY <2>1, RollbackKeepsInv
  <2>2. CASE ~ Rollback(w)
    <3>1. /\ r.venue # None => r.venue \in DOMAIN venues
          /\ events' = [e \in DOMAIN events |->
                    IF e # r.key THEN events[e]
                    ELSE [events[e] EXCEPT
                            !.date  = IF r.date = None THEN @ ELSE r.date,
                            !.venue = IF r.venue = None THEN @ ELSE r.venue]]
          /\ Committed(w, r.key)
          /\ UNCHANGED <<venues, votes, now>>
      BY <1>8, <2>2 DEF UpdateEventCommit
    <3>2. /\ r.date \in Dates \cup {None}
          /\ r.venue \in VenueIds \cup {None}
          /\ r.key \in Nat
      BY DEF TypeOK, Request
    <3>3. IsTable(events', EventIds, Event) /\ DOMAIN events' = DOMAIN events
      BY <3>1, <3>2 DEF TypeOK, IsTable, Event
    <3>4. \A e \in DOMAIN events : events'[e].venue \in {events[e].venue} \cup DOMAIN venues
      BY <3>1 DEF TypeOK, IsTable, Event
    <3>5. ReferentialIntegrity'
      BY <3>1, <3>3, <3>4 DEF ReferentialIntegrity
    <3> QED
      BY <3>1, <3>2, <3>3, <3>5, CommitKeepsInv DEF TypeOK
  <2> QED
    BY <2>1, <2>2
<1>9. ASSUME DeleteEvent(w) PROVE IInv'
  <2>1. PICK c \in Customers, e \in EventIds :
            \/ Refuse(w)
            \/ Becomes(w, [Call("delete_event", c, e) EXCEPT
                              !.todo = {e}, !.step = "load_votes"])
    BY <1>9 DEF DeleteEvent
  <2> DEFINE r == [Call("delete_event", c, e) EXCEPT !.todo = {e}, !.step = "load_votes"]
  <2>2. Call("delete_event", c, e) \in Request
    BY CallIsRequest DEF OpNames, Users, EventIds
  <2>3. r \in Request
    BY <2>2 DEF Request, Steps
  <2>4. PayloadOK(r)
    BY DEF PayloadOK, Call, NewRequest
  <2> QED
    BY <1>9, <2>1, <2>3, <2>4, ReadKeepsInv, RefuseKeepsInv DEF DeleteEvent
<1>10. ASSUME DeleteEventCommit(w) PROVE IInv'
  <2> DEFINE k == req[w].key
  <2>1. /\ DropEvents({k}, req[w].vts)
        /\ Committed(w, k)
        /\ UNCHANGED <<venues, now>>
    BY <1>10 DEF DeleteEventCommit
  <2>2. /\ IsTable(events', EventIds, Event)
        /\ IsTable(votes', VoteIds, Vote)
        /\ DOMAIN events' = DOMAIN events \ {k}
        /\ \A e \in DOMAIN events' : events'[e] = events[e]
        /\ \A v \in DOMAIN votes' : votes'[v].event \in DOMAIN events'
    BY <2>1, DropEventsKeepsTables
  <2>3. ReferentialIntegrity'
    BY <2>1, <2>2 DEF ReferentialIntegrity
  <2>4. k \in Nat
    BY DEF TypeOK, Request
  <2> QED
    BY <2>1, <2>2, <2>3, <2>4, CommitKeepsInv DEF TypeOK
<1>11. ASSUME LoadVotes(w) PROVE IInv'
  <2>1. PICK e \in req[w].todo :
            LET found == {v \in VotesOf(e) : \/ req[w].op = "delete_event"
                                             \/ votes[v].status = "ballot_open"}
                left  == req[w].todo \ {e}
            IN Becomes(w, [req[w] EXCEPT !.vts = @ \cup found, !.todo = left,
                              !.step = IF left = {} THEN "commit" ELSE "load_votes"])
    BY <1>11 DEF LoadVotes
  <2> DEFINE found == {v \in VotesOf(e) : \/ req[w].op = "delete_event"
                                          \/ votes[v].status = "ballot_open"}
             left == req[w].todo \ {e}
             vs == req[w].vts \cup found
             sp == IF left = {} THEN "commit" ELSE "load_votes"
             r == [req[w] EXCEPT !.vts = vs, !.todo = left, !.step = sp]
  <2>2. req[w] \in Request /\ PayloadOK(req[w]) /\ req[w].step = "load_votes"
    BY <1>11 DEF TypeOK, Payloads, LoadVotes
  <2>3. vs \in SUBSET VoteIds /\ left \in SUBSET EventIds /\ sp \in Steps
    BY <2>2 DEF TypeOK, IsTable, VotesOf, Request, Steps
  <2>4. r \in Request
    BY <2>2, <2>3 DEF Request
  <2>5. PayloadOK(r)
    BY <2>2 DEF PayloadOK, Request, Outcomes
  <2>6. Becomes(w, r)
    BY <2>1, <2>2 DEF Request
  <2> QED
    BY <1>11, <2>4, <2>5, <2>6, ReadKeepsInv DEF LoadVotes
<1>12. ASSUME UpdateEventAwareDate(w) PROVE IInv'
  BY <1>12, RollbackKeepsInv DEF UpdateEventAwareDate
<1> QED
  BY <1>1, <1>2, <1>3, <1>4, <1>5, <1>6, <1>7, <1>8, <1>9, <1>10, <1>11, <1>12

-----------------------------------------------------------------------------
(* The endpoints of router/vote.py, and what may happen to any request,    *)
(* keep the invariant.                                                     *)

LEMMA VoteEndpointsKeepInv ==
    ASSUME IInv, NEW w \in Workers
    PROVE  /\ CastVote(w) => IInv'
           /\ CastVoteLoadExisting(w) => IInv'
           /\ CastVoteCommit(w) => IInv'
           /\ DeleteVote(w) => IInv'
           /\ DeleteVoteLoadEvent(w) => IInv'
           /\ DeleteVoteCommit(w) => IInv'
<1> USE DEF IInv
<1>1. ASSUME CastVote(w) PROVE IInv'
  <2>1. PICK c \in Customers, e \in EventIds :
            IF \/ e \notin DOMAIN events
               \/ events[e].status # "pending"
               \/ events[e].date <= now
            THEN Refuse(w)
            ELSE Becomes(w, [Call("cast_vote", c, e) EXCEPT
                                !.count = events[e].vote_count,
                                !.step = "load_existing"])
    BY <1>1 DEF CastVote
  <2>2. CASE Refuse(w)
    BY <1>1, <2>2, RefuseKeepsInv DEF CastVote
  <2>3. CASE ~ Refuse(w)
    <3> DEFINE r == [Call("cast_vote", c, e) EXCEPT
                        !.count = events[e].vote_count, !.step = "load_existing"]
    <3>1. e \in DOMAIN events /\ Becomes(w, r)
      BY <2>1, <2>3
    <3>2. events[e].vote_count \in Counts
      BY <3>1 DEF TypeOK, IsTable, Event
    <3>3. Call("cast_vote", c, e) \in Request
      BY CallIsRequest DEF OpNames, Users, EventIds
    <3>4. r \in Request
      BY <3>2, <3>3 DEF Request, Steps
    <3>5. PayloadOK(r)
      BY DEF PayloadOK, Call, NewRequest
    <3> QED
      BY <1>1, <3>1, <3>4, <3>5, ReadKeepsInv DEF CastVote
  <2> QED
    BY <2>2, <2>3
<1>2. ASSUME CastVoteLoadExisting(w) PROVE IInv'
  <2> DEFINE r == [req[w] EXCEPT !.step = "commit"]
  <2>1. Refuse(w) \/ Becomes(w, r)
    BY <1>2 DEF CastVoteLoadExisting
  <2>2. req[w] \in Request /\ PayloadOK(req[w]) /\ req[w].step = "load_existing"
    BY <1>2 DEF TypeOK, Payloads, CastVoteLoadExisting, At
  <2>3. r \in Request
    BY <2>2 DEF Request, Steps
  <2>4. PayloadOK(r)
    BY <2>2 DEF PayloadOK, Request, Outcomes
  <2> QED
    BY <1>2, <2>1, <2>3, <2>4, ReadKeepsInv, RefuseKeepsInv DEF CastVoteLoadExisting
<1>3. ASSUME CastVoteCommit(w) PROVE IInv'
  <2> DEFINE r == req[w]
  <2>1. CASE Rollback(w)
    BY <2>1, RollbackKeepsInv
  <2>2. CASE ~ Rollback(w)
    <3>1. PICK v \in VoteIds :
            /\ r.count < MaxCount
            /\ votes' = Insert(votes, v, [event |-> r.key, customer |-> r.user,
                                          status |-> "ballot_open"])
            /\ events' = [events EXCEPT ![r.key].vote_count = r.count + 1]
            /\ Committed(w, v)
            /\ UNCHANGED <<venues, now>>
      BY <1>3, <2>2 DEF CastVoteCommit
    <3>2. r.key \in DOMAIN events /\ r.user \in Customers
      BY <1>3, <2>2 DEF CastVoteCommit, At, Payloads, PayloadOK, Outcomes
    <3>3. r.count + 1 \in Counts
      BY <3>1, BoundsAreNaturals DEF TypeOK, Request, Counts
    <3>4. /\ IsTable(events', EventIds, Event)
          /\ DOMAIN events' = DOMAIN events
          /\ \A e \in DOMAIN events : events'[e].venue = events[e].venue
      BY <3>1, <3>3 DEF TypeOK, IsTable, Event
    <3>5. [event |-> r.key, customer |-> r.user, status |-> "ballot_open"] \in Vote
      BY <3>2 DEF Vote, VoteStatus, TypeOK, IsTable
    <3>6. IsTable(votes', VoteIds, Vote)
      BY <3>1, <3>5 DEF TypeOK, IsTable, Insert
    <3>7. \A v2 \in DOMAIN votes' : votes'[v2].event \in DOMAIN events
      BY <3>1, <3>2 DEF ReferentialIntegrity, Insert
    <3>8. ReferentialIntegrity'
      BY <3>1, <3>4, <3>7 DEF ReferentialIntegrity
    <3>9. v \in Nat
      BY DEF VoteIds
    <3> QED
      BY <3>1, <3>4, <3>6, <3>8, <3>9, CommitKeepsInv DEF TypeOK
  <2> QED
    BY <2>1, <2>2
<1>4. ASSUME DeleteVote(w) PROVE IInv'
  <2>1. PICK c \in Customers, v \in VoteIds :
            IF \/ v \notin DOMAIN votes
               \/ votes[v].customer # c
               \/ votes[v].status # "ballot_open"
            THEN Refuse(w)
            ELSE Becomes(w, [Call("delete_vote", c, v) EXCEPT
                                !.ref = votes[v].event, !.step = "load_event"])
    BY <1>4 DEF DeleteVote
  <2>2. CASE Refuse(w)
    BY <1>4, <2>2, RefuseKeepsInv DEF DeleteVote
  <2>3. CASE ~ Refuse(w)
    <3> DEFINE r == [Call("delete_vote", c, v) EXCEPT
                        !.ref = votes[v].event, !.step = "load_event"]
    <3>1. v \in DOMAIN votes /\ Becomes(w, r)
      BY <2>1, <2>3
    <3>2. votes[v].event \in Nat
      BY <3>1 DEF TypeOK, IsTable, Vote, EventIds
    <3>3. Call("delete_vote", c, v) \in Request
      BY CallIsRequest DEF OpNames, Users, VoteIds
    <3>4. r \in Request
      BY <3>2, <3>3 DEF Request, Steps
    <3>5. PayloadOK(r)
      BY DEF PayloadOK, Call, NewRequest
    <3> QED
      BY <1>4, <3>1, <3>4, <3>5, ReadKeepsInv DEF DeleteVote
  <2> QED
    BY <2>2, <2>3
<1>5. ASSUME DeleteVoteLoadEvent(w) PROVE IInv'
  <2> DEFINE e == req[w].ref
             r == [req[w] EXCEPT !.count = events[e].vote_count, !.step = "commit"]
  <2>1. \/ Becomes(w, Free("error"))
        \/ Refuse(w)
        \/ e \in DOMAIN events /\ Becomes(w, r)
    BY <1>5 DEF DeleteVoteLoadEvent
  <2>2. CASE Becomes(w, Free("error"))
    BY <1>5, <2>2, FreeIsRequest, ReadKeepsInv DEF DeleteVoteLoadEvent, Outcomes
  <2>3. CASE Refuse(w)
    BY <1>5, <2>3, RefuseKeepsInv DEF DeleteVoteLoadEvent
  <2>4. CASE e \in DOMAIN events /\ Becomes(w, r)
    <3>1. req[w] \in Request /\ req[w].op = "delete_vote"
      BY <1>5 DEF TypeOK, DeleteVoteLoadEvent, At
    <3>2. events[e].vote_count \in Counts
      BY <2>4 DEF TypeOK, IsTable, Event
    <3>3. r \in Request
      BY <3>1, <3>2 DEF Request, Steps
    <3>4. PayloadOK(r)
      BY <3>1 DEF PayloadOK, Request
    <3> QED
      BY <1>5, <2>4, <3>3, <3>4, ReadKeepsInv DEF DeleteVoteLoadEvent
  <2> QED
    BY <2>1, <2>2, <2>3, <2>4
<1>6. ASSUME DeleteVoteCommit(w) PROVE IInv'
  <2> DEFINE r == req[w]
  <2>1. CASE Rollback(w)
    BY <2>1, RollbackKeepsInv
  <2>2. CASE ~ Rollback(w)
    <3>1. /\ r.count > -MaxCount
          /\ votes' = Delete(votes, {r.key})
          /\ events' = [events EXCEPT ![r.ref].vote_count = r.count - 1]
          /\ Committed(w, r.key)
          /\ UNCHANGED <<venues, now>>
      BY <1>6, <2>2 DEF DeleteVoteCommit
    <3>2. r.count - 1 \in Counts /\ r.key \in Nat
      BY <3>1, BoundsAreNaturals DEF TypeOK, Request, Counts
    <3>3. /\ IsTable(events', EventIds, Event)
          /\ DOMAIN events' = DOMAIN events
          /\ \A e \in DOMAIN events : events'[e].venue = events[e].venue
      BY <3>1, <3>2 DEF TypeOK, IsTable, Event
    <3>4. IsTable(votes', VoteIds, Vote)
      BY <3>1 DEF TypeOK, IsTable, Delete, Restrict
    <3>5. \A v \in DOMAIN votes' : votes'[v].event \in DOMAIN events
      BY <3>1 DEF ReferentialIntegrity, Delete, Restrict
    <3>6. ReferentialIntegrity'
      BY <3>1, <3>3, <3>5 DEF ReferentialIntegrity
    <3> QED
      BY <3>1, <3>2, <3>3, <3>4, <3>6, CommitKeepsInv DEF TypeOK
  <2> QED
    BY <2>1, <2>2
<1> QED
  BY <1>1, <1>2, <1>3, <1>4, <1>5, <1>6

LEMMA OtherStepsKeepInv ==
    ASSUME IInv
    PROVE  /\ \A w \in Workers : Respond(w) \/ DatabaseLocked(w) => IInv'
           /\ Restart \/ Tick \/ UNCHANGED vars => IInv'
<1>1. ASSUME NEW w \in Workers, Respond(w) PROVE IInv'
  <2>1. Free("ok") \in Request /\ PayloadOK(Free("ok"))
    BY FreeIsRequest DEF Outcomes
  <2>2. Free("error") \in Request /\ PayloadOK(Free("error"))
    BY FreeIsRequest DEF Outcomes
  <2>3. /\ [req[w] EXCEPT !.step = "title"] \in Request
        /\ PayloadOK([req[w] EXCEPT !.step = "title"])
    <3>1. req[w] \in Request /\ "title" \in Steps
      BY DEF IInv, TypeOK, Steps
    <3>2. [req[w] EXCEPT !.step = "title"].step = "title"
      BY <3>1 DEF Request
    <3> QED
      BY <3>1, <3>2, EditIsRequest DEF PayloadOK
  <2> QED
    <3>1. Read
      BY <1>1, AnswerSteps
    <3>2. CASE Becomes(w, Free("ok"))
      BY <2>1, <3>1, <3>2, ReadKeepsInv
    <3>3. CASE Becomes(w, Free("error"))
      BY <2>2, <3>1, <3>3, ReadKeepsInv
    <3>4. CASE Becomes(w, [req[w] EXCEPT !.step = "title"])
      BY <2>3, <3>1, <3>4, ReadKeepsInv
    <3> QED
      BY <1>1, <3>2, <3>3, <3>4, AnswerSteps
<1>2. ASSUME NEW w \in Workers, DatabaseLocked(w) PROVE IInv'
  BY <1>2, FreeIsRequest, ReadKeepsInv DEF DatabaseLocked, Outcomes
<1>3. ASSUME Restart PROVE IInv'
  <2>1. Free("idle") \in Request /\ PayloadOK(Free("idle"))
    BY FreeIsRequest DEF Outcomes
  <2> QED
    BY <1>3, <2>1 DEF Restart, Read, IInv, TypeOK, Payloads, ReferentialIntegrity
<1>4. ASSUME Tick PROVE IInv'
  <2>1. now' \in 0..MaxTime
    BY <1>4, BoundsAreNaturals DEF Tick, IInv, TypeOK
  <2> QED
    BY <1>4, <2>1 DEF Tick, IInv, TypeOK, Payloads, ReferentialIntegrity
<1>5. ASSUME UNCHANGED vars PROVE IInv'
  BY <1>5 DEF vars, IInv, TypeOK, Payloads, ReferentialIntegrity
<1> QED
  BY <1>1, <1>2, <1>3, <1>4, <1>5

-----------------------------------------------------------------------------
(* The theorems                                                            *)

LEMMA InitInv == Init => IInv
<1> SUFFICES ASSUME Init PROVE IInv
  OBVIOUS
<1>1. Free("idle") \in Request /\ PayloadOK(Free("idle"))
  BY FreeIsRequest DEF Outcomes
<1>2. req \in [Workers -> Request] /\ Payloads
  BY <1>1 DEF Init, Payloads
<1>3. now \in 0..MaxTime
  BY BoundsAreNaturals DEF Init
<1> QED
  BY <1>2, <1>3 DEF Init, IInv, TypeOK, IsTable, ReferentialIntegrity

(* Every step keeps the invariant.                                         *)
LEMMA NextInv == IInv /\ [Next]_vars => IInv'
<1> SUFFICES ASSUME IInv, [Next]_vars PROVE IInv'
  OBVIOUS
<1>1. ASSUME NEW w \in Workers, Receive(w) PROVE IInv'
  BY <1>1, VenueEndpointsKeepInv, EventEndpointsKeepInv, VoteEndpointsKeepInv
  DEF Receive
<1>2. ASSUME NEW w \in Workers, Execute(w) PROVE IInv'
  BY <1>2, VenueEndpointsKeepInv, EventEndpointsKeepInv, VoteEndpointsKeepInv
  DEF Execute
<1> QED
  BY <1>1, <1>2, OtherStepsKeepInv DEF Next

(* In every reachable state the tables are well typed, the foreign keys    *)
(* hold, and a request about to write carries what its endpoint checked in *)
(* the payload.                                                            *)
THEOREM Invariance == Spec => []IInv
BY InitInv, NextInv, PTL DEF Spec

(* Every table holds well-formed rows and every request in flight is well  *)
(* formed, for any number of workers (the endpoints of router/*.py).       *)
THEOREM TypeCorrectness == Spec => []TypeOK
<1>1. IInv => TypeOK
  BY DEF IInv
<1> QED
  BY <1>1, Invariance, PTL

(* No event without its venue, no vote without its event: the foreign keys *)
(* and their cascades (models.py, database.py) against overlapping         *)
(* deletions, insertions and moves.                                        *)
THEOREM ForeignKeysHold == Spec => []ReferentialIntegrity
<1>1. IInv => ReferentialIntegrity
  BY DEF IInv
<1> QED
  BY <1>1, Invariance, PTL

-----------------------------------------------------------------------------
(* No step reopens a decision or a ballot: only the commits below write    *)
(* events and votes.                                                       *)

LEMMA CommitsKeepDecisions ==
    ASSUME IInv, NEW w \in Workers
    PROVE  /\ UpdateVenueCommit(w) => KeepsDecisions
           /\ DeleteVenueCommit(w) => KeepsDecisions
           /\ CreateEventCommit(w) => KeepsDecisions
           /\ UpdateEventStatusCommit(w) => KeepsDecisions
           /\ UpdateEventCommit(w) => KeepsDecisions
           /\ DeleteEventCommit(w) => KeepsDecisions
           /\ CastVoteCommit(w) => KeepsDecisions
           /\ DeleteVoteCommit(w) => KeepsDecisions
<1> USE DEF IInv
<1>0. ASSUME UNCHANGED <<events, votes>> PROVE KeepsDecisions
  BY <1>0 DEF KeepsDecisions
<1>1. ASSUME UpdateVenueCommit(w) PROVE KeepsDecisions
  <2>1. \/ UNCHANGED <<events, votes>>
        \/ /\ events' = SetStatus(req[w].evs, "rejected")
           /\ votes' = CloseBallots(req[w].vts)
    BY <1>1 DEF UpdateVenueCommit, Rollback, Read
  <2> QED
    BY <2>1, <1>0
    DEF KeepsDecisions, SetStatus, CloseBallots, TypeOK, IsTable, Event, Vote
<1>2. ASSUME DeleteVenueCommit(w) PROVE KeepsDecisions
  BY <1>2, DropEventsKeepsTables
  DEF DeleteVenueCommit, KeepsDecisions, DropEvents, Delete, Restrict
<1>3. ASSUME CreateEventCommit(w) PROVE KeepsDecisions
  <2>1. CASE Rollback(w)
    BY <2>1, <1>0 DEF Rollback, Read
  <2>2. CASE ~ Rollback(w)
    <3>1. PICK e \in EventIds :
            /\ IsNextId(events, e)
            /\ events' = Insert(events, e,
                    [status |-> req[w].status, date |-> req[w].date,
                     venue |-> req[w].venue, customer |-> req[w].user,
                     vote_count |-> 0])
            /\ votes' = votes
      BY <1>3, <2>2 DEF CreateEventCommit
    <3>2. e \notin DOMAIN events
      BY <3>1, NextIdIsFree DEF TypeOK, IsTable, EventIds
    <3> QED
      BY <3>1, <3>2 DEF KeepsDecisions, Insert
  <2> QED
    BY <2>1, <2>2
<1>4. ASSUME UpdateEventStatusCommit(w) PROVE KeepsDecisions
  <2>1. \/ UNCHANGED <<events, votes>>
        \/ /\ events' = SetStatus(req[w].evs, req[w].status)
           /\ votes' = CloseBallots(req[w].vts)
    BY <1>4 DEF UpdateEventStatusCommit, Rollback, Read
  <2>2. req[w].status \in {"approved", "rejected"}
    BY <1>4 DEF UpdateEventStatusCommit, At, Payloads, PayloadOK, Outcomes
  <2> QED
    BY <2>1, <2>2, <1>0
    DEF KeepsDecisions, SetStatus, CloseBallots, TypeOK, IsTable, Event, Vote
<1>5. ASSUME UpdateEventCommit(w) PROVE KeepsDecisions
  <2>1. CASE Rollback(w)
    BY <2>1, <1>0 DEF Rollback, Read
  <2>2. CASE ~ Rollback(w)
    <3>1. /\ events' = [e \in DOMAIN events |->
                IF e # req[w].key THEN events[e]
                ELSE [events[e] EXCEPT
                        !.date  = IF req[w].date = None THEN @ ELSE req[w].date,
                        !.venue = IF req[w].venue = None THEN @ ELSE req[w].venue]]
          /\ votes' = votes
      BY <1>5, <2>2 DEF UpdateEventCommit
    <3>2. \A e \in DOMAIN events : events'[e].status = events[e].status
      BY <3>1 DEF TypeOK, IsTable, Event
    <3> QED
      BY <3>1, <3>2 DEF KeepsDecisions
  <2> QED
    BY <2>1, <2>2
<1>6. ASSUME DeleteEventCommit(w) PROVE KeepsDecisions
  BY <1>6, DropEventsKeepsTables
  DEF DeleteEventCommit, KeepsDecisions, DropEvents, Delete, Restrict
<1>7. ASSUME CastVoteCommit(w) PROVE KeepsDecisions
  <2>1. CASE Rollback(w)
    BY <2>1, <1>0 DEF Rollback, Read
  <2>2. CASE ~ Rollback(w)
    <3>1. PICK v \in VoteIds :
            /\ IsNextId(votes, v)
            /\ votes' = Insert(votes, v, [event |-> req[w].key,
                                         customer |-> req[w].user,
                                         status |-> "ballot_open"])
            /\ events' = [events EXCEPT ![req[w].key].vote_count = req[w].count + 1]
      BY <1>7, <2>2 DEF CastVoteCommit
    <3>2. v \notin DOMAIN votes
      BY <3>1, NextIdIsFree DEF TypeOK, IsTable, VoteIds
    <3>3. \A e \in DOMAIN events : events'[e].status = events[e].status
      BY <3>1 DEF TypeOK, IsTable, Event
    <3> QED
      BY <3>1, <3>2, <3>3 DEF KeepsDecisions, Insert
  <2> QED
    BY <2>1, <2>2
<1>8. ASSUME DeleteVoteCommit(w) PROVE KeepsDecisions
  BY <1>8, <1>0
  DEF DeleteVoteCommit, Rollback, Read, KeepsDecisions, Delete, Restrict,
      TypeOK, IsTable, Event
<1> QED
  BY <1>1, <1>2, <1>3, <1>4, <1>5, <1>6, <1>7, <1>8

(* Every step leaves a decided event and a closed ballot as they are.      *)
LEMMA NextKeepsDecisions ==
    ASSUME IInv, [Next]_vars
    PROVE  [KeepsDecisions]_<<events, votes>>
<1>1. ASSUME NEW w \in Workers, Receive(w) PROVE UNCHANGED <<events, votes>>
  BY <1>1
  DEF Receive, CreateVenue, UpdateVenue, DeleteVenue, CreateEvent,
      UpdateEventStatus, UpdateEvent, UpdateEventAwareDate, DeleteEvent,
      CastVote, DeleteVote, Rollback, Read
<1>2. ASSUME NEW w \in Workers, Execute(w)
      PROVE  KeepsDecisions \/ UNCHANGED <<events, votes>>
  BY <1>2, CommitsKeepDecisions
  DEF Execute, CreateVenueCommit, UpdateVenueLoadEvents,
      UpdateEventStatusLoadVenue, UpdateEventLoadVenue, LoadVotes,
      CastVoteLoadExisting, DeleteVoteLoadEvent, Read
<1> QED
  BY <1>1, <1>2 DEF Next, Respond, Refresh, LoadTitle, DatabaseLocked, Restart, Tick, Read, vars

(* A decision stands and a ballot stays closed, whatever requests overlap: *)
(* update_event_status and update_venue write only "approved", "rejected"  *)
(* and "ballot_close", and an update addresses one column of one row.      *)
THEOREM DecisionsStayDecided == Spec => NothingReopens
<1>1. IInv /\ [Next]_vars => [KeepsDecisions]_<<events, votes>>
  BY NextKeepsDecisions
<1> QED
  BY <1>1, Invariance, PTL DEF Spec, NothingReopens

-----------------------------------------------------------------------------
(* Who acts, and what a request has become after a step of its own         *)

(* A worker that acts changes its own request only.                        *)
LEMMA OneActs ==
    ASSUME NEW w \in Workers,
           Receive(w) \/ Execute(w) \/ Respond(w) \/ DatabaseLocked(w)
    PROVE  \E r : Becomes(w, r)
<1>1. CASE Receive(w)
  BY <1>1
  DEF Receive, CreateVenue, UpdateVenue, DeleteVenue, CreateEvent,
      UpdateEventStatus, UpdateEvent, UpdateEventAwareDate, DeleteEvent,
      CastVote, DeleteVote, Refuse, Rollback
<1>2. CASE Execute(w)
  BY <1>2
  DEF Execute, CreateVenueCommit, UpdateVenueLoadEvents, UpdateVenueCommit,
      DeleteVenueCommit, CreateEventCommit, UpdateEventStatusLoadVenue,
      UpdateEventStatusCommit, UpdateEventLoadVenue, UpdateEventCommit,
      DeleteEventCommit, LoadVotes, CastVoteLoadExisting, CastVoteCommit,
      DeleteVoteLoadEvent, DeleteVoteCommit, Refuse, Rollback, Committed
<1> QED
  BY <1>1, <1>2 DEF Respond, Refresh, LoadTitle, DatabaseLocked

(* Every step is one worker's, a restart or a tick of the clock.           *)
LEMMA WhoActs ==
    ASSUME TypeOK, [Next]_vars
    PROVE  \/ \E w \in Workers :
                /\ Receive(w) \/ Execute(w) \/ Respond(w) \/ DatabaseLocked(w)
                /\ \A u \in Workers : u # w => req'[u] = req[u]
           \/ UNCHANGED tables /\ \A w \in Workers : req'[w] = Free("idle")
           \/ UNCHANGED <<tables, req>>
<1>1. ASSUME NEW w \in Workers,
             Receive(w) \/ Execute(w) \/ Respond(w) \/ DatabaseLocked(w)
      PROVE  \A u \in Workers : u # w => req'[u] = req[u]
  BY <1>1, OneActs DEF Becomes, TypeOK
<1>2. Restart => UNCHANGED tables /\ \A w \in Workers : req'[w] = Free("idle")
  BY DEF Restart, Read, tables
<1>3. Tick \/ UNCHANGED vars => UNCHANGED <<tables, req>>
  BY DEF Tick, vars, tables
<1> QED
  BY <1>1, <1>2, <1>3 DEF Next

(* Only nine statements write.                                             *)
LEMMA WhoWrites ==
    ASSUME NEW w \in Workers,
           Receive(w) \/ Execute(w) \/ Respond(w) \/ DatabaseLocked(w)
    PROVE  \/ UNCHANGED tables
           \/ CreateVenueCommit(w) \/ UpdateVenueCommit(w) \/ DeleteVenueCommit(w)
           \/ CreateEventCommit(w) \/ UpdateEventStatusCommit(w)
           \/ UpdateEventCommit(w) \/ DeleteEventCommit(w)
           \/ CastVoteCommit(w) \/ DeleteVoteCommit(w)
<1>1. CASE Receive(w)
  BY <1>1
  DEF Receive, CreateVenue, UpdateVenue, DeleteVenue, CreateEvent,
      UpdateEventStatus, UpdateEvent, UpdateEventAwareDate, DeleteEvent,
      CastVote, DeleteVote, Rollback, Read, tables
<1>2. CASE Execute(w)
  BY <1>2
  DEF Execute, UpdateVenueLoadEvents, UpdateEventStatusLoadVenue,
      UpdateEventLoadVenue, LoadVotes, CastVoteLoadExisting,
      DeleteVoteLoadEvent, Read, tables
<1> QED
  BY <1>1, <1>2 DEF Respond, Refresh, LoadTitle, DatabaseLocked, Read, tables

(* A request that has ended, or whose transaction has, holds nothing that  *)
(* it has read.                                                            *)
Running(r) == r.step \notin Outcomes \cup {"respond", "title"}

(* An endpoint that accepts a request starts one for itself.               *)
LEMMA AcceptedOp ==
    ASSUME TypeOK, NEW w \in Workers, Receive(w), Running(req'[w])
    PROVE  /\ req'[w].op = "cast_vote" => CastVote(w)
           /\ req'[w].op = "delete_vote" => DeleteVote(w)
           /\ req'[w].op = "delete_event" => DeleteEvent(w)
           /\ req'[w].op = "update_event_status" => UpdateEventStatus(w)
           /\ req'[w].op = "update_venue" => UpdateVenue(w)
           /\ req'[w].op = "update_event" => UpdateEvent(w)
<1>0. \A r : Becomes(w, r) => req'[w] = r
  BY DEF Becomes, TypeOK
<1>1. ~ Refuse(w) /\ ~ Rollback(w)
  BY <1>0 DEF Refuse, Rollback, Running, Free, NewRequest, Outcomes
<1>2. CASE CreateVenue(w)
  <2>1. req'[w].op = "create_venue"
    BY <1>0, <1>2 DEF CreateVenue, Call, NewRequest
  <2> QED
    BY <2>1
<1>3. CASE UpdateVenue(w)
  <2>1. req'[w].op = "update_venue"
    BY <1>0, <1>1, <1>3 DEF UpdateVenue, Call, NewRequest
  <2> QED
    BY <1>3, <2>1
<1>4. CASE DeleteVenue(w)
  <2>1. req'[w].op = "delete_venue"
    BY <1>0, <1>1, <1>4 DEF DeleteVenue, Call, NewRequest
  <2> QED
    BY <2>1
<1>5. CASE CreateEvent(w)
  <2>1. req'[w].op = "create_event"
    BY <1>0, <1>1, <1>5 DEF CreateEvent, Call, NewRequest
  <2> QED
    BY <2>1
<1>6. CASE UpdateEventStatus(w)
  <2>1. req'[w].op = "update_event_status"
    BY <1>0, <1>1, <1>6 DEF UpdateEventStatus, Call, NewRequest
  <2> QED
    BY <1>6, <2>1
<1>7. CASE UpdateEvent(w)
  <2> DEFINE r(c, e, d, v) ==
        [Call("update_event", c, e) EXCEPT
                !.date = IF d = events[e].date THEN None ELSE d,
                !.venue = v,
                !.ref = events[e].venue,
                !.step = IF v = None THEN "commit" ELSE "load_venue"]
  <2>1. PICK c \in Customers, e \in EventIds,
             d \in Dates \cup {None}, v \in VenueIds \cup {None} :
            Becomes(w, r(c, e, d, v))
    BY <1>1, <1>7 DEF UpdateEvent
  <2>2. r(c, e, d, v).op = "update_event"
    BY DEF Call, NewRequest
  <2> HIDE DEF r
  <2>3. req'[w].op = "update_event"
    BY <1>0, <2>1, <2>2
  <2> QED
    BY <1>7, <2>3
<1>8. CASE DeleteEvent(w)
  <2>1. req'[w].op = "delete_event"
    BY <1>0, <1>1, <1>8 DEF DeleteEvent, Call, NewRequest
  <2> QED
    BY <1>8, <2>1
<1>9. CASE CastVote(w)
  <2>1. req'[w].op = "cast_vote"
    BY <1>0, <1>1, <1>9 DEF CastVote, Call, NewRequest
  <2> QED
    BY <1>9, <2>1
<1>10. CASE DeleteVote(w)
  <2>1. req'[w].op = "delete_vote"
    BY <1>0, <1>1, <1>10 DEF DeleteVote, Call, NewRequest
  <2> QED
    BY <1>10, <2>1
<1> QED
  BY <1>1, <1>2, <1>3, <1>4, <1>5, <1>6, <1>7, <1>8, <1>9, <1>10
     DEF Receive, UpdateEventAwareDate

(* A request that is still running after a statement of its own has only   *)
(* read, and is still the same request.                                    *)
LEMMA RunningOn ==
    ASSUME TypeOK, NEW w \in Workers, Running(req'[w]),
           Execute(w) \/ Respond(w) \/ DatabaseLocked(w)
    PROVE  /\ \/ UpdateVenueLoadEvents(w) \/ UpdateEventStatusLoadVenue(w)
              \/ UpdateEventLoadVenue(w) \/ LoadVotes(w)
              \/ CastVoteLoadExisting(w) \/ DeleteVoteLoadEvent(w)
           /\ UNCHANGED tables
           /\ req'[w].op = req[w].op /\ req'[w].key = req[w].key
           /\ req'[w].user = req[w].user /\ req'[w].ref = req[w].ref
           /\ req[w].step # "commit"
<1>0. \A r : Becomes(w, r) => req'[w] = r
  BY DEF Becomes, TypeOK
<1>1. \A o \in Outcomes : ~ Becomes(w, Free(o))
  BY <1>0 DEF Running, Free, NewRequest
<1>2. ~ Refuse(w) /\ ~ Rollback(w)
  BY <1>1 DEF Refuse, Rollback, Outcomes
<1>3. \A k : ~ Committed(w, k)
  BY <1>0 DEF Committed, Running, NewRequest
<1>4. ~ Respond(w) /\ ~ DatabaseLocked(w)
  <2>1. ASSUME Becomes(w, [req[w] EXCEPT !.step = "title"]) PROVE FALSE
    <3>1. req'[w] = [req[w] EXCEPT !.step = "title"] /\ req[w] \in Request
      BY <1>0, <2>1 DEF TypeOK
    <3>2. req'[w].step = "title"
      BY <3>1 DEF Request
    <3> QED
      BY <3>2 DEF Running
  <2>2. ~ Becomes(w, Free("ok")) /\ ~ Becomes(w, Free("error")) /\ ~ Becomes(w, Free("locked"))
    BY <1>1 DEF Outcomes
  <2> QED
    BY <2>1, <2>2, AnswerSteps DEF DatabaseLocked
<1>5. \/ UpdateVenueLoadEvents(w) \/ UpdateEventStatusLoadVenue(w)
      \/ UpdateEventLoadVenue(w) \/ LoadVotes(w)
      \/ CastVoteLoadExisting(w) \/ DeleteVoteLoadEvent(w)
  BY <1>2, <1>3, <1>4
  DEF Execute, CreateVenueCommit, UpdateVenueCommit, DeleteVenueCommit,
      CreateEventCommit, UpdateEventStatusCommit, UpdateEventCommit,
      DeleteEventCommit, CastVoteCommit, DeleteVoteCommit
<1>6. UNCHANGED tables
  BY <1>5
  DEF UpdateVenueLoadEvents, UpdateEventStatusLoadVenue, UpdateEventLoadVenue,
      LoadVotes, CastVoteLoadExisting, DeleteVoteLoadEvent, Read, tables
<1>7. req[w].step # "commit"
  BY <1>5
  DEF UpdateVenueLoadEvents, UpdateEventStatusLoadVenue, UpdateEventLoadVenue,
      LoadVotes, CastVoteLoadExisting, DeleteVoteLoadEvent, At
<1>8. req[w] \in Request
  BY DEF TypeOK
<1>9. /\ req'[w].op = req[w].op /\ req'[w].key = req[w].key
      /\ req'[w].user = req[w].user /\ req'[w].ref = req[w].ref
  <2>1. CASE UpdateVenueLoadEvents(w)
    BY <1>0, <1>8, <2>1 DEF UpdateVenueLoadEvents, Request
  <2>2. CASE UpdateEventStatusLoadVenue(w)
    BY <1>0, <1>2, <1>8, <2>2 DEF UpdateEventStatusLoadVenue, Request
  <2>3. CASE UpdateEventLoadVenue(w)
    BY <1>0, <1>2, <1>8, <2>3 DEF UpdateEventLoadVenue, Request
  <2>4. CASE LoadVotes(w)
    BY <1>0, <1>8, <2>4 DEF LoadVotes, Request
  <2>5. CASE CastVoteLoadExisting(w)
    BY <1>0, <1>2, <1>8, <2>5 DEF CastVoteLoadExisting, Request
  <2>6. CASE DeleteVoteLoadEvent(w)
    <3>1. ~ Becomes(w, Free("error"))
      BY <1>1 DEF Outcomes
    <3> QED
      BY <1>0, <1>2, <1>8, <2>6, <3>1 DEF DeleteVoteLoadEvent, Request
  <2> QED
    BY <1>5, <2>1, <2>2, <2>3, <2>4, <2>5, <2>6
<1> QED
  BY <1>5, <1>6, <1>7, <1>9

(* The statements that the handlers consist of                             *)
StepOK(r) ==
    Running(r) =>
        /\ r.op = "cast_vote" => r.step \in {"load_existing", "commit"}
        /\ r.op = "delete_vote" => r.step \in {"load_event", "commit"}
        /\ r.op = "delete_event" => r.step \in {"load_votes", "commit"}
        /\ r.op = "update_event_status" =>
                r.step \in {"load_venue", "load_votes", "commit"}
        /\ r.op = "update_venue" =>
                r.step \in {"load_events", "load_votes", "commit"}

StepsOK == \A w \in Workers : StepOK(req[w])

LEMMA NextStepsOK ==
    ASSUME TypeOK, StepsOK, [Next]_vars
    PROVE  StepsOK'
<1>0. \A w \in Workers : \A r : Becomes(w, r) => req'[w] = r
  BY DEF Becomes, TypeOK
<1>1. ASSUME NEW w \in Workers, Receive(w), Running(req'[w]) PROVE StepOK(req'[w])
  <2>0. ~ Refuse(w)
    BY <1>0, <1>1 DEF Refuse, Running, Free, NewRequest, Outcomes
  <2>1. CastVote(w) => req'[w].op = "cast_vote" /\ req'[w].step = "load_existing"
    BY <1>0, <2>0 DEF CastVote, Call, NewRequest
  <2>2. DeleteVote(w) => req'[w].op = "delete_vote" /\ req'[w].step = "load_event"
    BY <1>0, <2>0 DEF DeleteVote, Call, NewRequest
  <2>3. DeleteEvent(w) => req'[w].op = "delete_event" /\ req'[w].step = "load_votes"
    BY <1>0, <2>0 DEF DeleteEvent, Call, NewRequest
  <2>4. UpdateEventStatus(w) =>
            req'[w].op = "update_event_status" /\ req'[w].step = "load_venue"
    BY <1>0, <2>0 DEF UpdateEventStatus, Call, NewRequest
  <2>5. ASSUME UpdateVenue(w)
        PROVE  /\ req'[w].op = "update_venue"
               /\ req'[w].step \in {"load_events", "commit"}
    <3> DEFINE new(v, s) == IF s = None THEN venues[v].status ELSE s
               r(m, v, s) ==
                 [Call("update_venue", m, v) EXCEPT
                    !.status = IF new(v, s) = venues[v].status THEN None
                                                               ELSE new(v, s),
                    !.step = IF new(v, s) = "closed" THEN "load_events"
                                                     ELSE "commit"]
    <3>1. PICK m \in Managers, v \in VenueIds, s \in VenueInputs \cup {None} :
              Becomes(w, r(m, v, s))
      BY <2>0, <2>5 DEF UpdateVenue
    <3>2. /\ r(m, v, s).op = "update_venue"
          /\ r(m, v, s).step \in {"load_events", "commit"}
      BY DEF Call, NewRequest
    <3> HIDE DEF r
    <3> QED
      BY <1>0, <3>1, <3>2
  <2> QED
    BY <1>1, <2>1, <2>2, <2>3, <2>4, <2>5, AcceptedOp DEF StepOK
<1>2. ASSUME NEW w \in Workers, Running(req'[w]),
             Execute(w) \/ Respond(w) \/ DatabaseLocked(w)
      PROVE  StepOK(req'[w])
  <2>1. req[w] \in Request /\ StepOK(req[w])
    BY DEF TypeOK, StepsOK
  <2>2. /\ req'[w].op = req[w].op
        /\ \/ UpdateVenueLoadEvents(w) \/ UpdateEventStatusLoadVenue(w)
           \/ UpdateEventLoadVenue(w) \/ LoadVotes(w)
           \/ CastVoteLoadExisting(w) \/ DeleteVoteLoadEvent(w)
    BY <1>2, RunningOn
  <2>3. ~ Refuse(w) /\ ~ Becomes(w, Free("error"))
    BY <1>0, <1>2 DEF Refuse, Running, Free, NewRequest, Outcomes
  <2>4. CASE UpdateVenueLoadEvents(w)
    BY <1>0, <2>1, <2>2, <2>4 DEF UpdateVenueLoadEvents, At, StepOK, Request
  <2>5. CASE UpdateEventStatusLoadVenue(w)
    BY <1>0, <2>1, <2>2, <2>3, <2>5 DEF UpdateEventStatusLoadVenue, At, StepOK, Request
  <2>6. CASE UpdateEventLoadVenue(w)
    BY <1>0, <2>1, <2>2, <2>3, <2>6 DEF UpdateEventLoadVenue, At, StepOK, Request
  <2>7. CASE LoadVotes(w)
    <3>1. req[w].step = "load_votes" /\ req'[w].step \in {"load_votes", "commit"}
      BY <1>0, <2>1, <2>7 DEF LoadVotes, Request
    <3> QED
      BY <2>1, <2>2, <3>1 DEF StepOK, Running, Outcomes
  <2>8. CASE CastVoteLoadExisting(w)
    BY <1>0, <2>1, <2>2, <2>3, <2>8 DEF CastVoteLoadExisting, At, StepOK, Request
  <2>9. CASE DeleteVoteLoadEvent(w)
    BY <1>0, <2>1, <2>2, <2>3, <2>9 DEF DeleteVoteLoadEvent, At, StepOK, Request
  <2> QED
    BY <2>2, <2>4, <2>5, <2>6, <2>7, <2>8, <2>9
<1>3. \A w \in Workers : ~ Running(req'[w]) => StepOK(req'[w])
  BY DEF StepOK
<1>4. CASE \A w \in Workers : req'[w] = req[w] \/ req'[w] = Free("idle")
  BY <1>4 DEF StepsOK, StepOK, Running, Free, NewRequest, Outcomes
<1>5. ASSUME NEW w \in Workers,
             Receive(w) \/ Execute(w) \/ Respond(w) \/ DatabaseLocked(w),
             \A u \in Workers : u # w => req'[u] = req[u]
      PROVE  StepsOK'
  BY <1>1, <1>2, <1>3, <1>5 DEF StepsOK
<1> QED
  BY <1>4, <1>5, WhoActs

(* What the reasoning about overlaps starts from                           *)
RInv == IInv /\ StepsOK

LEMMA RunningInvariance == Spec => []RInv
<1>1. Init => StepsOK
  BY DEF Init, StepsOK, StepOK, Running, Free, NewRequest, Outcomes
<1>2. IInv /\ StepsOK /\ [Next]_vars => StepsOK'
  BY NextStepsOK DEF IInv
<1>3. IInv /\ StepsOK => RInv
  BY DEF RInv
<1> QED
  BY <1>1, <1>2, <1>3, Invariance, PTL DEF Spec

-----------------------------------------------------------------------------
(* One vote per customer: only the overlap of two requests of the same     *)
(* customer for the same event breaks it.                                  *)

Casting(r) == Running(r) /\ r.op = "cast_vote"

(* No customer has two requests to vote on one event under way.            *)
VotersApart ==
    \A u, w \in Workers :
        u # w /\ Casting(req[u]) /\ Casting(req[w])
        => req[u].key # req[w].key \/ req[u].user # req[w].user

(* Who is about to vote has not voted.                                     *)
NoVoteYet(r) ==
    r.op = "cast_vote" /\ r.step = "commit"
    => \A v \in VotesOf(r.key) : votes[v].customer # r.user

VotersInv == OneVotePerCustomer /\ \A w \in Workers : NoVoteYet(req[w])

(* The other statements change the voter of no vote and add none.          *)
VotersKept ==
    /\ DOMAIN votes' \subseteq DOMAIN votes
    /\ \A v \in DOMAIN votes' : /\ votes'[v].event = votes[v].event
                                /\ votes'[v].customer = votes[v].customer

LEMMA OnlyCastingAdds ==
    ASSUME TypeOK, NEW w \in Workers,
           Receive(w) \/ Execute(w) \/ Respond(w) \/ DatabaseLocked(w)
    PROVE  CastVoteCommit(w) \/ VotersKept
<1>1. ASSUME votes' = votes PROVE VotersKept
  BY <1>1 DEF VotersKept
<1>2. ASSUME NEW vs, votes' = CloseBallots(vs) PROVE VotersKept
  BY <1>2 DEF VotersKept, CloseBallots, TypeOK, IsTable, Vote
<1>3. ASSUME NEW vs, votes' = Delete(votes, vs) PROVE VotersKept
  BY <1>3 DEF VotersKept, Delete, Restrict
<1>4. CASE UNCHANGED tables
  BY <1>1, <1>4 DEF tables
<1>5. CASE CreateVenueCommit(w) \/ CreateEventCommit(w) \/ UpdateEventCommit(w)
  BY <1>1, <1>5
  DEF CreateVenueCommit, CreateEventCommit, UpdateEventCommit, Rollback, Read
<1>6. CASE UpdateVenueCommit(w) \/ UpdateEventStatusCommit(w)
  BY <1>1, <1>2, <1>6
  DEF UpdateVenueCommit, UpdateEventStatusCommit, Rollback, Read
<1>7. CASE DeleteVenueCommit(w) \/ DeleteEventCommit(w) \/ DeleteVoteCommit(w)
  BY <1>1, <1>3, <1>7
  DEF DeleteVenueCommit, DeleteEventCommit, DeleteVoteCommit, DropEvents,
      Rollback, Read
<1> QED
  BY <1>4, <1>5, <1>6, <1>7, WhoWrites

(* A request that may vote still may after a statement of another worker,  *)
(* unless that is the vote of the same customer on the same event.         *)
LEMMA MayStillVote ==
    ASSUME VotersKept, NEW r, NoVoteYet(r)
    PROVE  NoVoteYet(r)'
  BY DEF VotersKept, NoVoteYet, VotesOf

(* The vote of r on its event                                              *)
LEMMA CastingKeepsVoters ==
    ASSUME TypeOK, VotersInv, VotersApart, NEW w \in Workers, CastVoteCommit(w)
    PROVE  /\ OneVotePerCustomer'
           /\ \A u \in Workers : u # w => NoVoteYet(req[u])'
<1>1. PICK r : r = req[w]
  OBVIOUS
<1>2. /\ r.op = "cast_vote" /\ r.step = "commit" /\ Casting(r)
      /\ \A v \in VotesOf(r.key) : votes[v].customer # r.user
  BY <1>1 DEF CastVoteCommit, At, Casting, Running, Outcomes, VotersInv, NoVoteYet
<1>3. ASSUME NEW u \in Workers, u # w
      PROVE  req'[u] = req[u]
  BY <1>3, OneActs DEF Execute, Becomes, TypeOK
<1>4. CASE Rollback(w)
  <2>1. VotersKept
    BY <1>4 DEF Rollback, Read, VotersKept
  <2>2. OneVotePerCustomer'
    BY <2>1 DEF VotersKept, VotersInv, OneVotePerCustomer
  <2>3. ASSUME NEW u \in Workers, u # w PROVE NoVoteYet(req[u])'
    <3>1. PICK q : q = req[u]
      OBVIOUS
    <3>2. NoVoteYet(q) /\ q = req'[u]
      BY <1>3, <2>3, <3>1 DEF VotersInv
    <3>3. NoVoteYet(q)'
      BY <2>1, <3>2, MayStillVote
    <3> QED
      BY <3>2, <3>3 DEF NoVoteYet, VotesOf
  <2> QED
    BY <2>2, <2>3
<1>5. CASE ~ Rollback(w)
  <2>1. PICK v \in VoteIds :
            /\ IsNextId(votes, v)
            /\ votes' = Insert(votes, v, [event |-> r.key, customer |-> r.user,
                                          status |-> "ballot_open"])
    BY <1>1, <1>5 DEF CastVoteCommit
  <2>2. v \notin DOMAIN votes
    BY <2>1, NextIdIsFree, BoundsAreNaturals DEF TypeOK, IsTable, VoteIds
  <2>3. /\ DOMAIN votes' = DOMAIN votes \cup {v}
        /\ votes'[v].event = r.key /\ votes'[v].customer = r.user
        /\ \A x \in DOMAIN votes : votes'[x] = votes[x]
    BY <2>1, <2>2 DEF Insert
  <2>4. OneVotePerCustomer'
    BY <1>2, <2>2, <2>3 DEF VotersInv, OneVotePerCustomer, VotesOf
  <2>5. ASSUME NEW u \in Workers, u # w PROVE NoVoteYet(req[u])'
    <3>1. PICK q : q = req[u]
      OBVIOUS
    <3>2. NoVoteYet(q) /\ q = req'[u]
      BY <1>3, <2>5, <3>1 DEF VotersInv
    <3>3. q.op = "cast_vote" /\ q.step = "commit"
          => q.key # r.key \/ q.user # r.user
      BY <1>1, <1>2, <2>5, <3>1 DEF VotersApart, Casting, Running, Outcomes
    <3>4. NoVoteYet(q)'
      BY <2>2, <2>3, <3>2, <3>3 DEF NoVoteYet, VotesOf
    <3> QED
      BY <3>2, <3>4 DEF NoVoteYet, VotesOf
  <2> QED
    BY <2>4, <2>5
<1> QED
  BY <1>4, <1>5

(* Every step                                                              *)
LEMMA NextVoters ==
    ASSUME TypeOK, StepsOK, VotersInv, VotersApart, [Next]_vars
    PROVE  VotersInv'
<1>1. ASSUME VotersKept PROVE OneVotePerCustomer'
  BY <1>1 DEF VotersKept, VotersInv, OneVotePerCustomer
<1>2. ASSUME NEW w \in Workers,
             Receive(w) \/ Execute(w) \/ Respond(w) \/ DatabaseLocked(w),
             \A u \in Workers : u # w => req'[u] = req[u]
      PROVE  VotersInv'
  <2>1. CASE CastVoteCommit(w)
    <3>1. ~ Running(req'[w])
      BY <2>1, RunningOn DEF Execute, CastVoteCommit, At
    <3>2. NoVoteYet(req[w])'
      BY <3>1 DEF NoVoteYet, Running, Outcomes
    <3> QED
      BY <2>1, <3>2, CastingKeepsVoters DEF VotersInv
  <2>2. CASE VotersKept
    <3>1. ASSUME NEW u \in Workers, u # w PROVE NoVoteYet(req[u])'
      <4>1. PICK q : q = req[u]
        OBVIOUS
      <4>2. NoVoteYet(q) /\ q = req'[u]
        BY <1>2, <3>1, <4>1 DEF VotersInv
      <4>3. NoVoteYet(q)'
        BY <2>2, <4>2, MayStillVote
      <4> QED
        BY <4>2, <4>3 DEF NoVoteYet, VotesOf
    <3>2. ASSUME req'[w].op = "cast_vote", req'[w].step = "commit"
          PROVE  NoVoteYet(req[w])'
      <4>1. Running(req'[w])
        BY <3>2 DEF Running, Outcomes
      <4>2. ~ Receive(w)
        <5>1. \A r : Becomes(w, r) => req'[w] = r
          BY DEF Becomes, TypeOK
        <5>2. ~ Refuse(w)
          BY <4>1, <5>1 DEF Refuse, Running, Free, NewRequest, Outcomes
        <5>3. CastVote(w) => req'[w].step = "load_existing"
          BY <5>1, <5>2 DEF CastVote, Call, NewRequest
        <5> QED
          BY <3>2, <4>1, <5>3, AcceptedOp
      <4>3. /\ \/ UpdateVenueLoadEvents(w) \/ UpdateEventStatusLoadVenue(w)
               \/ UpdateEventLoadVenue(w) \/ LoadVotes(w)
               \/ CastVoteLoadExisting(w) \/ DeleteVoteLoadEvent(w)
            /\ UNCHANGED tables
            /\ req'[w].op = req[w].op /\ req'[w].key = req[w].key
            /\ req'[w].user = req[w].user
        BY <1>2, <4>1, <4>2, RunningOn
      <4>4. req[w].op = "cast_vote" /\ req[w].step # "load_votes"
        BY <3>2, <4>3 DEF StepsOK, StepOK, Running, Outcomes
      <4>5. CastVoteLoadExisting(w)
        BY <4>3, <4>4
        DEF UpdateVenueLoadEvents, UpdateEventStatusLoadVenue,
            UpdateEventLoadVenue, LoadVotes, DeleteVoteLoadEvent, At
      <4>6. \A v \in VotesOf(req[w].key) : votes[v].customer # req[w].user
        <5>1. ~ Refuse(w)
          BY <4>1 DEF Refuse, Becomes, TypeOK, Running, Free, NewRequest, Outcomes
        <5> QED
          BY <4>5, <5>1 DEF CastVoteLoadExisting
      <4> QED
        BY <4>3, <4>6 DEF NoVoteYet, VotesOf, tables
    <3>3. NoVoteYet(req[w])'
      BY <3>2 DEF NoVoteYet
    <3> QED
      BY <1>1, <2>2, <3>1, <3>3 DEF VotersInv
  <2> QED
    BY <1>2, <2>1, <2>2, OnlyCastingAdds
<1>3. CASE UNCHANGED tables /\ \A w \in Workers : req'[w] = Free("idle")
  BY <1>1, <1>3 DEF tables, VotersInv, VotersKept, NoVoteYet, Free, NewRequest
<1>4. CASE UNCHANGED <<tables, req>>
  BY <1>4 DEF tables, VotersInv, OneVotePerCustomer, NoVoteYet, VotesOf
<1> QED
  BY <1>2, <1>3, <1>4, WhoActs

(* A customer votes once on an event, whatever else overlaps, as long as   *)
(* the customer's own requests to vote there do not (cast_vote looks for a *)
(* vote of the customer in one statement and inserts one in the next).     *)
THEOREM OneVoteIfVotersApart == Spec => ([]VotersApart => []OneVotePerCustomer)
<1>1. Init => VotersInv
  BY DEF Init, VotersInv, OneVotePerCustomer, NoVoteYet, Free, NewRequest
<1>2. RInv /\ VotersInv /\ VotersApart /\ [Next]_vars => VotersInv'
  BY NextVoters DEF RInv, IInv
<1>3. VotersInv => OneVotePerCustomer
  BY DEF VotersInv
<1> QED
  BY <1>1, <1>2, <1>3, RunningInvariance, PTL DEF Spec

-----------------------------------------------------------------------------
(* A rejection stands: only the overlap of a decision on an event with     *)
(* another request that settles that event takes one back.                 *)

IsPending(e) == e \in DOMAIN events /\ events[e].status = "pending"

Deciding(r) == Running(r) /\ r.op = "update_event_status"

(* The next statement of r decides event e or deletes it.                  *)
Settles(r, e) ==
    /\ r.step = "commit"
    /\ \/ r.op \in {"update_event_status", "update_venue"} /\ e \in r.evs
       \/ r.op = "delete_event" /\ r.key = e
       \/ r.op = "delete_venue" /\ e \in EventsAt(r.key)

(* No event is settled while another request is deciding it.               *)
DecisionsApart ==
    \A u, w \in Workers :
        u # w /\ Deciding(req[u]) => ~ Settles(req[w], req[u].key)

(* Who decides an event found it pending, and so it still is.              *)
DecidingOK(r) ==
    Deciding(r) => /\ IsPending(r.key)
                   /\ r.step # "load_venue" => r.evs = {r.key}

DecidersInv == \A w \in Workers : DecidingOK(req[w])

(* A commit leaves every event that it does not settle as it is, and what  *)
(* it settles, other than by a decision, it rejects or deletes.            *)
LEMMA OnlySettlingDecides ==
    ASSUME TypeOK, NEW w \in Workers, NEW e \in DOMAIN events,
           Receive(w) \/ Execute(w) \/ Respond(w) \/ DatabaseLocked(w)
    PROVE  /\ ~ Settles(req[w], e)
              => e \in DOMAIN events' /\ events'[e].status = events[e].status
           /\ DecidingOK(req[w]) /\ e \in DOMAIN events'
              => \/ events'[e].status \in {events[e].status, "rejected"}
                 \/ IsPending(e)
<1> DEFINE Kept == e \in DOMAIN events' /\ events'[e].status = events[e].status
<1>0. events[e] \in Event /\ events \in [DOMAIN events -> Event]
  BY DEF TypeOK, IsTable
<1>1. CASE events' = events
  BY <1>1
<1>2. ASSUME NEW k, NEW n, events' = [events EXCEPT ![k].vote_count = n]
      PROVE  Kept
  BY <1>0, <1>2 DEF Event
<1>3. ASSUME NEW es, NEW s, events' = SetStatus(es, s)
      PROVE  /\ e \in DOMAIN events'
             /\ events'[e].status = IF e \in es THEN s ELSE events[e].status
  BY <1>0, <1>3 DEF SetStatus, Event
<1>4. ASSUME NEW es, events' = Delete(events, es)
      PROVE  /\ e \notin es => Kept
             /\ e \in DOMAIN events' => Kept
  BY <1>4 DEF Delete, Restrict
<1>5. CASE UpdateVenueCommit(w)
  <2>1. CASE Rollback(w)
    BY <1>1, <2>1 DEF Rollback, Read
  <2>2. CASE events' = SetStatus(req[w].evs, "rejected")
    BY <1>3, <1>5, <2>2 DEF UpdateVenueCommit, At, Settles
  <2> QED
    BY <1>5, <2>1, <2>2 DEF UpdateVenueCommit
<1>6. CASE DeleteVenueCommit(w) \/ DeleteEventCommit(w)
  BY <1>4, <1>6 DEF DeleteVenueCommit, DeleteEventCommit, DropEvents, At, Settles
<1>7. CASE UpdateEventStatusCommit(w)
  <2>1. CASE Rollback(w)
    BY <1>1, <2>1 DEF Rollback, Read
  <2>2. CASE events' = SetStatus(req[w].evs, req[w].status)
    <3>1. DecidingOK(req[w]) => req[w].evs = {req[w].key} /\ IsPending(req[w].key)
      BY <1>7 DEF UpdateEventStatusCommit, At, DecidingOK, Deciding, Running, Outcomes
    <3> QED
      BY <1>3, <1>7, <2>2, <3>1 DEF UpdateEventStatusCommit, At, Settles
  <2> QED
    BY <1>7, <2>1, <2>2 DEF UpdateEventStatusCommit
<1>8. CASE CreateEventCommit(w)
  <2>1. CASE Rollback(w)
    BY <1>1, <2>1 DEF Rollback, Read
  <2>2. ASSUME NEW k \in EventIds, IsNextId(events, k), NEW row,
               events' = Insert(events, k, row)
        PROVE  Kept
    <3>1. k \notin DOMAIN events
      BY <2>2, NextIdIsFree, BoundsAreNaturals DEF TypeOK, IsTable, EventIds
    <3> QED
      BY <2>2, <3>1 DEF Insert
  <2> QED
    BY <1>8, <2>1, <2>2 DEF CreateEventCommit
<1>9. CASE UpdateEventCommit(w)
  <2>1. CASE Rollback(w)
    BY <1>1, <2>1 DEF Rollback, Read
  <2>2. CASE ~ Rollback(w)
    <3> DEFINE d == IF req[w].date = None THEN events[e].date ELSE req[w].date
               v == IF req[w].venue = None THEN events[e].venue ELSE req[w].venue
    <3>1. /\ e \in DOMAIN events'
          /\ events'[e] = IF e # req[w].key THEN events[e]
                          ELSE [events[e] EXCEPT !.date = d, !.venue = v]
      BY <1>9, <2>2 DEF UpdateEventCommit
    <3> HIDE DEF d, v
    <3> QED
      BY <1>0, <3>1 DEF Event
  <2> QED
    BY <2>1, <2>2
<1>10. CASE CastVoteCommit(w) \/ DeleteVoteCommit(w)
  BY <1>1, <1>2, <1>10 DEF CastVoteCommit, DeleteVoteCommit, Rollback, Read
<1>11. CASE CreateVenueCommit(w) \/ UNCHANGED tables
  BY <1>1, <1>11 DEF CreateVenueCommit, tables
<1> QED
  BY <1>5, <1>6, <1>7, <1>8, <1>9, <1>10, <1>11, WhoWrites

(* An endpoint takes on a decision of a pending event, and the statements  *)
(* up to the commit change that event only.                                *)
LEMMA DeciderGoesOn ==
    ASSUME TypeOK, StepsOK, NEW w \in Workers, DecidingOK(req[w]), Deciding(req'[w]),
           Receive(w) \/ Execute(w) \/ Respond(w) \/ DatabaseLocked(w)
    PROVE  DecidingOK(req[w])'
<1>0. \A r : Becomes(w, r) => req'[w] = r
  BY DEF Becomes, TypeOK
<1>1. Running(req'[w]) /\ req'[w].op = "update_event_status"
  BY DEF Deciding
<1>2. ~ Refuse(w)
  BY <1>0, <1>1 DEF Refuse, Running, Free, NewRequest, Outcomes
<1>3. CASE Receive(w)
  <2>1. UpdateEventStatus(w)
    BY <1>1, <1>3, AcceptedOp
  <2>2. PICK e \in EventIds : /\ IsPending(e)
                              /\ req'[w].key = e /\ req'[w].step = "load_venue"
    BY <1>0, <1>2, <2>1 DEF UpdateEventStatus, IsPending, Call, NewRequest
  <2>3. events' = events
    BY <2>1 DEF UpdateEventStatus, Read
  <2> QED
    BY <2>2, <2>3 DEF DecidingOK, IsPending
<1>4. CASE Execute(w) \/ Respond(w) \/ DatabaseLocked(w)
  <2>1. /\ \/ UpdateVenueLoadEvents(w) \/ UpdateEventStatusLoadVenue(w)
           \/ UpdateEventLoadVenue(w) \/ LoadVotes(w)
           \/ CastVoteLoadExisting(w) \/ DeleteVoteLoadEvent(w)
        /\ UNCHANGED tables
        /\ req'[w].op = req[w].op /\ req'[w].key = req[w].key
    BY <1>1, <1>4, RunningOn
  <2>2. UpdateEventStatusLoadVenue(w) \/ LoadVotes(w)
    BY <1>1, <2>1
    DEF UpdateVenueLoadEvents, UpdateEventLoadVenue, CastVoteLoadExisting,
        DeleteVoteLoadEvent, At
  <2>3. Deciding(req[w])
    BY <1>1, <2>1, <2>2
    DEF Deciding, Running, Outcomes, UpdateEventStatusLoadVenue, At, LoadVotes
  <2>4. req[w] \in Request /\ IsPending(req[w].key)
    BY <2>3 DEF TypeOK, DecidingOK
  <2>5. req'[w].evs = {req'[w].key}
    <3>1. CASE UpdateEventStatusLoadVenue(w)
      BY <1>0, <1>2, <2>4, <3>1 DEF UpdateEventStatusLoadVenue, Request
    <3>2. CASE LoadVotes(w)
      <4>1. req[w].evs = {req[w].key}
        BY <2>3, <3>2 DEF LoadVotes, DecidingOK
      <4> QED
        BY <1>0, <2>1, <2>4, <3>2, <4>1 DEF LoadVotes, Request
    <3> QED
      BY <2>2, <3>1, <3>2
  <2> QED
    BY <2>1, <2>4, <2>5 DEF DecidingOK, IsPending, tables
<1> QED
  BY <1>3, <1>4

LEMMA NextDeciders ==
    ASSUME TypeOK, StepsOK, DecidersInv, DecisionsApart, [Next]_vars
    PROVE  DecidersInv'
<1>1. ASSUME NEW w \in Workers,
             Receive(w) \/ Execute(w) \/ Respond(w) \/ DatabaseLocked(w),
             \A u \in Workers : u # w => req'[u] = req[u]
      PROVE  DecidersInv'
  <2>1. ASSUME NEW u \in Workers, u # w PROVE DecidingOK(req[u])'
    <3>1. PICK q : q = req[u]
      OBVIOUS
    <3>2. DecidingOK(q) /\ q = req'[u]
      BY <1>1, <2>1, <3>1 DEF DecidersInv
    <3>3. Deciding(q) => IsPending(q.key)'
      <4>1. Deciding(q) => q.key \in DOMAIN events /\ ~ Settles(req[w], q.key)
        BY <2>1, <3>1, <3>2 DEF DecisionsApart, DecidingOK, IsPending
      <4> QED
        BY <1>1, <3>2, <4>1, OnlySettlingDecides DEF DecidersInv, DecidingOK, IsPending
    <3> QED
      BY <3>2, <3>3 DEF DecidingOK, IsPending
  <2>2. DecidingOK(req[w])'
    BY <1>1, DeciderGoesOn DEF DecidersInv, DecidingOK
  <2> QED
    BY <2>1, <2>2 DEF DecidersInv
<1>2. CASE UNCHANGED tables /\ \A w \in Workers : req'[w] = Free("idle")
  BY <1>2 DEF DecidersInv, DecidingOK, Deciding, Running, Free, NewRequest, Outcomes
<1>3. CASE UNCHANGED <<tables, req>>
  BY <1>3 DEF tables, DecidersInv, DecidingOK, IsPending
<1> QED
  BY <1>1, <1>2, <1>3, WhoActs

LEMMA NextRejected ==
    ASSUME TypeOK, DecidersInv, [Next]_vars
    PROVE  [RejectedStays]_events
<1>1. ASSUME NEW w \in Workers,
             Receive(w) \/ Execute(w) \/ Respond(w) \/ DatabaseLocked(w)
      PROVE  RejectedStays
  <2>1. ASSUME NEW e \in DOMAIN events, e \in DOMAIN events',
               events[e].status = "rejected"
        PROVE  events'[e].status = "rejected"
    BY <1>1, <2>1, OnlySettlingDecides DEF DecidersInv, IsPending
  <2> QED
    BY <2>1 DEF RejectedStays
<1> QED
  BY <1>1, WhoActs DEF tables

(* A rejected event stays rejected, whatever else overlaps, as long as     *)
(* nobody else settles an event that a manager is deciding                 *)
(* (update_event_status looks at the status when it loads the event and    *)
(* writes its decision three statements later).                            *)
THEOREM RejectedIfDecisionsApart == Spec => ([]DecisionsApart => RejectedIsTerminal)
<1>1. Init => DecidersInv
  BY DEF Init, DecidersInv, DecidingOK, Deciding, Running, Free, NewRequest, Outcomes
<1>2. RInv /\ DecidersInv /\ DecisionsApart /\ [Next]_vars => DecidersInv'
  BY NextDeciders DEF RInv, IInv
<1>3. RInv /\ DecidersInv /\ [Next]_vars => [RejectedStays]_events
  BY NextRejected DEF RInv, IInv
<1> QED
  BY <1>1, <1>2, <1>3, RunningInvariance, PTL DEF Spec, RejectedIsTerminal

-----------------------------------------------------------------------------
(* The counter of an event: only the overlap of two requests that add or   *)
(* delete votes of the same event, or the event itself, spoils it.         *)

Retracting(r) == Running(r) /\ r.op = "delete_vote"

Dropping(r) == Running(r) /\ r.op = "delete_event"

(* Request r adds or deletes a vote of event e, or deletes e.              *)
Tallies(r, e) ==
    \/ Casting(r) /\ r.key = e
    \/ Retracting(r) /\ r.ref = e
    \/ Dropping(r) /\ r.key = e
    \/ r.op = "delete_venue" /\ r.step = "commit" /\ e \in EventsAt(r.key)

(* No two requests tally one event.                                        *)
CountersApart ==
    \A u, w \in Workers : u # w =>
        \A e \in DOMAIN events : ~ (Tallies(req[u], e) /\ Tallies(req[w], e))

(* The count that a request has loaded is still the stored one, and the    *)
(* votes that it has loaded are still votes of its event.                  *)
TallyOK(r) ==
    /\ Casting(r) => r.key \in DOMAIN events /\ r.count = events[r.key].vote_count
    /\ Retracting(r) =>
            /\ r.key \in DOMAIN votes /\ r.ref = votes[r.key].event
            /\ r.step = "commit" => r.count = events[r.ref].vote_count
    /\ Dropping(r) =>
            /\ r.key \in DOMAIN events
            /\ r.vts \subseteq VotesOf(r.key) /\ r.todo \subseteq {r.key}

TalliesInv == VoteCountExact /\ \A w \in Workers : TallyOK(req[w])

(* A commit leaves the counter and the votes of an event that it does not  *)
(* tally as they are.                                                      *)
LEMMA OnlyTalliersCount ==
    ASSUME TypeOK, NEW w \in Workers, TallyOK(req[w]), NEW e \in DOMAIN events,
           ~ Tallies(req[w], e),
           Receive(w) \/ Execute(w) \/ Respond(w) \/ DatabaseLocked(w)
    PROVE  /\ e \in DOMAIN events'
           /\ events'[e].vote_count = events[e].vote_count
           /\ VotesOf(e)' = VotesOf(e)
<1>0. /\ events[e] \in Event /\ events \in [DOMAIN events -> Event]
      /\ votes \in [DOMAIN votes -> Vote]
  BY DEF TypeOK, IsTable
<1>1. CASE events' = events /\ votes' = votes
  BY <1>1 DEF VotesOf
<1>2. ASSUME NEW es, NEW s, events' = SetStatus(es, s)
      PROVE  e \in DOMAIN events' /\ events'[e].vote_count = events[e].vote_count
  BY <1>0, <1>2 DEF SetStatus, Event
<1>3. ASSUME NEW vs, votes' = CloseBallots(vs) PROVE VotesOf(e)' = VotesOf(e)
  BY <1>0, <1>3 DEF CloseBallots, VotesOf, Vote
<1>4. ASSUME NEW es, e \notin es, NEW vs, vs \cap VotesOf(e) = {}, DropEvents(es, vs)
      PROVE  /\ e \in DOMAIN events' /\ events'[e] = events[e]
             /\ VotesOf(e)' = VotesOf(e)
  BY <1>4 DEF DropEvents, Delete, Restrict, VotesOf
<1>5. CASE UpdateVenueCommit(w) \/ UpdateEventStatusCommit(w)
  BY <1>1, <1>2, <1>3, <1>5
  DEF UpdateVenueCommit, UpdateEventStatusCommit, Rollback, Read
<1>6. CASE DeleteVenueCommit(w)
  BY <1>4, <1>6 DEF DeleteVenueCommit, At, Tallies
<1>7. CASE DeleteEventCommit(w)
  <2>1. Dropping(req[w])
    BY <1>7 DEF DeleteEventCommit, At, Dropping, Running, Outcomes
  <2>2. e # req[w].key /\ req[w].vts \cap VotesOf(e) = {}
    BY <2>1 DEF Tallies, TallyOK, VotesOf
  <2> QED
    BY <1>4, <1>7, <2>2 DEF DeleteEventCommit
<1>8. CASE CreateEventCommit(w)
  <2>1. CASE Rollback(w)
    BY <1>1, <2>1 DEF Rollback, Read
  <2>2. ASSUME NEW k \in EventIds, IsNextId(events, k), NEW row,
               events' = Insert(events, k, row)
        PROVE  e \in DOMAIN events' /\ events'[e] = events[e]
    <3>1. k \notin DOMAIN events
      BY <2>2, NextIdIsFree, BoundsAreNaturals DEF TypeOK, IsTable, EventIds
    <3> QED
      BY <2>2, <3>1 DEF Insert
  <2>3. votes' = votes
    BY <1>8 DEF CreateEventCommit, Rollback, Read
  <2> QED
    BY <1>8, <2>1, <2>2, <2>3 DEF CreateEventCommit, VotesOf
<1>9. CASE UpdateEventCommit(w)
  <2>1. CASE Rollback(w)
    BY <1>1, <2>1 DEF Rollback, Read
  <2>2. CASE ~ Rollback(w)
    <3> DEFINE d == IF req[w].date = None THEN events[e].date ELSE req[w].date
               v == IF req[w].venue = None THEN events[e].venue ELSE req[w].venue
    <3>1. /\ e \in DOMAIN events' /\ votes' = votes
          /\ events'[e] = IF e # req[w].key THEN events[e]
                          ELSE [events[e] EXCEPT !.date = d, !.venue = v]
      BY <1>9, <2>2 DEF UpdateEventCommit
    <3> HIDE DEF d, v
    <3> QED
      BY <1>0, <3>1 DEF Event, VotesOf
  <2> QED
    BY <2>1, <2>2
<1>10. CASE CastVoteCommit(w)
  <2>1. CASE Rollback(w)
    BY <1>1, <2>1 DEF Rollback, Read
  <2>2. CASE ~ Rollback(w)
    <3>1. PICK k : k = req[w].key
      OBVIOUS
    <3>2. PICK v \in VoteIds :
              /\ IsNextId(votes, v)
              /\ votes' = Insert(votes, v, [event |-> k, customer |-> req[w].user,
                                            status |-> "ballot_open"])
              /\ events' = [events EXCEPT ![k].vote_count = req[w].count + 1]
      BY <1>10, <2>2, <3>1 DEF CastVoteCommit
    <3>3. k # e
      BY <1>10, <3>1 DEF CastVoteCommit, At, Tallies, Casting, Running, Outcomes
    <3>4. v \notin DOMAIN votes
      BY <3>2, NextIdIsFree, BoundsAreNaturals DEF TypeOK, IsTable, VoteIds
    <3> QED
      BY <1>0, <3>2, <3>3, <3>4 DEF Insert, VotesOf
  <2> QED
    BY <2>1, <2>2
<1>11. CASE DeleteVoteCommit(w)
  <2>1. CASE Rollback(w)
    BY <1>1, <2>1 DEF Rollback, Read
  <2>2. CASE ~ Rollback(w)
    <3>1. Retracting(req[w])
      BY <1>11 DEF DeleteVoteCommit, At, Retracting, Running, Outcomes
    <3>2. req[w].ref # e /\ req[w].key \notin VotesOf(e)
      BY <3>1 DEF Tallies, TallyOK, VotesOf
    <3>3. /\ votes' = Delete(votes, {req[w].key})
          /\ events' = [events EXCEPT ![req[w].ref].vote_count = req[w].count - 1]
      BY <1>11, <2>2 DEF DeleteVoteCommit
    <3> QED
      BY <1>0, <3>2, <3>3 DEF Delete, Restrict, VotesOf
  <2> QED
    BY <2>1, <2>2
<1>12. CASE CreateVenueCommit(w) \/ UNCHANGED tables
  BY <1>1, <1>12 DEF CreateVenueCommit, tables
<1> QED
  BY <1>5, <1>6, <1>7, <1>8, <1>9, <1>10, <1>11, <1>12, WhoWrites

(* The event that a request does tally keeps an exact counter.             *)
LEMMA TallierCounts ==
    ASSUME TypeOK, VoteCountExact, NEW w \in Workers, TallyOK(req[w]),
           NEW e \in DOMAIN events, Tallies(req[w], e), e \in DOMAIN events',
           Receive(w) \/ Execute(w) \/ Respond(w) \/ DatabaseLocked(w)
    PROVE  events'[e].vote_count = Cardinality(VotesOf(e)')
<1>0. /\ events[e] \in Event /\ events \in [DOMAIN events -> Event]
      /\ events[e].vote_count = Cardinality(VotesOf(e))
  BY DEF TypeOK, IsTable, VoteCountExact
<1>1. CASE UNCHANGED tables
  BY <1>0, <1>1 DEF tables, VotesOf
<1>2. CASE Rollback(w)
  BY <1>0, <1>2 DEF Rollback, Read, VotesOf
<1>3. CASE CastVoteCommit(w) /\ ~ Rollback(w)
  <2>1. PICK k : k = req[w].key
    OBVIOUS
  <2>2. Casting(req[w]) /\ k = e /\ req[w].count = events[e].vote_count
    BY <1>3, <2>1
    DEF CastVoteCommit, At, Casting, Retracting, Dropping, Running, Outcomes,
        Tallies, TallyOK
  <2>3. PICK v \in VoteIds :
            /\ IsNextId(votes, v)
            /\ votes' = Insert(votes, v, [event |-> e, customer |-> req[w].user,
                                          status |-> "ballot_open"])
            /\ events' = [events EXCEPT ![e].vote_count = events[e].vote_count + 1]
    BY <1>3, <2>1, <2>2 DEF CastVoteCommit
  <2>4. v \notin DOMAIN votes
    BY <2>3, NextIdIsFree, BoundsAreNaturals DEF TypeOK, IsTable, VoteIds
  <2>5. VotesOf(e)' = VotesOf(e) \cup {v} /\ v \notin VotesOf(e)
    BY <2>3, <2>4 DEF Insert, VotesOf
  <2>6. Cardinality(VotesOf(e)') = Cardinality(VotesOf(e)) + 1
    BY <2>5, VotesAreFinite, FS_AddElement
  <2>7. events'[e].vote_count = events[e].vote_count + 1
    BY <1>0, <2>3 DEF Event
  <2> QED
    BY <1>0, <2>6, <2>7
<1>4. CASE DeleteVoteCommit(w) /\ ~ Rollback(w)
  <2>1. PICK v : v = req[w].key
    OBVIOUS
  <2>2. /\ req[w].ref = e /\ req[w].count = events[e].vote_count
        /\ v \in VotesOf(e)
    BY <1>4, <2>1
    DEF DeleteVoteCommit, At, Casting, Retracting, Dropping, Running, Outcomes,
        Tallies, TallyOK, VotesOf
  <2>3. /\ votes' = Delete(votes, {v})
        /\ events' = [events EXCEPT ![e].vote_count = events[e].vote_count - 1]
    BY <1>4, <2>1, <2>2 DEF DeleteVoteCommit
  <2>4. VotesOf(e)' = VotesOf(e) \ {v}
    BY <2>3 DEF Delete, Restrict, VotesOf
  <2>5. Cardinality(VotesOf(e)') = Cardinality(VotesOf(e)) - 1
    BY <2>2, <2>4, VotesAreFinite, FS_RemoveElement
  <2>6. events'[e].vote_count = events[e].vote_count - 1
    BY <1>0, <2>3 DEF Event
  <2> QED
    BY <1>0, <2>5, <2>6
<1>5. ~ DeleteVenueCommit(w) /\ ~ DeleteEventCommit(w)
  <2>1. DeleteVenueCommit(w) => e \in EventsAt(req[w].key)
    BY DEF DeleteVenueCommit, At, Casting, Retracting, Dropping, Tallies
  <2>2. DeleteEventCommit(w) => e = req[w].key
    BY DEF DeleteEventCommit, At, Casting, Retracting, Dropping, Tallies
  <2> QED
    BY <2>1, <2>2 DEF DeleteVenueCommit, DeleteEventCommit, DropEvents, Delete, Restrict
<1>6. /\ ~ CreateVenueCommit(w) /\ ~ UpdateVenueCommit(w) /\ ~ CreateEventCommit(w)
      /\ ~ UpdateEventStatusCommit(w) /\ ~ UpdateEventCommit(w)
  BY DEF CreateVenueCommit, UpdateVenueCommit, CreateEventCommit,
         UpdateEventStatusCommit, UpdateEventCommit, At,
         Casting, Retracting, Dropping, Tallies
<1> QED
  BY <1>1, <1>2, <1>3, <1>4, <1>5, <1>6, WhoWrites

(* A new event has no votes and its counter is zero.                       *)
LEMMA NewEventCounts ==
    ASSUME IInv, NEW w \in Workers, NEW e \in DOMAIN events', e \notin DOMAIN events,
           Receive(w) \/ Execute(w) \/ Respond(w) \/ DatabaseLocked(w)
    PROVE  events'[e].vote_count = Cardinality(VotesOf(e)') /\ VotesOf(e)' = {}
<1>0. TypeOK
  BY DEF IInv
<1>1. CreateEventCommit(w) /\ ~ Rollback(w)
  <2>1. \A es : DOMAIN Delete(events, es) \subseteq DOMAIN events
    BY DEF Delete, Restrict
  <2>2. \A es, s : DOMAIN SetStatus(es, s) = DOMAIN events
    BY DEF SetStatus
  <2> QED
    BY <2>1, <2>2, WhoWrites
    DEF CreateVenueCommit, UpdateVenueCommit, DeleteVenueCommit,
        UpdateEventStatusCommit, UpdateEventCommit, DeleteEventCommit,
        CastVoteCommit, DeleteVoteCommit, DropEvents, Rollback, Read, tables
<1>2. events'[e].vote_count = 0 /\ votes' = votes
  <2>1. PICK k \in EventIds :
            events' = Insert(events, k,
                        [status |-> req[w].status, date |-> req[w].date,
                         venue |-> req[w].venue, customer |-> req[w].user,
                         vote_count |-> 0])
    BY <1>1 DEF CreateEventCommit
  <2>2. e = k
    BY <2>1 DEF Insert
  <2> QED
    BY <1>1, <2>1, <2>2 DEF CreateEventCommit, Insert
<1>3. VotesOf(e)' = {}
  BY <1>2 DEF IInv, ReferentialIntegrity, VotesOf
<1> QED
  BY <1>2, <1>3, FS_EmptySet

(* A request that tallies has loaded what the tables say.                  *)
LEMMA TallierGoesOn ==
    ASSUME TypeOK, StepsOK, NEW w \in Workers, TallyOK(req[w]), Running(req'[w]),
           Receive(w) \/ Execute(w) \/ Respond(w) \/ DatabaseLocked(w)
    PROVE  TallyOK(req[w])'
<1>0. \A r : Becomes(w, r) => req'[w] = r
  BY DEF Becomes, TypeOK
<1>1. ~ Refuse(w)
  BY <1>0 DEF Refuse, Running, Free, NewRequest, Outcomes
<1>2. CASE Receive(w)
  <2>1. ASSUME req'[w].op = "cast_vote"
        PROVE  /\ req'[w].key \in DOMAIN events'
               /\ req'[w].count = events'[req'[w].key].vote_count
    <3>1. CastVote(w)
      BY <1>2, <2>1, AcceptedOp
    <3> QED
      BY <1>0, <1>1, <3>1 DEF CastVote, Read, Call, NewRequest
  <2>2. ASSUME req'[w].op = "delete_vote"
        PROVE  /\ req'[w].key \in DOMAIN votes'
               /\ req'[w].ref = votes'[req'[w].key].event
               /\ req'[w].step # "commit"
    <3>1. DeleteVote(w)
      BY <1>2, <2>2, AcceptedOp
    <3> QED
      BY <1>0, <1>1, <3>1 DEF DeleteVote, Read, Call, NewRequest
  <2>3. ASSUME req'[w].op = "delete_event"
        PROVE  /\ req'[w].key \in DOMAIN events'
               /\ req'[w].vts = {} /\ req'[w].todo = {req'[w].key}
    <3>1. DeleteEvent(w)
      BY <1>2, <2>3, AcceptedOp
    <3> QED
      BY <1>0, <1>1, <3>1 DEF DeleteEvent, Read, Call, NewRequest
  <2> QED
    BY <2>1, <2>2, <2>3 DEF TallyOK, Casting, Retracting, Dropping
<1>3. CASE Execute(w) \/ Respond(w) \/ DatabaseLocked(w)
  <2>1. /\ \/ UpdateVenueLoadEvents(w) \/ UpdateEventStatusLoadVenue(w)
           \/ UpdateEventLoadVenue(w) \/ LoadVotes(w)
           \/ CastVoteLoadExisting(w) \/ DeleteVoteLoadEvent(w)
        /\ UNCHANGED tables
        /\ req'[w].op = req[w].op /\ req'[w].key = req[w].key
        /\ req'[w].ref = req[w].ref
    BY <1>3, RunningOn
  <2>2. req[w] \in Request /\ Running(req[w]) /\ StepOK(req[w])
    BY <2>1
    DEF TypeOK, StepsOK, Running, Outcomes, UpdateVenueLoadEvents,
        UpdateEventStatusLoadVenue, UpdateEventLoadVenue, LoadVotes,
        CastVoteLoadExisting, DeleteVoteLoadEvent, At
  <2>3. events' = events /\ votes' = votes
    BY <2>1 DEF tables
  <2>4. CASE req[w].op = "cast_vote"
    <3>1. CastVoteLoadExisting(w)
      BY <2>1, <2>2, <2>4
      DEF StepOK, UpdateVenueLoadEvents, UpdateEventStatusLoadVenue,
          UpdateEventLoadVenue, LoadVotes, DeleteVoteLoadEvent, At
    <3>2. req'[w].count = req[w].count
      BY <1>0, <1>1, <2>2, <3>1 DEF CastVoteLoadExisting, Request
    <3> QED
      BY <2>1, <2>2, <2>3, <2>4, <3>2 DEF TallyOK, Casting, Retracting, Dropping
  <2>5. CASE req[w].op = "delete_vote"
    <3>1. DeleteVoteLoadEvent(w)
      BY <2>1, <2>2, <2>5
      DEF StepOK, UpdateVenueLoadEvents, UpdateEventStatusLoadVenue,
          UpdateEventLoadVenue, LoadVotes, CastVoteLoadExisting, At
    <3>2. ~ Becomes(w, Free("error"))
      BY <1>0 DEF Running, Free, NewRequest, Outcomes
    <3>3. req'[w].count = events[req[w].ref].vote_count
      BY <1>0, <1>1, <2>2, <3>1, <3>2 DEF DeleteVoteLoadEvent, Request
    <3> QED
      BY <2>1, <2>2, <2>3, <2>5, <3>3 DEF TallyOK, Casting, Retracting, Dropping
  <2>6. CASE req[w].op = "delete_event"
    <3>1. LoadVotes(w)
      BY <2>1, <2>2, <2>6
      DEF StepOK, UpdateVenueLoadEvents, UpdateEventStatusLoadVenue,
          UpdateEventLoadVenue, CastVoteLoadExisting, DeleteVoteLoadEvent, At
    <3>2. /\ req[w].key \in DOMAIN events
          /\ req[w].vts \subseteq VotesOf(req[w].key)
          /\ req[w].todo \subseteq {req[w].key}
      BY <2>2, <2>6 DEF TallyOK, Dropping
    <3>3. PICK e \in req[w].todo :
            LET found == {v \in VotesOf(e) : \/ req[w].op = "delete_event"
                                             \/ votes[v].status = "ballot_open"}
                left  == req[w].todo \ {e}
            IN Becomes(w, [req[w] EXCEPT !.vts = @ \cup found, !.todo = left,
                              !.step = IF left = {} THEN "commit" ELSE "load_votes"])
      BY <3>1 DEF LoadVotes
    <3>4. /\ req'[w].vts \subseteq req[w].vts \cup VotesOf(e)
          /\ req'[w].todo = req[w].todo \ {e}
      BY <1>0, <2>2, <3>3 DEF Request
    <3>5. e = req[w].key
      BY <3>2
    <3> QED
      BY <2>1, <2>3, <2>6, <3>2, <3>4, <3>5
         DEF TallyOK, Casting, Retracting, Dropping, VotesOf
  <2> QED
    BY <2>1, <2>4, <2>5, <2>6 DEF TallyOK, Casting, Retracting, Dropping
<1> QED
  BY <1>2, <1>3

LEMMA NextTallies ==
    ASSUME RInv, TalliesInv, CountersApart, [Next]_vars
    PROVE  TalliesInv'
<1>0. TypeOK /\ StepsOK /\ ReferentialIntegrity /\ IInv
  BY DEF RInv, IInv
<1>1. ASSUME NEW w \in Workers,
             Receive(w) \/ Execute(w) \/ Respond(w) \/ DatabaseLocked(w),
             \A u \in Workers : u # w => req'[u] = req[u]
      PROVE  TalliesInv'
  <2>1. TallyOK(req[w]) /\ VoteCountExact
    BY DEF TalliesInv
  <2>2. ASSUME NEW e \in DOMAIN events'
        PROVE  events'[e].vote_count = Cardinality(VotesOf(e)')
    <3>1. CASE e \notin DOMAIN events
      BY <1>0, <1>1, <3>1, NewEventCounts
    <3>2. CASE e \in DOMAIN events /\ Tallies(req[w], e)
      BY <1>0, <1>1, <2>1, <3>2, TallierCounts
    <3>3. CASE e \in DOMAIN events /\ ~ Tallies(req[w], e)
      BY <1>0, <1>1, <2>1, <3>3, OnlyTalliersCount DEF VoteCountExact
    <3> QED
      BY <3>1, <3>2, <3>3
  <2>3. VoteCountExact'
    BY <2>2 DEF VoteCountExact
  <2>4. ASSUME NEW u \in Workers, u # w PROVE TallyOK(req[u])'
    <3>1. PICK q : q = req[u]
      OBVIOUS
    <3>2. TallyOK(q) /\ q = req'[u]
      BY <1>1, <2>4, <3>1 DEF TalliesInv
    <3>3. ASSUME NEW e \in DOMAIN events, Tallies(q, e)
          PROVE  /\ e \in DOMAIN events'
                 /\ events'[e].vote_count = events[e].vote_count
                 /\ VotesOf(e)' = VotesOf(e)
      <4>1. ~ Tallies(req[w], e)
        BY <2>4, <3>1, <3>3 DEF CountersApart
      <4> QED
        BY <1>0, <1>1, <2>1, <4>1, OnlyTalliersCount
    <3>4. Casting(q) => /\ q.key \in DOMAIN events'
                        /\ q.count = events'[q.key].vote_count
      BY <3>2, <3>3 DEF TallyOK, Tallies
    <3>5. ASSUME Retracting(q)
          PROVE  /\ q.key \in DOMAIN votes' /\ q.ref = votes'[q.key].event
                 /\ q.step = "commit" => q.count = events'[q.ref].vote_count
      <4>1. q.ref \in DOMAIN events /\ q.key \in VotesOf(q.ref)
        BY <1>0, <3>2, <3>5 DEF TallyOK, ReferentialIntegrity, VotesOf
      <4>2. PICK x : x = q.ref
        OBVIOUS
      <4>3. /\ events'[x].vote_count = events[x].vote_count
            /\ VotesOf(x)' = VotesOf(x)
        BY <3>3, <3>5, <4>1, <4>2 DEF Tallies
      <4> QED
        BY <3>2, <3>5, <4>1, <4>2, <4>3 DEF TallyOK, VotesOf
    <3>6. ASSUME Dropping(q)
          PROVE  /\ q.key \in DOMAIN events'
                 /\ q.vts \subseteq VotesOf(q.key)' /\ q.todo \subseteq {q.key}
      BY <3>2, <3>3, <3>6 DEF TallyOK, Tallies
    <3> QED
      BY <3>2, <3>4, <3>5, <3>6 DEF TallyOK, VotesOf
  <2>5. TallyOK(req[w])'
    <3>1. CASE Running(req'[w])
      BY <1>0, <1>1, <2>1, <3>1, TallierGoesOn
    <3>2. CASE ~ Running(req'[w])
      BY <3>2 DEF TallyOK, Casting, Retracting, Dropping
    <3> QED
      BY <3>1, <3>2
  <2> QED
    BY <2>3, <2>4, <2>5 DEF TalliesInv
<1>2. CASE UNCHANGED tables /\ \A w \in Workers : req'[w] = Free("idle")
  BY <1>2
  DEF tables, TalliesInv, VoteCountExact, VotesOf, TallyOK, Casting, Retracting,
      Dropping, Running, Free, NewRequest, Outcomes
<1>3. CASE UNCHANGED <<tables, req>>
  BY <1>3 DEF tables, TalliesInv, VoteCountExact, VotesOf, TallyOK
<1> QED
  BY <1>0, <1>1, <1>2, <1>3, WhoActs

(* The counter of an event is the number of its votes, whatever else       *)
(* overlaps, as long as requests that vote, retract a vote or delete the   *)
(* event do not overlap on it (cast_vote and delete_vote write back the    *)
(* count they loaded plus or minus one).                                   *)
THEOREM CountIfCountersApart == Spec => ([]CountersApart => []VoteCountExact)
<1>1. Init => TalliesInv
  BY DEF Init, TalliesInv, VoteCountExact, TallyOK, Casting, Retracting,
         Dropping, Running, Free, NewRequest, Outcomes
<1>2. RInv /\ TalliesInv /\ CountersApart /\ [Next]_vars => TalliesInv'
  BY NextTallies
<1>3. TalliesInv => VoteCountExact
  BY DEF TalliesInv
<1> QED
  BY <1>1, <1>2, <1>3, RunningInvariance, PTL DEF Spec

-----------------------------------------------------------------------------
(* Ballots follow their event: only a vote cast, retracted or deleted      *)
(* while the ballots of that event are being closed escapes the decision.  *)

Closing(r) == Running(r) /\ r.op \in {"update_venue", "update_event_status"}

(* Request r is deciding event e, or has loaded a vote of it to close.     *)
Closes(r, e) ==
    /\ Closing(r)
    /\ \/ e \in r.evs \cup r.todo
       \/ \E v \in r.vts \cap DOMAIN votes : votes[v].event = e

(* Nor does a request tally an event that another is closing.              *)
BallotsApart ==
    /\ CountersApart
    /\ \A u, w \in Workers : u # w =>
        \A e \in DOMAIN events : ~ (Closes(req[u], e) /\ Tallies(req[w], e))

(* A decision holds all the open ballots of the events it decides, but     *)
(* those still to be loaded, and none of a pending event that it does not. *)
BallotsLoaded(r) ==
    Closing(r) =>
        /\ \A e \in r.todo \ r.evs : e \in DOMAIN events /\ ~ IsPending(e)
        /\ \A v \in r.vts : /\ v \in DOMAIN votes
                            /\ votes[v].event \in r.evs \/ ~ IsPending(votes[v].event)
        /\ \A v \in DOMAIN votes :
                votes[v].event \in r.evs \ r.todo /\ votes[v].status = "ballot_open"
                => v \in r.vts
        /\ r.step = "commit" => r.todo = {}
        /\ r.step \in {"load_venue", "load_events"} => r.vts = {}

VotesWhilePending(r) == Casting(r) => IsPending(r.key)

BallotsInv ==
    /\ StoredBallots
    /\ \A w \in Workers : BallotsLoaded(req[w]) /\ VotesWhilePending(req[w])

(* The votes of an event that a step does not tally, or that has no row,   *)
(* stay its votes.                                                         *)
LEMMA OtherVotesStay ==
    ASSUME IInv, IInv', NEW w \in Workers, TallyOK(req[w]), NEW e,
           e \in DOMAIN events => ~ Tallies(req[w], e),
           Receive(w) \/ Execute(w) \/ Respond(w) \/ DatabaseLocked(w)
    PROVE  /\ VotesOf(e)' = VotesOf(e)
           /\ e \in DOMAIN events => e \in DOMAIN events'
<1>1. CASE e \in DOMAIN events
  BY <1>1, OnlyTalliersCount DEF IInv
<1>2. CASE e \notin DOMAIN events
  <2>1. VotesOf(e) = {}
    BY <1>2 DEF IInv, ReferentialIntegrity, VotesOf
  <2>2. CASE e \in DOMAIN events'
    BY <1>2, <2>1, <2>2, NewEventCounts
  <2>3. CASE e \notin DOMAIN events'
    BY <1>2, <2>1, <2>3 DEF IInv, ReferentialIntegrity, VotesOf
  <2> QED
    BY <1>2, <2>1, <2>2, <2>3
<1> QED
  BY <1>1, <1>2

(* A pending event that a step neither tallies nor decides stays pending.  *)
LEMMA PendingStays ==
    ASSUME TypeOK, NEW w \in Workers, NEW e, IsPending(e),
           ~ Tallies(req[w], e), ~ Closes(req[w], e),
           Receive(w) \/ Execute(w) \/ Respond(w) \/ DatabaseLocked(w)
    PROVE  IsPending(e)'
<1>1. ~ Settles(req[w], e)
  BY DEF Settles, Closes, Closing, Tallies, Dropping, Running, Outcomes
<1> QED
  BY <1>1, OnlySettlingDecides DEF IsPending

(* What another request has loaded stays right.                            *)
LEMMA LoadedStays ==
    ASSUME IInv, IInv', KeepsDecisions, NEW w \in Workers, TallyOK(req[w]),
           Receive(w) \/ Execute(w) \/ Respond(w) \/ DatabaseLocked(w),
           NEW q, BallotsLoaded(q),
           \A e \in DOMAIN events : ~ (Closes(q, e) /\ Tallies(req[w], e))
    PROVE  BallotsLoaded(q)'
<1> SUFFICES ASSUME Closing(q) PROVE BallotsLoaded(q)'
  BY DEF BallotsLoaded, Closing
<1>1. ASSUME NEW e, Closes(q, e)
      PROVE  /\ VotesOf(e)' = VotesOf(e)
             /\ e \in DOMAIN events => e \in DOMAIN events'
  BY <1>1, OtherVotesStay
<1>2. ASSUME NEW e, Closes(q, e), e \in DOMAIN events, ~ IsPending(e)
      PROVE  e \in DOMAIN events' /\ ~ IsPending(e)'
  BY <1>1, <1>2 DEF IsPending, KeepsDecisions
<1>3. ASSUME NEW e \in q.todo \ q.evs
      PROVE  e \in DOMAIN events' /\ events'[e].status # "pending"
  BY <1>2, <1>3 DEF Closes, BallotsLoaded, IsPending
<1>4. ASSUME NEW v \in q.vts
      PROVE  /\ v \in DOMAIN votes'
             /\ \/ votes'[v].event \in q.evs
                \/ votes'[v].event \notin DOMAIN events'
                \/ events'[votes'[v].event].status # "pending"
  <2>1. PICK e : e = votes[v].event
    OBVIOUS
  <2>2. /\ Closes(q, e) /\ v \in VotesOf(e) /\ e \in DOMAIN events
        /\ e \in q.evs \/ ~ IsPending(e)
    BY <2>1 DEF Closes, BallotsLoaded, VotesOf, IInv, ReferentialIntegrity
  <2>3. v \in DOMAIN votes' /\ votes'[v].event = e
    BY <1>1, <2>2 DEF VotesOf
  <2>4. e \in q.evs \/ e \notin DOMAIN events' \/ events'[e].status # "pending"
    BY <1>2, <2>2 DEF IsPending
  <2> QED
    BY <2>3, <2>4
<1>5. ASSUME NEW v \in DOMAIN votes', votes'[v].event \in q.evs \ q.todo,
             votes'[v].status = "ballot_open"
      PROVE  v \in q.vts
  <2>1. PICK e : e = votes'[v].event
    OBVIOUS
  <2>2. v \in VotesOf(e)
    BY <1>1, <1>5, <2>1 DEF Closes, VotesOf
  <2>3. votes[v].status = "ballot_open"
    BY <1>5, <2>2 DEF KeepsDecisions, VotesOf
  <2> QED
    BY <1>5, <2>1, <2>2, <2>3 DEF BallotsLoaded, VotesOf
<1>6. /\ q.step = "commit" => q.todo = {}
      /\ q.step \in {"load_venue", "load_events"} => q.vts = {}
  BY DEF BallotsLoaded
<1> QED
  BY <1>3, <1>4, <1>5, <1>6 DEF BallotsLoaded, IsPending

(* A request loads the ballots of what it decides.                         *)
LEMMA LoaderGoesOn ==
    ASSUME TypeOK, StepsOK, StoredBallots, ReferentialIntegrity,
           NEW w \in Workers, BallotsLoaded(req[w]), Closing(req'[w]),
           Receive(w) \/ Execute(w) \/ Respond(w) \/ DatabaseLocked(w)
    PROVE  BallotsLoaded(req[w])'
<1>0. \A r : Becomes(w, r) => req'[w] = r
  BY DEF Becomes, TypeOK
<1>1. Running(req'[w]) /\ req'[w].op \in {"update_venue", "update_event_status"}
  BY DEF Closing
<1>2. ~ Refuse(w)
  BY <1>0, <1>1 DEF Refuse, Running, Free, NewRequest, Outcomes
<1>3. CASE Receive(w)
  <2>1. req'[w].evs = {} /\ req'[w].todo = {} /\ req'[w].vts = {}
    <3>1. CASE UpdateVenue(w)
      <4> DEFINE new(v, s) == IF s = None THEN venues[v].status ELSE s
                 r(m, v, s) ==
                   [Call("update_venue", m, v) EXCEPT
                      !.status = IF new(v, s) = venues[v].status THEN None
                                                                 ELSE new(v, s),
                      !.step = IF new(v, s) = "closed" THEN "load_events"
                                                       ELSE "commit"]
      <4>1. PICK m \in Managers, v \in VenueIds, s \in VenueInputs \cup {None} :
                Becomes(w, r(m, v, s))
        BY <1>2, <3>1 DEF UpdateVenue
      <4>2. r(m, v, s).evs = {} /\ r(m, v, s).todo = {} /\ r(m, v, s).vts = {}
        BY DEF Call, NewRequest
      <4> HIDE DEF r
      <4> QED
        BY <1>0, <4>1, <4>2
    <3>2. CASE UpdateEventStatus(w)
      BY <1>0, <1>2, <3>2 DEF UpdateEventStatus, Call, NewRequest
    <3> QED
      BY <1>1, <1>3, <3>1, <3>2, AcceptedOp
  <2> QED
    BY <2>1 DEF BallotsLoaded
<1>4. CASE Execute(w) \/ Respond(w) \/ DatabaseLocked(w)
  <2>1. /\ \/ UpdateVenueLoadEvents(w) \/ UpdateEventStatusLoadVenue(w)
           \/ UpdateEventLoadVenue(w) \/ LoadVotes(w)
           \/ CastVoteLoadExisting(w) \/ DeleteVoteLoadEvent(w)
        /\ UNCHANGED tables
        /\ req'[w].op = req[w].op /\ req'[w].key = req[w].key
    BY <1>1, <1>4, RunningOn
  <2>2. UpdateVenueLoadEvents(w) \/ UpdateEventStatusLoadVenue(w) \/ LoadVotes(w)
    BY <1>1, <2>1
    DEF UpdateEventLoadVenue, CastVoteLoadExisting, DeleteVoteLoadEvent, At
  <2>3. Closing(req[w]) /\ req[w] \in Request
    BY <1>1, <2>1, <2>2
    DEF Closing, Running, Outcomes, UpdateVenueLoadEvents,
        UpdateEventStatusLoadVenue, LoadVotes, At, TypeOK
  <2>4. events' = events /\ votes' = votes
    BY <2>1 DEF tables
  <2>5. CASE UpdateVenueLoadEvents(w)
    <3>1. /\ req'[w].todo = EventsAt(req[w].key)
          /\ req'[w].evs = {e \in EventsAt(req[w].key) : events[e].status # "rejected"}
          /\ req'[w].step = IF EventsAt(req[w].key) = {} THEN "commit" ELSE "load_votes"
          /\ req'[w].vts = req[w].vts
      BY <1>0, <2>3, <2>5 DEF UpdateVenueLoadEvents, Request
    <3>2. req[w].vts = {}
      BY <2>3, <2>5 DEF UpdateVenueLoadEvents, At, BallotsLoaded
    <3> QED
      BY <2>4, <3>1, <3>2 DEF BallotsLoaded, EventsAt, IsPending
  <2>6. CASE UpdateEventStatusLoadVenue(w)
    <3>1. /\ req'[w].todo = {req[w].key} /\ req'[w].evs = {req[w].key}
          /\ req'[w].step = "load_votes" /\ req'[w].vts = req[w].vts
      BY <1>0, <1>2, <2>3, <2>6 DEF UpdateEventStatusLoadVenue, Request
    <3>2. req[w].vts = {}
      BY <2>3, <2>6 DEF UpdateEventStatusLoadVenue, At, BallotsLoaded
    <3> QED
      BY <3>1, <3>2 DEF BallotsLoaded
  <2>7. CASE LoadVotes(w)
    <3>1. PICK e \in req[w].todo :
            LET found == {v \in VotesOf(e) : \/ req[w].op = "delete_event"
                                             \/ votes[v].status = "ballot_open"}
                left  == req[w].todo \ {e}
            IN Becomes(w, [req[w] EXCEPT !.vts = @ \cup found, !.todo = left,
                              !.step = IF left = {} THEN "commit" ELSE "load_votes"])
      BY <2>7 DEF LoadVotes
    <3>2. req[w].op # "delete_event"
      BY <2>3 DEF Closing
    <3>3. /\ req'[w].vts = req[w].vts
                \cup {v \in VotesOf(e) : votes[v].status = "ballot_open"}
          /\ req'[w].todo = req[w].todo \ {e} /\ req'[w].evs = req[w].evs
          /\ req'[w].step \in {"commit", "load_votes"}
          /\ req'[w].step = "commit" => req[w].todo \ {e} = {}
      <4> DEFINE found == {v \in VotesOf(e) : votes[v].status = "ballot_open"}
                 left  == req[w].todo \ {e}
                 step  == IF left = {} THEN "commit" ELSE "load_votes"
      <4>1. {v \in VotesOf(e) : \/ req[w].op = "delete_event"
                                \/ votes[v].status = "ballot_open"} = found
        BY <3>2
      <4>2. Becomes(w, [req[w] EXCEPT !.vts = @ \cup found, !.todo = left,
                                      !.step = step])
        BY <3>1, <4>1
      <4>3. step \in {"commit", "load_votes"} /\ (step = "commit" => left = {})
        OBVIOUS
      <4> HIDE DEF found, left, step
      <4>4. /\ req'[w].vts = req[w].vts \cup found
            /\ req'[w].todo = left /\ req'[w].evs = req[w].evs
            /\ req'[w].step = step
        BY <1>0, <2>3, <4>2 DEF Request
      <4> QED
        BY <4>3, <4>4 DEF found, left
    <3>4. e \in req[w].evs \/ ~ IsPending(e)
      BY <2>3 DEF BallotsLoaded
    <3> QED
      BY <2>3, <2>4, <3>3, <3>4 DEF BallotsLoaded, VotesOf, IsPending
  <2> QED
    BY <2>2, <2>5, <2>6, <2>7
<1> QED
  BY <1>3, <1>4

(* A vote is taken on for a pending event.                                 *)
LEMMA VoterGoesOn ==
    ASSUME TypeOK, StepsOK, NEW w \in Workers, VotesWhilePending(req[w]),
           Receive(w) \/ Execute(w) \/ Respond(w) \/ DatabaseLocked(w)
    PROVE  VotesWhilePending(req[w])'
<1> SUFFICES ASSUME Casting(req'[w]) PROVE IsPending(req[w].key)'
  BY DEF VotesWhilePending, Casting
<1>0. \A r : Becomes(w, r) => req'[w] = r
  BY DEF Becomes, TypeOK
<1>1. Running(req'[w]) /\ req'[w].op = "cast_vote"
  BY DEF Casting
<1>2. ~ Refuse(w)
  BY <1>0, <1>1 DEF Refuse, Running, Free, NewRequest, Outcomes
<1>3. CASE Receive(w)
  <2>1. CastVote(w)
    BY <1>1, <1>3, AcceptedOp
  <2> QED
    BY <1>0, <1>2, <2>1 DEF CastVote, Read, IsPending, Call, NewRequest
<1>4. CASE Execute(w) \/ Respond(w) \/ DatabaseLocked(w)
  <2>1. /\ \/ UpdateVenueLoadEvents(w) \/ UpdateEventStatusLoadVenue(w)
           \/ UpdateEventLoadVenue(w) \/ LoadVotes(w)
           \/ CastVoteLoadExisting(w) \/ DeleteVoteLoadEvent(w)
        /\ UNCHANGED tables
        /\ req'[w].op = req[w].op /\ req'[w].key = req[w].key
    BY <1>1, <1>4, RunningOn
  <2>2. Casting(req[w])
    BY <1>1, <2>1
    DEF Casting, Running, Outcomes, UpdateVenueLoadEvents,
        UpdateEventStatusLoadVenue, UpdateEventLoadVenue, LoadVotes,
        CastVoteLoadExisting, DeleteVoteLoadEvent, At
  <2> QED
    BY <2>1, <2>2 DEF VotesWhilePending, IsPending, tables
<1> QED
  BY <1>3, <1>4

(* A step that reopens, closes and adds no vote and decides nothing        *)
LEMMA StatusesKept ==
    ASSUME StoredBallots, ReferentialIntegrity, ReferentialIntegrity',
           \A v \in DOMAIN votes' : /\ v \in DOMAIN votes
                                    /\ votes'[v].event = votes[v].event
                                    /\ votes'[v].status = votes[v].status,
           \A e \in DOMAIN events \cap DOMAIN events' :
                events'[e].status = events[e].status
    PROVE  StoredBallots'
  BY DEF StoredBallots, ReferentialIntegrity

(* The commit of a decision                                                *)
LEMMA ClosingKeepsBallots ==
    ASSUME IInv, StoredBallots, NEW r, Closing(r), r.step = "commit",
           BallotsLoaded(r), NEW s \in {"approved", "rejected"},
           events' = SetStatus(r.evs, s), votes' = CloseBallots(r.vts)
    PROVE  StoredBallots'
<1> SUFFICES ASSUME NEW v \in DOMAIN votes'
             PROVE  votes'[v].status = "ballot_open"
                        <=> events'[votes'[v].event].status = "pending"
  BY DEF StoredBallots
<1>1. /\ events \in [DOMAIN events -> Event] /\ votes \in [DOMAIN votes -> Vote]
      /\ v \in DOMAIN votes /\ votes[v].event \in DOMAIN events
  BY DEF IInv, TypeOK, IsTable, ReferentialIntegrity, CloseBallots
<1>2. PICK e : e = votes[v].event
  OBVIOUS
<1>3. /\ votes'[v].event = e
      /\ votes'[v].status = IF v \in r.vts THEN "ballot_close" ELSE votes[v].status
  BY <1>1, <1>2 DEF CloseBallots, Vote
<1>4. events'[e].status = IF e \in r.evs THEN s ELSE events[e].status
  BY <1>1, <1>2 DEF SetStatus, Event
<1>5. votes[v].status = "ballot_open" <=> events[e].status = "pending"
  BY <1>1, <1>2 DEF StoredBallots
<1>6. e \in r.evs /\ votes[v].status = "ballot_open" => v \in r.vts
  BY <1>1, <1>2 DEF BallotsLoaded
<1>7. v \in r.vts => e \in r.evs \/ events[e].status # "pending"
  BY <1>1, <1>2 DEF BallotsLoaded, IsPending
<1> QED
  BY <1>3, <1>4, <1>5, <1>6, <1>7

(* The commit of a vote                                                    *)
LEMMA CastingKeepsBallots ==
    ASSUME IInv, StoredBallots, NEW w \in Workers, CastVoteCommit(w),
           ~ Rollback(w), VotesWhilePending(req[w])
    PROVE  StoredBallots'
<1>1. PICK k : k = req[w].key
  OBVIOUS
<1>2. PICK u \in VoteIds :
          /\ IsNextId(votes, u)
          /\ votes' = Insert(votes, u, [event |-> k, customer |-> req[w].user,
                                        status |-> "ballot_open"])
          /\ events' = [events EXCEPT ![k].vote_count = req[w].count + 1]
  BY <1>1 DEF CastVoteCommit
<1>3. u \notin DOMAIN votes
  BY <1>2, NextIdIsFree, BoundsAreNaturals DEF IInv, TypeOK, IsTable, VoteIds
<1>4. IsPending(k)
  BY <1>1 DEF CastVoteCommit, At, VotesWhilePending, Casting, Running, Outcomes
<1>5. \A e \in DOMAIN events : events'[e].status = events[e].status
  BY <1>2 DEF IInv, TypeOK, IsTable, Event
<1> SUFFICES ASSUME NEW v \in DOMAIN votes'
             PROVE  votes'[v].status = "ballot_open"
                        <=> events'[votes'[v].event].status = "pending"
  BY DEF StoredBallots
<1>6. CASE v = u
  BY <1>2, <1>4, <1>5, <1>6 DEF Insert, IsPending
<1>7. CASE v # u
  <2>1. v \in DOMAIN votes /\ votes'[v] = votes[v] /\ votes[v].event \in DOMAIN events
    BY <1>2, <1>7 DEF Insert, IInv, ReferentialIntegrity
  <2> QED
    BY <1>5, <2>1 DEF StoredBallots
<1> QED
  BY <1>6, <1>7

LEMMA StepKeepsBallots ==
    ASSUME IInv, IInv', StoredBallots, NEW w \in Workers,
           BallotsLoaded(req[w]), VotesWhilePending(req[w]),
           Receive(w) \/ Execute(w) \/ Respond(w) \/ DatabaseLocked(w)
    PROVE  StoredBallots'
<1>0. /\ ReferentialIntegrity /\ ReferentialIntegrity'
      /\ TypeOK /\ PayloadOK(req[w])
      /\ events \in [DOMAIN events -> Event] /\ votes \in [DOMAIN votes -> Vote]
  BY DEF IInv, TypeOK, IsTable, Payloads
<1> DEFINE VotesKept == \A v \in DOMAIN votes' :
                            /\ v \in DOMAIN votes
                            /\ votes'[v].event = votes[v].event
                            /\ votes'[v].status = votes[v].status
           EventsKept == \A e \in DOMAIN events \cap DOMAIN events' :
                            events'[e].status = events[e].status
<1>1. VotesKept /\ EventsKept => StoredBallots'
  BY <1>0, StatusesKept
<1>2. votes' = votes => VotesKept
  OBVIOUS
<1>3. \A vs : votes' = Delete(votes, vs) => VotesKept
  BY DEF Delete, Restrict
<1>4. events' = events => EventsKept
  OBVIOUS
<1>5. \A es : events' = Delete(events, es) => EventsKept
  BY DEF Delete, Restrict
<1>6. ASSUME NEW k, NEW n, events' = [events EXCEPT ![k].vote_count = n]
      PROVE  EventsKept
  BY <1>0, <1>6 DEF Event
<1>7. CASE Rollback(w) \/ CreateVenueCommit(w) \/ UNCHANGED tables
  BY <1>1, <1>2, <1>4, <1>7 DEF Rollback, Read, CreateVenueCommit, tables
<1>8. CASE CreateEventCommit(w) /\ ~ Rollback(w)
  <2>1. ASSUME NEW k \in EventIds, IsNextId(events, k), NEW row,
               events' = Insert(events, k, row)
        PROVE  EventsKept
    <3>1. k \notin DOMAIN events
      BY <2>1, <1>0, NextIdIsFree, BoundsAreNaturals DEF TypeOK, IsTable, EventIds
    <3> QED
      BY <2>1, <3>1 DEF Insert
  <2>2. EventsKept /\ votes' = votes
    BY <1>8, <2>1 DEF CreateEventCommit
  <2> QED
    BY <1>1, <1>2, <2>2
<1>9. CASE UpdateEventCommit(w) /\ ~ Rollback(w)
  <2>1. ASSUME NEW e \in DOMAIN events
        PROVE  events'[e].status = events[e].status
    <3> DEFINE d == IF req[w].date = None THEN events[e].date ELSE req[w].date
               v == IF req[w].venue = None THEN events[e].venue ELSE req[w].venue
    <3>1. events'[e] = IF e # req[w].key THEN events[e]
                       ELSE [events[e] EXCEPT !.date = d, !.venue = v]
      BY <1>9 DEF UpdateEventCommit
    <3> HIDE DEF d, v
    <3> QED
      BY <1>0, <3>1 DEF Event
  <2>2. EventsKept /\ votes' = votes
    BY <1>9, <2>1 DEF UpdateEventCommit
  <2> QED
    BY <1>1, <1>2, <2>2
<1>10. CASE DeleteVenueCommit(w) \/ DeleteEventCommit(w)
  BY <1>1, <1>3, <1>5, <1>10 DEF DeleteVenueCommit, DeleteEventCommit, DropEvents
<1>11. CASE DeleteVoteCommit(w) /\ ~ Rollback(w)
  BY <1>1, <1>3, <1>6, <1>11 DEF DeleteVoteCommit
<1>12. CASE CastVoteCommit(w) /\ ~ Rollback(w)
  BY <1>12, CastingKeepsBallots
<1>13. CASE (UpdateVenueCommit(w) \/ UpdateEventStatusCommit(w)) /\ ~ Rollback(w)
  <2>1. PICK r : r = req[w]
    OBVIOUS
  <2>2. Closing(r) /\ r.step = "commit" /\ BallotsLoaded(r)
    BY <1>13, <2>1
    DEF UpdateVenueCommit, UpdateEventStatusCommit, At, Closing, Running, Outcomes
  <2>3. /\ votes' = CloseBallots(r.vts)
        /\ \E s \in {"approved", "rejected"} : events' = SetStatus(r.evs, s)
    <3>1. CASE UpdateVenueCommit(w)
      BY <1>13, <2>1, <3>1 DEF UpdateVenueCommit
    <3>2. CASE UpdateEventStatusCommit(w)
      <4>1. r.status \in {"approved", "rejected"}
        BY <1>0, <2>1, <3>2 DEF UpdateEventStatusCommit, At, PayloadOK, Outcomes
      <4> QED
        BY <1>13, <2>1, <3>2, <4>1 DEF UpdateEventStatusCommit
    <3> QED
      BY <1>13, <3>1, <3>2
  <2> QED
    BY <2>2, <2>3, ClosingKeepsBallots
<1> QED
  BY <1>7, <1>8, <1>9, <1>10, <1>11, <1>12, <1>13, WhoWrites

LEMMA NextBallots ==
    ASSUME RInv, TalliesInv, BallotsInv, BallotsApart, [Next]_vars
    PROVE  BallotsInv'
<1>0. TypeOK /\ StepsOK /\ ReferentialIntegrity /\ IInv /\ IInv'
  BY NextInv DEF RInv, IInv
<1>1. KeepsDecisions
  BY <1>0, NextKeepsDecisions DEF KeepsDecisions
<1>2. ASSUME NEW w \in Workers,
             Receive(w) \/ Execute(w) \/ Respond(w) \/ DatabaseLocked(w),
             \A u \in Workers : u # w => req'[u] = req[u]
      PROVE  BallotsInv'
  <2>0. /\ TallyOK(req[w]) /\ BallotsLoaded(req[w]) /\ VotesWhilePending(req[w])
        /\ StoredBallots
    BY DEF TalliesInv, BallotsInv
  <2>1. StoredBallots'
    BY <1>0, <1>2, <2>0, StepKeepsBallots
  <2>2. ASSUME NEW u \in Workers, u # w
        PROVE  BallotsLoaded(req[u])' /\ VotesWhilePending(req[u])'
    <3>1. PICK q : q = req[u]
      OBVIOUS
    <3>2. BallotsLoaded(q) /\ VotesWhilePending(q) /\ q = req'[u]
      BY <1>2, <2>2, <3>1 DEF BallotsInv
    <3>3. /\ \A e \in DOMAIN events : ~ (Closes(q, e) /\ Tallies(req[w], e))
          /\ \A e \in DOMAIN events : ~ (Closes(req[w], e) /\ Tallies(q, e))
          /\ \A e \in DOMAIN events : ~ (Tallies(q, e) /\ Tallies(req[w], e))
      BY <2>2, <3>1 DEF BallotsApart, CountersApart
    <3>4. BallotsLoaded(q)'
      BY <1>0, <1>1, <1>2, <2>0, <3>2, <3>3, LoadedStays
    <3>5. Casting(q) => IsPending(q.key)'
      <4>1. Casting(q) => /\ IsPending(q.key) /\ q.key \in DOMAIN events
                          /\ Tallies(q, q.key)
        BY <3>2 DEF VotesWhilePending, IsPending, Tallies
      <4> QED
        BY <1>0, <1>2, <3>3, <4>1, PendingStays
    <3> QED
      BY <3>2, <3>4, <3>5 DEF BallotsLoaded, VotesWhilePending, IsPending
  <2>3. BallotsLoaded(req[w])'
    <3>1. CASE Closing(req'[w])
      BY <1>0, <1>2, <2>0, <3>1, LoaderGoesOn
    <3>2. CASE ~ Closing(req'[w])
      BY <3>2 DEF BallotsLoaded
    <3> QED
      BY <3>1, <3>2
  <2>4. VotesWhilePending(req[w])'
    BY <1>0, <1>2, <2>0, VoterGoesOn
  <2> QED
    BY <2>1, <2>2, <2>3, <2>4 DEF BallotsInv
<1>3. CASE UNCHANGED tables /\ \A w \in Workers : req'[w] = Free("idle")
  BY <1>3
  DEF tables, BallotsInv, StoredBallots, BallotsLoaded, VotesWhilePending,
      Closing, Casting, Running, Free, NewRequest, Outcomes
<1>4. CASE UNCHANGED <<tables, req>>
  BY <1>4
  DEF tables, BallotsInv, StoredBallots, BallotsLoaded, VotesWhilePending,
      IsPending
<1> QED
  BY <1>0, <1>2, <1>3, <1>4, WhoActs

(* A ballot shows as open exactly while its event is pending and its date  *)
(* has not passed, whatever else overlaps, as long as no vote is cast,     *)
(* retracted or deleted on an event while another request tallies it or    *)
(* closes its ballots (update_event_status and update_venue close the      *)
(* ballots they loaded before they commit, and cast_vote opens one without *)
(* looking at the status again).                                           *)
THEOREM BallotsIfBallotsApart == Spec => ([]BallotsApart => []BallotsFollowStatus)
<1>1. Init => TalliesInv /\ BallotsInv
  BY DEF Init, TalliesInv, VoteCountExact, TallyOK, BallotsInv,
         StoredBallots, BallotsLoaded, VotesWhilePending, Closing, Casting,
         Retracting, Dropping, Running, Free, NewRequest, Outcomes
<1>2. RInv /\ TalliesInv /\ BallotsApart /\ [Next]_vars => TalliesInv'
  BY NextTallies DEF BallotsApart
<1>3. RInv /\ TalliesInv /\ BallotsInv /\ BallotsApart /\ [Next]_vars => BallotsInv'
  BY NextBallots
<1>4. RInv /\ BallotsInv => BallotsFollowStatus
  BY StoredBallotsShow DEF RInv, BallotsInv
<1> QED
  BY <1>1, <1>2, <1>3, <1>4, RunningInvariance, PTL DEF Spec

-----------------------------------------------------------------------------
(* Edits: only another request that settles an event while its customer is *)
(* editing or deleting it lets a decided event change.                     *)

Editing(r) == Running(r) /\ r.op \in {"update_event", "delete_event"}

(* No event is settled while its customer is editing it.                   *)
EditsApart ==
    \A u, w \in Workers :
        u # w /\ Editing(req[u]) => ~ Settles(req[w], req[u].key)

EditsWhilePending(r) == Editing(r) => IsPending(r.key)

EditorsInv == \A w \in Workers : EditsWhilePending(req[w])

(* An edit is taken on for a pending event.                                *)
LEMMA EditorGoesOn ==
    ASSUME TypeOK, NEW w \in Workers, EditsWhilePending(req[w]),
           Receive(w) \/ Execute(w) \/ Respond(w) \/ DatabaseLocked(w)
    PROVE  EditsWhilePending(req[w])'
<1> SUFFICES ASSUME Editing(req'[w]) PROVE IsPending(req[w].key)'
  BY DEF EditsWhilePending, Editing
<1>0. \A r : Becomes(w, r) => req'[w] = r
  BY DEF Becomes, TypeOK
<1>1. Running(req'[w]) /\ req'[w].op \in {"update_event", "delete_event"}
  BY DEF Editing
<1>2. ~ Refuse(w)
  BY <1>0, <1>1 DEF Refuse, Running, Free, NewRequest, Outcomes
<1>3. CASE Receive(w)
  <2>1. PICK e \in EventIds : IsPending(e) /\ req'[w].key = e /\ events' = events
    <3>1. CASE DeleteEvent(w)
      BY <1>0, <1>2, <3>1 DEF DeleteEvent, Read, IsPending, Call, NewRequest
    <3>2. CASE UpdateEvent(w)
      <4> DEFINE r(c, e, d, v) ==
            [Call("update_event", c, e) EXCEPT
                    !.date = IF d = events[e].date THEN None ELSE d,
                    !.venue = v,
                    !.ref = events[e].venue,
                    !.step = IF v = None THEN "commit" ELSE "load_venue"]
      <4>1. PICK c \in Customers, e \in EventIds,
                 d \in Dates \cup {None}, v \in VenueIds \cup {None} :
                IsPending(e) /\ Becomes(w, r(c, e, d, v))
        BY <1>2, <3>2 DEF UpdateEvent, IsPending
      <4>2. r(c, e, d, v).key = e
        BY DEF Call, NewRequest
      <4> HIDE DEF r
      <4>3. req'[w].key = e
        BY <1>0, <4>1, <4>2
      <4> QED
        BY <3>2, <4>1, <4>3 DEF UpdateEvent, Read
    <3> QED
      BY <1>1, <1>3, <3>1, <3>2, AcceptedOp
  <2> QED
    BY <2>1 DEF IsPending
<1>4. CASE Execute(w) \/ Respond(w) \/ DatabaseLocked(w)
  <2>1. /\ \/ UpdateVenueLoadEvents(w) \/ UpdateEventStatusLoadVenue(w)
           \/ UpdateEventLoadVenue(w) \/ LoadVotes(w)
           \/ CastVoteLoadExisting(w) \/ DeleteVoteLoadEvent(w)
        /\ UNCHANGED tables
        /\ req'[w].op = req[w].op /\ req'[w].key = req[w].key
    BY <1>1, <1>4, RunningOn
  <2>2. Editing(req[w])
    BY <1>1, <2>1
    DEF Editing, Running, Outcomes, UpdateVenueLoadEvents,
        UpdateEventStatusLoadVenue, UpdateEventLoadVenue, LoadVotes,
        CastVoteLoadExisting, DeleteVoteLoadEvent, At
  <2> QED
    BY <2>1, <2>2 DEF EditsWhilePending, IsPending, tables
<1> QED
  BY <1>3, <1>4

LEMMA NextEditors ==
    ASSUME TypeOK, EditorsInv, EditsApart, [Next]_vars
    PROVE  EditorsInv'
<1>1. ASSUME NEW w \in Workers,
             Receive(w) \/ Execute(w) \/ Respond(w) \/ DatabaseLocked(w),
             \A u \in Workers : u # w => req'[u] = req[u]
      PROVE  EditorsInv'
  <2>1. ASSUME NEW u \in Workers, u # w PROVE EditsWhilePending(req[u])'
    <3>1. PICK q : q = req[u]
      OBVIOUS
    <3>2. EditsWhilePending(q) /\ q = req'[u]
      BY <1>1, <2>1, <3>1 DEF EditorsInv
    <3>3. Editing(q) => IsPending(q.key)'
      <4>1. Editing(q) => /\ q.key \in DOMAIN events /\ IsPending(q.key)
                          /\ ~ Settles(req[w], q.key)
        BY <2>1, <3>1, <3>2 DEF EditsApart, EditsWhilePending, IsPending
      <4> QED
        BY <1>1, <4>1, OnlySettlingDecides DEF IsPending
    <3> QED
      BY <3>2, <3>3 DEF EditsWhilePending, IsPending
  <2>2. EditsWhilePending(req[w])'
    BY <1>1, EditorGoesOn DEF EditorsInv
  <2> QED
    BY <2>1, <2>2 DEF EditorsInv
<1>2. CASE UNCHANGED tables /\ \A w \in Workers : req'[w] = Free("idle")
  BY <1>2 DEF EditorsInv, EditsWhilePending, Editing, Running, Free, NewRequest, Outcomes
<1>3. CASE UNCHANGED <<tables, req>>
  BY <1>3 DEF tables, EditorsInv, EditsWhilePending, IsPending
<1> QED
  BY <1>1, <1>2, <1>3, WhoActs

(* Only three commits touch an event that is there already other than to   *)
(* decide it or to count its votes.                                        *)
LEMMA EditingStep ==
    ASSUME NEW w \in Workers, EditsWhilePending(req[w])
    PROVE  /\ UpdateEventCommit(w) => EditsPending
           /\ DeleteEventCommit(w) => EditsPending
           /\ DeleteVenueCommit(w) => EditsPending
<1>1. ASSUME UpdateEventCommit(w) PROVE EditsPending
  <2>1. IsPending(req[w].key)
    BY <1>1 DEF UpdateEventCommit, At, EditsWhilePending, Editing, Running, Outcomes
  <2>2. \A e \in DOMAIN events : e # req[w].key =>
            e \in DOMAIN events' /\ events'[e] = events[e]
    BY <1>1 DEF UpdateEventCommit, Rollback, Read
  <2> QED
    BY <2>1, <2>2 DEF EditsPending, IsPending
<1>2. ASSUME DeleteEventCommit(w) PROVE EditsPending
  <2>1. IsPending(req[w].key)
    BY <1>2 DEF DeleteEventCommit, At, EditsWhilePending, Editing, Running, Outcomes
  <2>2. events' = Delete(events, {req[w].key})
    BY <1>2 DEF DeleteEventCommit, DropEvents
  <2> QED
    BY <2>1, <2>2 DEF EditsPending, IsPending, Delete, Restrict
<1>3. ASSUME DeleteVenueCommit(w) PROVE EditsPending
  <2>1. /\ venues' = Delete(venues, {req[w].key})
        /\ events' = Delete(events, EventsAt(req[w].key))
    BY <1>3 DEF DeleteVenueCommit, DropEvents
  <2> QED
    BY <2>1 DEF EditsPending, EventsAt, Delete, Restrict
<1> QED
  BY <1>1, <1>2, <1>3

(* The other commits leave date and venue of every event as they are.      *)
LEMMA KeepingStep ==
    ASSUME TypeOK, NEW w \in Workers,
           \/ UpdateVenueCommit(w) \/ CreateEventCommit(w)
           \/ UpdateEventStatusCommit(w) \/ CastVoteCommit(w)
           \/ DeleteVoteCommit(w)
    PROVE  \A e \in DOMAIN events : /\ e \in DOMAIN events'
                                    /\ events'[e].date = events[e].date
                                    /\ events'[e].venue = events[e].venue
<1>0. CASE events' = events
  BY <1>0
<1>1. CASE \E es, s : events' = SetStatus(es, s)
  BY <1>1 DEF SetStatus, TypeOK, IsTable, Event
<1>2. CASE \E e, n : events' = [events EXCEPT ![e].vote_count = n]
  BY <1>2 DEF TypeOK, IsTable, Event
<1>3. CASE \E e \in EventIds :
            IsNextId(events, e) /\ \E row : events' = Insert(events, e, row)
  <2>1. PICK e \in EventIds :
            IsNextId(events, e) /\ \E row : events' = Insert(events, e, row)
    BY <1>3
  <2>2. e \notin DOMAIN events
    BY <2>1, NextIdIsFree DEF TypeOK, IsTable, EventIds
  <2> QED
    BY <2>1, <2>2 DEF Insert
<1>4. CASE UpdateVenueCommit(w) \/ UpdateEventStatusCommit(w)
  BY <1>0, <1>1, <1>4
  DEF UpdateVenueCommit, UpdateEventStatusCommit, Rollback, Read
<1>5. CASE CreateEventCommit(w)
  BY <1>0, <1>3, <1>5 DEF CreateEventCommit, Rollback, Read
<1>6. CASE CastVoteCommit(w) \/ DeleteVoteCommit(w)
  BY <1>0, <1>2, <1>6 DEF CastVoteCommit, DeleteVoteCommit, Rollback, Read
<1> QED
  BY <1>4, <1>5, <1>6

(* A step that moves, dates or deletes an event is a commit that the       *)
(* handler checked while the event was pending.                            *)
LEMMA NextEditing ==
    ASSUME TypeOK, EditorsInv, [Next]_vars
    PROVE  [EditsPending]_<<venues, events>>
<1>1. ASSUME NEW w \in Workers,
             Receive(w) \/ Execute(w) \/ Respond(w) \/ DatabaseLocked(w)
      PROVE  EditsPending
  <2>1. CASE \/ UpdateVenueCommit(w) \/ CreateEventCommit(w)
             \/ UpdateEventStatusCommit(w) \/ CastVoteCommit(w)
             \/ DeleteVoteCommit(w)
    BY <2>1, KeepingStep DEF EditsPending
  <2>2. CASE \/ UpdateEventCommit(w) \/ DeleteEventCommit(w)
             \/ DeleteVenueCommit(w)
    BY <2>2, EditingStep DEF EditorsInv
  <2>3. CASE CreateVenueCommit(w) \/ UNCHANGED tables
    BY <2>3 DEF CreateVenueCommit, tables, EditsPending
  <2> QED
    BY <1>1, <2>1, <2>2, <2>3, WhoWrites
<1> QED
  BY <1>1, WhoActs DEF tables

(* Only pending events are moved, put to another date or deleted by their  *)
(* customer, whatever else overlaps, as long as nobody settles an event    *)
(* while its customer is editing or deleting it (update_event and          *)
(* delete_event look at the status when they load the event only).         *)
THEOREM EditsIfEditsApart == Spec => ([]EditsApart => EditsOnlyWhilePending)
<1>1. Init => EditorsInv
  BY DEF Init, EditorsInv, EditsWhilePending, Editing, Running, Free, NewRequest, Outcomes
<1>2. IInv /\ EditorsInv /\ EditsApart /\ [Next]_vars => EditorsInv'
  BY NextEditors DEF IInv
<1>3. IInv /\ EditorsInv /\ [Next]_vars => [EditsPending]_<<venues, events>>
  BY NextEditing DEF IInv
<1> QED
  BY <1>1, <1>2, <1>3, Invariance, PTL DEF Spec, EditsOnlyWhilePending

-----------------------------------------------------------------------------
(* Closing a venue: only an event put there, a decision on one of its      *)
(* events or a vote for one, committed while the closing request holds     *)
(* what it has loaded, escapes.                                            *)

Shutting(r) ==
    /\ r.op = "update_venue"
    /\ r.step = "load_votes" \/ (r.step = "commit" /\ r.status = "closed")

(* The next statement of r puts an event at venue v, decides an event      *)
(* there or casts a vote on one.                                           *)
Disturbs(r, v) ==
    /\ r.step = "commit"
    /\ \/ r.op \in {"create_event", "update_event"} /\ r.venue = v
       \/ r.op = "update_event_status" /\ r.evs \cap EventsAt(v) # {}
       \/ r.op = "cast_vote" /\ r.key \in EventsAt(v)

(* No such statement comes between the reads of a closing request and its  *)
(* commit.                                                                 *)
ClosingsApart ==
    \A u, w \in Workers :
        u # w /\ Shutting(req[u]) => ~ Disturbs(req[w], req[u].key)

(* A closing request holds all that is to be rejected and closed, but the  *)
(* ballots still to be loaded.                                             *)
VenueLoaded(r) ==
    Shutting(r) =>
        /\ \A e \in EventsAt(r.key) : e \in r.evs \/ events[e].status = "rejected"
        /\ \A v \in DOMAIN votes :
                /\ votes[v].event \in EventsAt(r.key) \ r.todo
                /\ votes[v].status = "ballot_open"
                => v \in r.vts
        /\ r.step = "commit" => r.todo = {}

ClosersInv == \A w \in Workers : VenueLoaded(req[w])

(* A step that does not disturb venue v puts no event there, takes no      *)
(* rejection there back and adds no vote there.                            *)
LEMMA Undisturbed ==
    ASSUME IInv, NEW w \in Workers, NEW v, ~ Disturbs(req[w], v),
           Receive(w) \/ Execute(w) \/ Respond(w) \/ DatabaseLocked(w)
    PROVE  /\ \A e \in EventsAt(v)' :
                /\ e \in EventsAt(v)
                /\ events[e].status = "rejected" => events'[e].status = "rejected"
           /\ \A x \in DOMAIN votes' : votes'[x].event \in EventsAt(v) =>
                x \in DOMAIN votes /\ votes[x].event = votes'[x].event
<1> DEFINE EventsKept == \A e \in EventsAt(v)' :
                /\ e \in EventsAt(v)
                /\ events[e].status = "rejected" => events'[e].status = "rejected"
           VotesKept == \A x \in DOMAIN votes' : votes'[x].event \in EventsAt(v) =>
                x \in DOMAIN votes /\ votes[x].event = votes'[x].event
<1>0. TypeOK /\ events \in [DOMAIN events -> Event]
  BY DEF IInv, TypeOK, IsTable
<1>1. EventsKept
  <2>1. ASSUME NEW es, NEW s, events' = SetStatus(es, s),
               s = "rejected" \/ es \cap EventsAt(v) = {}
        PROVE  EventsKept
    BY <1>0, <2>1 DEF SetStatus, Event, EventsAt
  <2>2. ASSUME NEW es, events' = Delete(events, es) PROVE EventsKept
    BY <2>2 DEF Delete, Restrict, EventsAt
  <2>3. ASSUME NEW k, NEW n, events' = [events EXCEPT ![k].vote_count = n]
        PROVE  EventsKept
    BY <1>0, <2>3 DEF Event, EventsAt
  <2>4. CASE Rollback(w) \/ CreateVenueCommit(w) \/ UNCHANGED tables
    BY <2>4 DEF Rollback, Read, CreateVenueCommit, tables, EventsAt
  <2>5. CASE UpdateVenueCommit(w) /\ ~ Rollback(w)
    BY <2>1, <2>5 DEF UpdateVenueCommit
  <2>6. CASE UpdateEventStatusCommit(w) /\ ~ Rollback(w)
    BY <2>1, <2>6 DEF UpdateEventStatusCommit, At, Disturbs
  <2>7. CASE DeleteVenueCommit(w) \/ DeleteEventCommit(w)
    BY <2>2, <2>7 DEF DeleteVenueCommit, DeleteEventCommit, DropEvents
  <2>8. CASE (CastVoteCommit(w) \/ DeleteVoteCommit(w)) /\ ~ Rollback(w)
    BY <2>3, <2>8 DEF CastVoteCommit, DeleteVoteCommit
  <2>9. CASE CreateEventCommit(w) /\ ~ Rollback(w)
    <3>1. PICK k \in EventIds : \E row :
              /\ IsNextId(events, k) /\ events' = Insert(events, k, row)
              /\ row.venue = req[w].venue
      BY <2>9 DEF CreateEventCommit
    <3>2. PICK row :
              /\ IsNextId(events, k) /\ events' = Insert(events, k, row)
              /\ row.venue = req[w].venue
      BY <3>1
    <3>3. row.venue # v
      BY <2>9, <3>2 DEF CreateEventCommit, At, Disturbs
    <3>4. k \notin DOMAIN events
      BY <1>0, <3>2, NextIdIsFree, BoundsAreNaturals DEF TypeOK, IsTable, EventIds
    <3> QED
      BY <3>2, <3>3, <3>4 DEF Insert, EventsAt
  <2>10. CASE UpdateEventCommit(w) /\ ~ Rollback(w)
    <3>1. ASSUME NEW e \in DOMAIN events'
          PROVE  /\ e \in DOMAIN events /\ events'[e].status = events[e].status
                 /\ events'[e].venue = v => events[e].venue = v
      <4> DEFINE d == IF req[w].date = None THEN events[e].date ELSE req[w].date
                 x == IF req[w].venue = None THEN events[e].venue ELSE req[w].venue
      <4>1. /\ e \in DOMAIN events
            /\ events'[e] = IF e # req[w].key THEN events[e]
                            ELSE [events[e] EXCEPT !.date = d, !.venue = x]
        BY <2>10, <3>1 DEF UpdateEventCommit
      <4>2. x = v => events[e].venue = v
        BY <2>10 DEF UpdateEventCommit, At, Disturbs
      <4> HIDE DEF d, x
      <4> QED
        BY <1>0, <4>1, <4>2 DEF Event
    <3> QED
      BY <3>1 DEF EventsAt
  <2> QED
    BY <2>4, <2>5, <2>6, <2>7, <2>8, <2>9, <2>10, WhoWrites
<1>2. VotesKept
  <2>1. CASE VotersKept
    BY <2>1 DEF VotersKept
  <2>2. CASE CastVoteCommit(w) /\ ~ Rollback(w)
    <3>1. PICK k : k = req[w].key
      OBVIOUS
    <3>2. PICK u \in VoteIds :
              votes' = Insert(votes, u, [event |-> k, customer |-> req[w].user,
                                         status |-> "ballot_open"])
      BY <2>2, <3>1 DEF CastVoteCommit
    <3>3. k \notin EventsAt(v)
      BY <2>2, <3>1 DEF CastVoteCommit, At, Disturbs
    <3> QED
      BY <3>2, <3>3 DEF Insert
  <2>3. CASE Rollback(w)
    BY <2>3 DEF Rollback, Read
  <2> QED
    BY <1>0, <2>1, <2>2, <2>3, OnlyCastingAdds
<1> QED
  BY <1>1, <1>2

(* A closing request loads the events of its venue and their ballots.      *)
LEMMA ShutterGoesOn ==
    ASSUME TypeOK, StepsOK, NEW w \in Workers, VenueLoaded(req[w]),
           Receive(w) \/ Execute(w) \/ Respond(w) \/ DatabaseLocked(w)
    PROVE  VenueLoaded(req[w])'
<1> SUFFICES ASSUME Shutting(req'[w]) PROVE VenueLoaded(req[w])'
  BY DEF VenueLoaded, Shutting
<1>0. \A r : Becomes(w, r) => req'[w] = r
  BY DEF Becomes, TypeOK
<1>1. Running(req'[w]) /\ req'[w].op = "update_venue"
  BY DEF Shutting, Running, Outcomes
<1>2. ~ Refuse(w)
  BY <1>0, <1>1 DEF Refuse, Running, Free, NewRequest, Outcomes
<1>3. ~ Receive(w)
  <2> SUFFICES ASSUME UpdateVenue(w) PROVE FALSE
    BY <1>1, AcceptedOp
  <2> DEFINE new(v, s) == IF s = None THEN venues[v].status ELSE s
             r(m, v, s) ==
               [Call("update_venue", m, v) EXCEPT
                  !.status = IF new(v, s) = venues[v].status THEN None
                                                             ELSE new(v, s),
                  !.step = IF new(v, s) = "closed" THEN "load_events"
                                                   ELSE "commit"]
  <2>1. PICK m \in Managers, v \in VenueIds, s \in VenueInputs \cup {None} :
            Becomes(w, r(m, v, s))
    BY <1>2 DEF UpdateVenue
  <2>2. None # "closed"
    BY RequestsAssumption DEF VenueStatus
  <2>3. ~ Shutting(r(m, v, s))
    BY <2>2 DEF Shutting, Call, NewRequest
  <2> HIDE DEF r
  <2> QED
    BY <1>0, <2>1, <2>3
<1>4. /\ \/ UpdateVenueLoadEvents(w) \/ UpdateEventStatusLoadVenue(w)
         \/ UpdateEventLoadVenue(w) \/ LoadVotes(w)
         \/ CastVoteLoadExisting(w) \/ DeleteVoteLoadEvent(w)
      /\ UNCHANGED tables
      /\ req'[w].op = req[w].op /\ req'[w].key = req[w].key
  BY <1>1, <1>3, RunningOn
<1>5. UpdateVenueLoadEvents(w) \/ LoadVotes(w)
  BY <1>1, <1>4
  DEF UpdateEventStatusLoadVenue, UpdateEventLoadVenue, CastVoteLoadExisting,
      DeleteVoteLoadEvent, At
<1>6. req[w] \in Request /\ req[w].op = "update_venue"
      /\ events' = events /\ votes' = votes
  BY <1>1, <1>4 DEF TypeOK, tables
<1>7. CASE UpdateVenueLoadEvents(w)
  <2>1. /\ req'[w].todo = EventsAt(req[w].key)
        /\ req'[w].evs = {e \in EventsAt(req[w].key) : events[e].status # "rejected"}
        /\ req'[w].step = IF EventsAt(req[w].key) = {} THEN "commit" ELSE "load_votes"
    BY <1>0, <1>6, <1>7 DEF UpdateVenueLoadEvents, Request
  <2> QED
    BY <1>4, <1>6, <2>1 DEF VenueLoaded, EventsAt
<1>8. CASE LoadVotes(w)
  <2>1. PICK e \in req[w].todo :
          LET found == {v \in VotesOf(e) : \/ req[w].op = "delete_event"
                                           \/ votes[v].status = "ballot_open"}
              left  == req[w].todo \ {e}
          IN Becomes(w, [req[w] EXCEPT !.vts = @ \cup found, !.todo = left,
                            !.step = IF left = {} THEN "commit" ELSE "load_votes"])
    BY <1>8 DEF LoadVotes
  <2> DEFINE found == {v \in VotesOf(e) : votes[v].status = "ballot_open"}
             left  == req[w].todo \ {e}
             step  == IF left = {} THEN "commit" ELSE "load_votes"
  <2>2. {v \in VotesOf(e) : \/ req[w].op = "delete_event"
                            \/ votes[v].status = "ballot_open"} = found
    BY <1>6
  <2>3. Becomes(w, [req[w] EXCEPT !.vts = @ \cup found, !.todo = left, !.step = step])
    BY <2>1, <2>2
  <2>4. step = "commit" => left = {}
    OBVIOUS
  <2> HIDE DEF found, left, step
  <2>5. /\ req'[w].vts = req[w].vts \cup found
        /\ req'[w].todo = left /\ req'[w].evs = req[w].evs
        /\ req'[w].step = step
    BY <1>0, <1>6, <2>3 DEF Request
  <2>6. Shutting(req[w])
    BY <1>6, <1>8 DEF LoadVotes, Shutting
  <2> QED
    BY <1>4, <1>6, <2>4, <2>5, <2>6 DEF VenueLoaded, EventsAt, VotesOf, found, left
<1> QED
  BY <1>5, <1>7, <1>8

LEMMA NextClosers ==
    ASSUME IInv, StepsOK, ClosersInv, ClosingsApart, [Next]_vars
    PROVE  ClosersInv'
<1>0. TypeOK /\ KeepsDecisions
  BY NextKeepsDecisions DEF IInv, KeepsDecisions
<1>1. ASSUME NEW w \in Workers,
             Receive(w) \/ Execute(w) \/ Respond(w) \/ DatabaseLocked(w),
             \A u \in Workers : u # w => req'[u] = req[u]
      PROVE  ClosersInv'
  <2>1. ASSUME NEW u \in Workers, u # w PROVE VenueLoaded(req[u])'
    <3>1. PICK q : q = req[u]
      OBVIOUS
    <3>2. VenueLoaded(q) /\ q = req'[u]
      BY <1>1, <2>1, <3>1 DEF ClosersInv
    <3>3. CASE Shutting(q)
      <4>1. ~ Disturbs(req[w], q.key)
        BY <2>1, <3>1, <3>3 DEF ClosingsApart
      <4>2. /\ \A e \in EventsAt(q.key)' :
                /\ e \in EventsAt(q.key)
                /\ events[e].status = "rejected" => events'[e].status = "rejected"
            /\ \A x \in DOMAIN votes' : votes'[x].event \in EventsAt(q.key) =>
                x \in DOMAIN votes /\ votes[x].event = votes'[x].event
        BY <1>1, <4>1, Undisturbed
      <4>3. \A e \in EventsAt(q.key)' : e \in q.evs \/ events'[e].status = "rejected"
        BY <3>2, <3>3, <4>2 DEF VenueLoaded
      <4>4. ASSUME NEW v \in DOMAIN votes',
                   votes'[v].event \in EventsAt(q.key)' \ q.todo,
                   votes'[v].status = "ballot_open"
            PROVE  v \in q.vts
        <5>1. v \in DOMAIN votes /\ votes[v].event \in EventsAt(q.key) \ q.todo
          BY <4>2, <4>4
        <5>2. votes[v].status = "ballot_open"
          BY <1>0, <4>4, <5>1 DEF KeepsDecisions
        <5> QED
          BY <3>2, <3>3, <5>1, <5>2 DEF VenueLoaded
      <4> QED
        BY <3>2, <3>3, <4>3, <4>4 DEF VenueLoaded, EventsAt
    <3>4. CASE ~ Shutting(q)
      BY <3>2, <3>4 DEF VenueLoaded
    <3> QED
      BY <3>3, <3>4
  <2>2. VenueLoaded(req[w])'
    BY <1>0, <1>1, ShutterGoesOn DEF ClosersInv
  <2> QED
    BY <2>1, <2>2 DEF ClosersInv
<1>2. CASE UNCHANGED tables /\ \A w \in Workers : req'[w] = Free("idle")
  BY <1>2 DEF ClosersInv, VenueLoaded, Shutting, Free, NewRequest
<1>3. CASE UNCHANGED <<tables, req>>
  BY <1>3 DEF tables, ClosersInv, VenueLoaded, EventsAt
<1> QED
  BY <1>0, <1>1, <1>2, <1>3, WhoActs

(* The commit that closes a venue rejects all its events and closes their  *)
(* ballots.                                                                *)
LEMMA ClosingStep ==
    ASSUME IInv, IInv', NEW w \in Workers, UpdateVenueCommit(w), VenueLoaded(req[w]),
           NEW x \in DOMAIN venues \cap DOMAIN venues',
           venues[x].status # "closed", venues'[x].status = "closed",
           NEW e \in DOMAIN events', events'[e].venue = x
    PROVE  /\ events'[e].status = "rejected"
           /\ \A v \in DOMAIN votes' :
                votes'[v].event = e => votes'[v].status = "ballot_close"
<1> DEFINE r == req[w]
<1>1. TypeOK /\ r.op = "update_venue" /\ r.step = "commit"
  BY DEF IInv, UpdateVenueCommit, At
<1>2. ~ Rollback(w)
  BY DEF Rollback, Read
<1>3. /\ venues' = IF r.status = None THEN venues
                   ELSE [venues EXCEPT ![r.key].status = r.status]
      /\ events' = SetStatus(r.evs, "rejected")
      /\ votes' = CloseBallots(r.vts)
  BY <1>2 DEF UpdateVenueCommit
<1>4. x = r.key /\ r.status = "closed"
  BY <1>1, <1>3 DEF TypeOK, IsTable, Venue
<1>5. VenueLoaded(r) /\ Shutting(r)
  BY <1>1, <1>4 DEF Shutting
<1>6. /\ e \in EventsAt(x)
      /\ events'[e].status = IF e \in r.evs THEN "rejected" ELSE events[e].status
  BY <1>1, <1>3 DEF SetStatus, TypeOK, IsTable, Event, EventsAt
<1>7. events'[e].status = "rejected"
  BY <1>4, <1>5, <1>6 DEF VenueLoaded
<1>8. ASSUME NEW v \in DOMAIN votes', votes'[v].event = e
      PROVE  votes'[v].status = "ballot_close"
  <2>1. /\ v \in DOMAIN votes /\ votes[v].event = e
        /\ votes'[v].status = IF v \in r.vts THEN "ballot_close" ELSE votes[v].status
    BY <1>1, <1>3, <1>8 DEF CloseBallots, TypeOK, IsTable, Vote
  <2>2. votes[v].status = "ballot_open" => v \in r.vts
    BY <1>1, <1>4, <1>5, <1>6, <2>1 DEF VenueLoaded
  <2>3. votes[v].status \in {"ballot_open", "ballot_close"}
    BY <1>1, <2>1 DEF TypeOK, IsTable, Vote, VoteStatus
  <2> QED
    BY <2>1, <2>2, <2>3
<1> QED
  BY <1>7, <1>8

(* The step that closes a venue is the commit of update_venue.             *)
LEMMA NextClosing ==
    ASSUME IInv, IInv', ClosersInv, [Next]_vars
    PROVE  [RejectsAll]_venues
<1>1. ASSUME NEW w \in Workers,
             Receive(w) \/ Execute(w) \/ Respond(w) \/ DatabaseLocked(w)
      PROVE  RejectsAll
  <2>1. CASE UpdateVenueCommit(w)
    BY <2>1, ClosingStep DEF RejectsAll, ClosersInv
  <2>2. CASE CreateVenueCommit(w)
    <3>1. PICK v \in VenueIds : \E row :
              IsNextId(venues, v) /\ venues' = Insert(venues, v, row)
      BY <2>2 DEF CreateVenueCommit
    <3>2. PICK row : venues' = Insert(venues, v, row)
      BY <3>1
    <3>3. v \notin DOMAIN venues
      BY <3>1, NextIdIsFree, BoundsAreNaturals DEF IInv, TypeOK, IsTable, VenueIds
    <3> QED
      BY <3>2, <3>3 DEF Insert, RejectsAll
  <2>3. CASE DeleteVenueCommit(w)
    BY <2>3 DEF DeleteVenueCommit, Delete, Restrict, RejectsAll
  <2>4. venues' = venues => RejectsAll
    BY DEF RejectsAll
  <2> QED
    BY <1>1, <2>1, <2>2, <2>3, <2>4, WhoWrites
    DEF CreateEventCommit, UpdateEventStatusCommit, UpdateEventCommit,
        DeleteEventCommit, CastVoteCommit, DeleteVoteCommit, Rollback, Read, tables
<1> QED
  BY <1>1, WhoActs DEF tables, IInv

(* Closing a venue leaves no event at it undecided and no ballot open,     *)
(* whatever else overlaps, as long as nobody commits an event to the       *)
(* venue, a decision on one of its events or a vote on one while the       *)
(* closing request holds what it has loaded (update_venue).                *)
THEOREM ClosingIfClosingsApart == Spec => ([]ClosingsApart => ClosingRejectsAll)
<1>1. Init => ClosersInv
  BY DEF Init, ClosersInv, VenueLoaded, Shutting, Free, NewRequest
<1>2. RInv /\ ClosersInv /\ ClosingsApart /\ [Next]_vars => ClosersInv'
  BY NextClosers DEF RInv
<1>3. RInv /\ RInv' /\ ClosersInv /\ [Next]_vars => [RejectsAll]_venues
  BY NextClosing DEF RInv
<1> QED
  BY <1>1, <1>2, <1>3, RunningInvariance, PTL DEF Spec, ClosingRejectsAll
=============================================================================
