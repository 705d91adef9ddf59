----------------------- MODULE BookingRefinementProofs -----------------------
(***************************************************************************)
(* As long as requests about the same event or venue do not overlap,       *)
(* Booking implements EventLifecycle, for any number of workers, users and *)
(* rows: each commit is the abstract operation on the tables as they are   *)
(* at that moment, and every other statement is a stutter.                 *)
(***************************************************************************)
EXTENDS BookingRefinement, SerialBookingProofs

-----------------------------------------------------------------------------
(* The refinement mapping without CHOOSE                                   *)

(* Between any two steps all ballots on an event are in the same state.    *)
BallotState(s) == IF s = "pending" THEN "ballot_open" ELSE "ballot_close"

flatEvent(e) ==
    [status   |-> events[e].status,
     venue    |-> events[e].venue,
     customer |-> events[e].customer,
     ballots  |-> [c \in Voters(e) |-> BallotState(events[e].status)],
     tally    |-> events[e].vote_count]

flatBar == [e \in DOMAIN events |-> flatEvent(e)]

(* The ballot that the mapping chooses is in the state that the status of  *)
(* the event asks for.                                                     *)
LEMMA BallotIsBallotState ==
    ASSUME SInv, NEW e \in DOMAIN events, NEW c \in Voters(e)
    PROVE  BallotOf(e, c) = BallotState(events[e].status)
<1> DEFINE u == CHOOSE v \in VotesOf(e) : votes[v].customer = c
<1>1. \E v \in VotesOf(e) : votes[v].customer = c
  BY DEF Voters
<1>2. u \in VotesOf(e)
  BY <1>1
<1>3. u \in DOMAIN votes /\ votes[u].event = e /\ votes[u].status \in VoteStatus
  BY <1>2 DEF VotesOf, SInv, IInv, TypeOK, IsTable, Vote
<1>4. votes[u].status = "ballot_open" <=> events[e].status = "pending"
  BY <1>3 DEF SInv, Consistent, StoredBallots
<1> QED
  BY <1>3, <1>4 DEF BallotOf, BallotState, VoteStatus

MappingIsFlat == eventBar = flatBar

(* In states of the invariant the mapping needs no CHOOSE.                 *)
LEMMA FlatBar == SInv => MappingIsFlat
<1> SUFFICES ASSUME SInv PROVE MappingIsFlat
  OBVIOUS
<1>1. \A e \in DOMAIN events :
        [c \in Voters(e) |-> BallotOf(e, c)]
            = [c \in Voters(e) |-> BallotState(events[e].status)]
  BY BallotIsBallotState
<1> QED
  BY <1>1 DEF MappingIsFlat, eventBar, flatBar, flatEvent

(* The same for the state after a step                                     *)
LEMMA FlatBarNext == SInv' => eventBar' = flatBar'
<1>1. SInv' => MappingIsFlat'
  BY FlatBar, PTL
<1> QED
  BY <1>1 DEF MappingIsFlat

LEMMA RecordEdit ==
    ASSUME NEW a, NEW b, NEW c, NEW d, NEW t, NEW s, NEW x
    PROVE  [[status |-> a, venue |-> b, customer |-> c, ballots |-> d, tally |-> t]
                EXCEPT !.status = s, !.ballots = x]
              = [status |-> s, venue |-> b, customer |-> c, ballots |-> x, tally |-> t]
<1> DEFINE R == [status : {s}, venue : {b}, customer : {c}, ballots : {x}, tally : {t}]
           f == [[status |-> a, venue |-> b, customer |-> c, ballots |-> d, tally |-> t]
                    EXCEPT !.status = s, !.ballots = x]
           g == [status |-> s, venue |-> b, customer |-> c, ballots |-> x, tally |-> t]
<1>1. g \in R
  OBVIOUS
<1>2. f \in R
  OBVIOUS
<1> QED
  BY <1>1, <1>2

LEMMA VenueEdit ==
    ASSUME NEW a, NEW b, NEW c, NEW d, NEW t, NEW x
    PROVE  [[status |-> a, venue |-> b, customer |-> c, ballots |-> d, tally |-> t]
                EXCEPT !.venue = x]
              = [status |-> a, venue |-> x, customer |-> c, ballots |-> d, tally |-> t]
<1> DEFINE R == [status : {a}, venue : {x}, customer : {c}, ballots : {d}, tally : {t}]
           f == [[status |-> a, venue |-> b, customer |-> c, ballots |-> d, tally |-> t]
                    EXCEPT !.venue = x]
           g == [status |-> a, venue |-> x, customer |-> c, ballots |-> d, tally |-> t]
<1>1. g \in R
  OBVIOUS
<1>2. f \in R
  OBVIOUS
<1> QED
  BY <1>1, <1>2

(* The abstract state before and after a step                              *)
LEMMA Bars ==
    ASSUME SInv, SInv'
    PROVE  /\ DOMAIN venueBar = DOMAIN venues
           /\ \A v \in DOMAIN venues : venueBar[v].status = venues[v].status
           /\ eventBar = [e \in DOMAIN events |-> flatEvent(e)]
           /\ eventBar' = [e \in DOMAIN events' |-> flatEvent(e)']
           /\ \A e \in DOMAIN events :
                /\ eventBar[e] = flatEvent(e)
                /\ eventBar[e].status = events[e].status
                /\ eventBar[e].venue = events[e].venue
                /\ DOMAIN eventBar[e].ballots = Voters(e)
<1>1. eventBar = flatBar /\ eventBar' = flatBar'
  BY FlatBar, FlatBarNext DEF MappingIsFlat
<1> QED
  BY <1>1 DEF venueBar, flatBar, flatEvent

(* The ballots on an event depend on the votes on it alone.                *)
LEMMA SameVoters ==
    ASSUME NEW e,
           \A v : v \in DOMAIN votes /\ votes[v].event = e <=>
                  v \in DOMAIN votes' /\ votes'[v].event = e,
           \A v \in DOMAIN votes : votes[v].event = e =>
                votes'[v].customer = votes[v].customer
    PROVE  Voters(e)' = Voters(e)
<1>1. VotesOf(e)' = VotesOf(e)
  BY DEF VotesOf
<1>2. \A v \in VotesOf(e) : votes'[v].customer = votes[v].customer
  BY DEF VotesOf
<1> QED
  BY <1>1, <1>2 DEF Voters

(* A step that writes no table is a stutter.                               *)
LEMMA SameTables ==
    ASSUME SInv, SInv', UNCHANGED tables
    PROVE  UNCHANGED Lifecycle!vars
<1>1. \A e : Voters(e)' = Voters(e)
  BY SameVoters DEF tables
<1>2. \A e : flatEvent(e)' = flatEvent(e)
  BY <1>1 DEF tables, flatEvent
<1>3. eventBar' = eventBar
  BY <1>2, Bars DEF tables
<1>4. venueBar' = venueBar
  BY DEF tables, venueBar
<1> QED
  BY <1>3, <1>4 DEF Lifecycle!vars

-----------------------------------------------------------------------------
(* Commits on venues                                                       *)

LEMMA CreateVenueIsOpen ==
    ASSUME SInv, SInv', NEW w \in Workers, CreateVenueCommit(w)
    PROVE  Lifecycle!Next
<1>1. PICK v \in VenueIds :
        /\ IsNextId(venues, v)
        /\ venues' = Insert(venues, v, [manager |-> req[w].user,
                                        status |-> req[w].status])
  BY DEF CreateVenueCommit
<1> DEFINE m == req[w].user
           s == req[w].status
<1>2. m \in Managers /\ s \in VenueStatus
  BY DEF CreateVenueCommit, At, SInv, IInv, Payloads, PayloadOK, Outcomes
<1>3. v \notin DOMAIN venues
  BY <1>1, NextIdIsFree DEF SInv, IInv, TypeOK, IsTable, VenueIds
<1>4. venueBar' = Lifecycle!Put(venueBar, v, [owner |-> m, status |-> s])
  <2>1. DOMAIN venues' = DOMAIN venues \cup {v}
    BY <1>1 DEF Insert
  <2>2. \A x \in DOMAIN venues : venues'[x] = venues[x]
    BY <1>1, <1>3 DEF Insert
  <2>3. venues'[v].manager = m /\ venues'[v].status = s
    BY <1>1 DEF Insert
  <2> QED
    BY <2>1, <2>2, <2>3 DEF venueBar, Lifecycle!Put
<1>5. \A e : flatEvent(e)' = flatEvent(e)
  <2>1. \A e : Voters(e)' = Voters(e)
    BY SameVoters DEF CreateVenueCommit
  <2> QED
    BY <2>1 DEF CreateVenueCommit, flatEvent
<1>6. eventBar' = eventBar
  BY <1>5, Bars DEF CreateVenueCommit
<1>7. Lifecycle!Open(v, m, s)
  BY <1>3, <1>4, <1>6, Bars DEF Lifecycle!Open
<1> QED
  BY <1>2, <1>3, <1>7, Bars DEF Lifecycle!Next, Lifecycle!VenueState, VenueStatus

(* Rejecting events and closing all open ballots on them decides them.     *)
LEMMA DecidedFlat ==
    ASSUME SInv, SInv', NEW es \in SUBSET DOMAIN events, NEW vs,
           NEW s \in {"approved", "rejected"},
           events' = SetStatus(es, s), votes' = CloseBallots(vs)
    PROVE  \A e \in DOMAIN events :
             /\ e \in es =>
                   flatEvent(e)' = Lifecycle!Decided(flatEvent(e), s)
             /\ e \notin es => flatEvent(e)' = flatEvent(e)
<1> SUFFICES ASSUME NEW e \in DOMAIN events
             PROVE  /\ e \in es =>
                          flatEvent(e)' = Lifecycle!Decided(flatEvent(e), s)
                    /\ e \notin es => flatEvent(e)' = flatEvent(e)
  OBVIOUS
<1>1. /\ events'[e].status = IF e \in es THEN s ELSE events[e].status
      /\ events'[e].venue = events[e].venue
      /\ events'[e].customer = events[e].customer
      /\ events'[e].vote_count = events[e].vote_count
  BY DEF SetStatus, SInv, IInv, TypeOK, IsTable, Event
<1>2. Voters(e)' = Voters(e)
  <2>1. /\ DOMAIN votes' = DOMAIN votes
        /\ \A v \in DOMAIN votes : /\ votes'[v].event = votes[v].event
                                   /\ votes'[v].customer = votes[v].customer
    BY DEF CloseBallots, SInv, IInv, TypeOK, IsTable, Vote
  <2> QED
    BY <2>1, SameVoters
<1>3. CASE e \notin es
  BY <1>1, <1>2, <1>3 DEF flatEvent
<1>4. CASE e \in es
  <2>1. flatEvent(e)' = [status   |-> s,
                         venue    |-> events[e].venue,
                         customer |-> events[e].customer,
                         ballots  |-> [c \in Voters(e) |-> "ballot_close"],
                         tally    |-> events[e].vote_count]
    BY <1>1, <1>2, <1>4 DEF flatEvent, BallotState
  <2>2. Lifecycle!Decided(flatEvent(e), s)
          = [flatEvent(e) EXCEPT !.status = s,
                                 !.ballots = [c \in Voters(e) |-> "ballot_close"]]
    BY DEF Lifecycle!Decided, flatEvent
  <2> QED
    BY <2>1, <2>2, RecordEdit, <1>4 DEF flatEvent
<1> QED
  BY <1>3, <1>4

(* Rejecting a rejected event once more changes nothing.                   *)
LEMMA RejectedIsDecided ==
    ASSUME NEW e \in DOMAIN events, events[e].status = "rejected"
    PROVE  Lifecycle!Decided(flatEvent(e), "rejected") = flatEvent(e)
<1>1. flatEvent(e) = [status   |-> "rejected",
                      venue    |-> events[e].venue,
                      customer |-> events[e].customer,
                      ballots  |-> [c \in Voters(e) |-> "ballot_close"],
                      tally    |-> events[e].vote_count]
  BY DEF flatEvent, BallotState
<1>2. Lifecycle!Decided(flatEvent(e), "rejected")
        = [flatEvent(e) EXCEPT !.status = "rejected",
                               !.ballots = [c \in Voters(e) |-> "ballot_close"]]
  BY DEF Lifecycle!Decided, flatEvent
<1> QED
  BY <1>1, <1>2, RecordEdit DEF flatEvent

(* update_venue, with the events it rejects and the ballots it closes      *)
LEMMA UpdateVenueIsSetVenue ==
    ASSUME SInv, SInv', NEW w \in Workers, UpdateVenueCommit(w)
    PROVE  Lifecycle!Next
<1> DEFINE r == req[w]
           k == r.key
<1>1. /\ UpdateVenueOK(r) /\ r.step = "commit" /\ k \in DOMAIN venues
      /\ TypeOK /\ r.status \in VenueStatus \cup {None}
      /\ ReferentialIntegrity
  BY DEF SInv, IInv, InFlight, UpdateVenueCommit, At, FlightOK, Outcomes,
         UpdateVenueOK, Payloads, PayloadOK
<1>2. CASE UNCHANGED tables
  BY <1>2, SameTables DEF Lifecycle!Next, Lifecycle!LeaveAlone
<1>3. CASE ~ UNCHANGED tables
  <2>1. /\ venues' = IF r.status = None THEN venues
                     ELSE [venues EXCEPT ![k].status = r.status]
        /\ events' = SetStatus(r.evs, "rejected")
        /\ votes' = CloseBallots(r.vts)
    BY <1>3 DEF UpdateVenueCommit, Rollback, Read, tables
  <2> DEFINE s == IF r.status = None THEN venues[k].status ELSE r.status
  <2>2. venueBar' = [venueBar EXCEPT ![k].status = s]
    <3>1. /\ DOMAIN venues' = DOMAIN venues
          /\ \A x \in DOMAIN venues :
                /\ venues'[x].manager = venues[x].manager
                /\ venues'[x].status = IF x = k THEN s ELSE venues[x].status
      BY <1>1, <2>1 DEF TypeOK, IsTable, Venue
    <3>2. \A o, p : [[owner |-> o, status |-> p] EXCEPT !.status = s]
                        = [owner |-> o, status |-> s]
      OBVIOUS
    <3> HIDE DEF s
    <3> QED
      BY <1>1, <3>1, <3>2 DEF venueBar
  <2>3. r.evs \subseteq DOMAIN events
    BY <1>1 DEF UpdateVenueOK, ClosingOK, EventsAt
  <2>4. \A e \in DOMAIN events :
             /\ e \in r.evs =>
                   flatEvent(e)' = Lifecycle!Decided(flatEvent(e), "rejected")
             /\ e \notin r.evs => flatEvent(e)' = flatEvent(e)
    BY <2>1, <2>3, DecidedFlat
  <2>5. DOMAIN events' = DOMAIN events
    BY <2>1 DEF SetStatus
  <2>6. \A e \in DOMAIN events :
            flatEvent(e)' = IF s = "closed" /\ events[e].venue = k
                            THEN Lifecycle!Decided(flatEvent(e), "rejected")
                            ELSE flatEvent(e)
    <3>1. CASE r.status # "closed" /\ r.evs = {} /\ r.vts = {}
      <4>1. r.status # None
        <5>1. SUFFICES ASSUME r.status = None PROVE FALSE
          OBVIOUS
        <5>2. SetStatus({}, "rejected") = events /\ CloseBallots({}) = votes
          BY <1>1 DEF SetStatus, CloseBallots, TypeOK, IsTable
        <5>3. events' = events /\ votes' = votes
          BY <2>1, <3>1, <5>2
        <5> QED
          BY <1>3, <2>1, <5>1, <5>3 DEF tables
      <4> QED
        BY <2>4, <3>1, <4>1
    <3>2. CASE ClosingOK(r)
      <4>1. s = "closed" /\ r.evs = {e \in EventsAt(k) : events[e].status # "rejected"}
        BY <1>1, <3>2 DEF ClosingOK, RequestsAssumption
      <4>2. SUFFICES ASSUME NEW e \in DOMAIN events
                     PROVE  flatEvent(e)' = IF events[e].venue = k
                                THEN Lifecycle!Decided(flatEvent(e), "rejected")
                                ELSE flatEvent(e)
        BY <4>1
      <4>3. CASE e \in r.evs
        BY <2>4, <4>1, <4>3 DEF EventsAt
      <4>4. CASE e \notin r.evs /\ events[e].venue = k
        <5>1. events[e].status = "rejected"
          BY <4>1, <4>4 DEF EventsAt
        <5> QED
          BY <2>4, <4>4, <5>1, RejectedIsDecided
      <4>5. CASE events[e].venue # k
        BY <2>4, <4>1, <4>5 DEF EventsAt
      <4> QED
        BY <4>3, <4>4, <4>5
    <3> QED
      BY <1>1, <3>1, <3>2 DEF UpdateVenueOK
  <2>7. Lifecycle!SetVenue(k, s)
    BY <1>1, <2>2, <2>5, <2>6, Bars DEF Lifecycle!SetVenue, Lifecycle!At
  <2>8. s \in Lifecycle!VenueState
    BY <1>1 DEF Lifecycle!VenueState, VenueStatus, TypeOK, IsTable, Venue
  <2> QED
    BY <1>1, <2>7, <2>8, Bars DEF Lifecycle!Next
<1> QED
  BY <1>2, <1>3


(* The votes on an event that stays are not in the cascade.                *)
LEMMA DropKeepsOthers ==
    ASSUME SInv, NEW es, NEW vs, DropEvents(es, vs), NEW e \in DOMAIN events,
           e \notin es, \A v \in vs \cap DOMAIN votes : votes[v].event \in es
    PROVE  flatEvent(e)' = flatEvent(e)
<1>1. events'[e] = events[e]
  BY DEF DropEvents, Delete, Restrict
<1>2. /\ DOMAIN votes' = {v \in DOMAIN votes : votes[v].event \notin es}
      /\ \A v \in DOMAIN votes' : votes'[v] = votes[v]
  BY DEF DropEvents, Delete, Restrict
<1>3. Voters(e)' = Voters(e)
  BY <1>2, SameVoters
<1> QED
  BY <1>1, <1>3 DEF flatEvent

(* delete_venue, which takes its events and their votes along              *)
LEMMA DeleteVenueIsDemolish ==
    ASSUME SInv, SInv', NEW w \in Workers, DeleteVenueCommit(w)
    PROVE  Lifecycle!Next
<1> DEFINE k == req[w].key
<1>1. k \in DOMAIN venues /\ venues[k].status = "closed"
  BY DEF SInv, InFlight, FlightOK, DeleteVenueCommit, At, Outcomes, DeleteVenueOK
<1>2. /\ DropEvents(EventsAt(k), {})
      /\ DOMAIN venues' = DOMAIN venues \ {k}
      /\ \A x \in DOMAIN venues' : venues'[x] = venues[x]
      /\ DOMAIN events' = DOMAIN events \ EventsAt(k)
  BY DEF DeleteVenueCommit, DropEvents, Delete, Restrict
<1>3. \A e \in DOMAIN events' : flatEvent(e)' = flatEvent(e)
  BY <1>2, DropKeepsOthers
<1>4. venueBar' = Lifecycle!Without(venueBar, {k})
  BY <1>2 DEF venueBar, Lifecycle!Without, Lifecycle!Restrict
<1>5. Lifecycle!At(k) = EventsAt(k)
  BY Bars DEF Lifecycle!At, EventsAt
<1>6. eventBar' = Lifecycle!Without(eventBar, EventsAt(k))
  BY <1>2, <1>3, Bars DEF Lifecycle!Without, Lifecycle!Restrict
<1>7. Lifecycle!Demolish(k)
  BY <1>1, <1>4, <1>5, <1>6, Bars DEF Lifecycle!Demolish
<1> QED
  BY <1>1, <1>7, Bars DEF Lifecycle!Next

-----------------------------------------------------------------------------
(* Commits on events                                                       *)

LEMMA CreateEventIsPropose ==
    ASSUME SInv, SInv', NEW w \in Workers, CreateEventCommit(w)
    PROVE  Lifecycle!Next
<1> DEFINE r == req[w]
<1>1. /\ r.venue \in DOMAIN venues /\ venues[r.venue].status = "available"
      /\ r.user \in Customers /\ r.status \in EventStatus
  BY DEF CreateEventCommit, At, SInv, IInv, InFlight, FlightOK, CreateEventOK,
         Payloads, PayloadOK, Outcomes
<1>2. PICK e \in EventIds :
        /\ IsNextId(events, e)
        /\ events' = Insert(events, e,
                [status |-> r.status, date |-> r.date, venue |-> r.venue,
                 customer |-> r.user, vote_count |-> 0])
        /\ UNCHANGED <<venues, votes, now>>
  BY <1>1 DEF CreateEventCommit
<1>3. e \notin DOMAIN events
  BY <1>2, NextIdIsFree DEF SInv, IInv, TypeOK, IsTable, EventIds
<1>4. /\ DOMAIN events' = DOMAIN events \cup {e}
      /\ \A x \in DOMAIN events : events'[x] = events[x]
      /\ events'[e].status = r.status
      /\ events'[e].venue = r.venue
      /\ events'[e].customer = r.user
      /\ events'[e].vote_count = 0
  BY <1>2, <1>3 DEF Insert
<1>5. \A x : Voters(x)' = Voters(x)
  BY <1>2, SameVoters
<1>6. Voters(e) = {}
  BY <1>3 DEF SInv, IInv, ReferentialIntegrity, Voters, VotesOf
<1>7. flatEvent(e)' = [status |-> r.status, venue |-> r.venue,
                       customer |-> r.user, ballots |-> <<>>, tally |-> 0]
  <2>1. [c \in {} |-> BallotState(r.status)] = <<>>
    OBVIOUS
  <2> QED
    BY <1>4, <1>5, <1>6, <2>1 DEF flatEvent
<1>8. \A x \in DOMAIN events : flatEvent(x)' = flatEvent(x)
  BY <1>4, <1>5 DEF flatEvent
<1>9. eventBar' = Lifecycle!Put(eventBar, e,
                    [status |-> r.status, venue |-> r.venue,
                     customer |-> r.user, ballots |-> <<>>, tally |-> 0])
  BY <1>3, <1>4, <1>7, <1>8, Bars DEF Lifecycle!Put
<1>10. venueBar' = venueBar
  BY <1>2 DEF venueBar
<1>11. Lifecycle!Propose(e, r.user, r.venue, r.status)
  BY <1>1, <1>3, <1>9, <1>10, Bars DEF Lifecycle!Propose
<1> QED
  BY <1>1, <1>2, <1>3, <1>11, Bars DEF Lifecycle!Next, Lifecycle!EventState, EventStatus


(* update_event_status, with the ballots it closes                         *)
LEMMA UpdateEventStatusIsDecide ==
    ASSUME SInv, SInv', NEW w \in Workers, UpdateEventStatusCommit(w)
    PROVE  Lifecycle!Next
<1> DEFINE r == req[w]
           k == r.key
<1>1. /\ IsPending(k) /\ r.evs = {k}
      /\ r.status \in {"approved", "rejected"}
  BY DEF SInv, IInv, InFlight, FlightOK, UpdateEventStatusCommit, At, Outcomes,
         UpdateEventStatusOK, Payloads, PayloadOK
<1>2. CASE UNCHANGED tables
  BY <1>2, SameTables DEF Lifecycle!Next, Lifecycle!LeaveAlone
<1>3. CASE ~ UNCHANGED tables
  <2>1. /\ events' = SetStatus({k}, r.status)
        /\ votes' = CloseBallots(r.vts)
        /\ venues' = venues
    BY <1>1, <1>3 DEF UpdateEventStatusCommit, Rollback, Read, tables
  <2>2. \A e \in DOMAIN events :
             /\ e = k => flatEvent(e)' = Lifecycle!Decided(flatEvent(e), r.status)
             /\ e # k => flatEvent(e)' = flatEvent(e)
    BY <1>1, <2>1, DecidedFlat DEF IsPending
  <2>3. DOMAIN events' = DOMAIN events
    BY <2>1 DEF SetStatus
  <2>4. eventBar' = [eventBar EXCEPT ![k] = Lifecycle!Decided(@, r.status)]
    BY <1>1, <2>2, <2>3, Bars DEF IsPending
  <2>5. venueBar' = venueBar
    BY <2>1 DEF venueBar
  <2>6. k \in Lifecycle!Pending
    BY <1>1, Bars DEF IsPending, Lifecycle!Pending
  <2>7. Lifecycle!Decide(k, r.status)
    BY <1>1, <2>4, <2>5, <2>6 DEF Lifecycle!Decide
  <2> QED
    BY <1>1, <2>6, <2>7 DEF Lifecycle!Next, Lifecycle!EventState
<1> QED
  BY <1>2, <1>3

(* update_event; without a venue in the payload the event moves to the     *)
(* venue it is at.                                                         *)
LEMMA UpdateEventIsMove ==
    ASSUME SInv, SInv', NEW w \in Workers, UpdateEventCommit(w)
    PROVE  Lifecycle!Next
<1> DEFINE r == req[w]
           k == r.key
           v == IF r.venue = None THEN events[k].venue ELSE r.venue
<1>1. /\ IsPending(k) /\ r.venue \in DOMAIN venues \cup {None}
      /\ TypeOK /\ ReferentialIntegrity
  BY DEF SInv, IInv, InFlight, FlightOK, UpdateEventCommit, At, Outcomes,
         UpdateEventOK
<1>2. v \in DOMAIN venues
  BY <1>1 DEF IsPending, ReferentialIntegrity
<1>3. /\ events' = [e \in DOMAIN events |->
                    IF e # k THEN events[e]
                    ELSE [events[e] EXCEPT
                            !.date  = IF r.date = None THEN @ ELSE r.date,
                            !.venue = IF r.venue = None THEN @ ELSE r.venue]]
      /\ UNCHANGED <<venues, votes, now>>
  BY <1>1 DEF UpdateEventCommit, IsPending
<1>4. /\ DOMAIN events' = DOMAIN events
      /\ \A e \in DOMAIN events :
            /\ events'[e].status = events[e].status
            /\ events'[e].customer = events[e].customer
            /\ events'[e].vote_count = events[e].vote_count
            /\ events'[e].venue = IF e = k THEN v ELSE events[e].venue
  BY <1>1, <1>3 DEF TypeOK, IsTable, Event
<1>5. \A e : Voters(e)' = Voters(e)
  BY <1>3, SameVoters
<1>6. \A e \in DOMAIN events :
        /\ e # k => flatEvent(e)' = flatEvent(e)
        /\ e = k => flatEvent(e)' = [flatEvent(e) EXCEPT !.venue = v]
  <2> SUFFICES ASSUME NEW e \in DOMAIN events
               PROVE  flatEvent(e)' = IF e = k THEN [flatEvent(e) EXCEPT !.venue = v]
                                      ELSE flatEvent(e)
    OBVIOUS
  <2>1. flatEvent(e)' = [status   |-> events[e].status,
                         venue    |-> IF e = k THEN v ELSE events[e].venue,
                         customer |-> events[e].customer,
                         ballots  |-> [c \in Voters(e) |-> BallotState(events[e].status)],
                         tally    |-> events[e].vote_count]
    BY <1>4, <1>5 DEF flatEvent
  <2> HIDE DEF v
  <2> QED
    BY <2>1, VenueEdit DEF flatEvent
<1>7. eventBar' = [eventBar EXCEPT ![k].venue = v]
  <2> HIDE DEF v
  <2> QED
    BY <1>1, <1>4, <1>6, Bars DEF IsPending
<1>8. venueBar' = venueBar
  BY <1>3 DEF venueBar
<1>9. k \in Lifecycle!Pending
  BY <1>1, Bars DEF IsPending, Lifecycle!Pending
<1>10. Lifecycle!Move(k, v)
  BY <1>2, <1>7, <1>8, <1>9, Bars DEF Lifecycle!Move
<1> QED
  BY <1>2, <1>9, <1>10, Bars DEF Lifecycle!Next

(* delete_event, whose votes go with the row                               *)
LEMMA DeleteEventIsWithdraw ==
    ASSUME SInv, SInv', NEW w \in Workers, DeleteEventCommit(w)
    PROVE  Lifecycle!Next
<1> DEFINE k == req[w].key
<1>1. IsPending(k) /\ req[w].vts \subseteq VotesOf(k)
  BY DEF SInv, InFlight, FlightOK, DeleteEventCommit, At, Outcomes, DeleteEventOK
<1>2. /\ DropEvents({k}, req[w].vts)
      /\ venues' = venues
      /\ DOMAIN events' = DOMAIN events \ {k}
  BY DEF DeleteEventCommit, DropEvents, Delete, Restrict
<1>3. \A e \in DOMAIN events' : flatEvent(e)' = flatEvent(e)
  <2>1. \A v \in req[w].vts \cap DOMAIN votes : votes[v].event \in {k}
    BY <1>1 DEF VotesOf
  <2> QED
    BY <1>2, <2>1, DropKeepsOthers
<1>4. eventBar' = Lifecycle!Without(eventBar, {k})
  BY <1>2, <1>3, Bars DEF Lifecycle!Without, Lifecycle!Restrict
<1>5. venueBar' = venueBar
  BY <1>2 DEF venueBar
<1>6. k \in Lifecycle!Pending
  BY <1>1, Bars DEF IsPending, Lifecycle!Pending
<1>7. Lifecycle!Withdraw(k)
  BY <1>4, <1>5, <1>6 DEF Lifecycle!Withdraw
<1> QED
  BY <1>6, <1>7 DEF Lifecycle!Next


-----------------------------------------------------------------------------
(* Commits on votes                                                        *)

(* A step that changes the ballots and the counter of one event.           *)
LEMMA RecountedFlat ==
    ASSUME SInv, NEW k \in DOMAIN events, NEW n,
           events' = [events EXCEPT ![k].vote_count = n]
    PROVE  /\ DOMAIN events' = DOMAIN events
           /\ flatEvent(k)' = [flatEvent(k) EXCEPT
                    !.ballots = [c \in Voters(k)' |-> BallotState(events[k].status)],
                    !.tally = n]
           /\ \A e \in DOMAIN events : e # k /\ Voters(e)' = Voters(e) =>
                    flatEvent(e)' = flatEvent(e)
<1>1. /\ DOMAIN events' = DOMAIN events
      /\ \A e \in DOMAIN events :
            /\ events'[e].status = events[e].status
            /\ events'[e].venue = events[e].venue
            /\ events'[e].customer = events[e].customer
            /\ events'[e].vote_count = IF e = k THEN n ELSE events[e].vote_count
  BY DEF SInv, IInv, TypeOK, IsTable, Event
<1>2. flatEvent(k)' =
        [status   |-> events[k].status,
         venue    |-> events[k].venue,
         customer |-> events[k].customer,
         ballots  |-> [c \in Voters(k)' |-> BallotState(events[k].status)],
         tally    |-> n]
  BY <1>1 DEF flatEvent, BallotState
<1>3. flatEvent(k)' = [flatEvent(k) EXCEPT
                    !.ballots = [c \in Voters(k)' |-> BallotState(events[k].status)],
                    !.tally = n]
  <2>1. ASSUME NEW x, NEW y
        PROVE  [flatEvent(k) EXCEPT !.ballots = x, !.tally = y]
                 = [status   |-> events[k].status,
                    venue    |-> events[k].venue,
                    customer |-> events[k].customer,
                    ballots  |-> x,
                    tally    |-> y]
    <3> DEFINE R == [status : {events[k].status}, venue : {events[k].venue},
                     customer : {events[k].customer}, ballots : {x}, tally : {y}]
               f == [flatEvent(k) EXCEPT !.ballots = x, !.tally = y]
               g == [status   |-> events[k].status,
                     venue    |-> events[k].venue,
                     customer |-> events[k].customer,
                     ballots  |-> x,
                     tally    |-> y]
    <3>1. f \in R
      BY DEF flatEvent
    <3>2. g \in R
      OBVIOUS
    <3> QED
      BY <3>1, <3>2
  <2> DEFINE B == [c \in Voters(k)' |-> BallotState(events[k].status)]
  <2>2. [flatEvent(k) EXCEPT !.ballots = B, !.tally = n]
          = [status   |-> events[k].status,
             venue    |-> events[k].venue,
             customer |-> events[k].customer,
             ballots  |-> B,
             tally    |-> n]
    <3> HIDE DEF B
    <3> QED
      BY <2>1
  <2> QED
    BY <1>2, <2>2
<1>4. \A e \in DOMAIN events : e # k /\ Voters(e)' = Voters(e) =>
                    flatEvent(e)' = flatEvent(e)
  BY <1>1 DEF flatEvent
<1> QED
  BY <1>1, <1>3, <1>4

(* ... as it shows in the abstract state                                   *)
LEMMA RecountedBar ==
    ASSUME SInv, SInv', NEW k \in DOMAIN events, NEW n,
           events' = [events EXCEPT ![k].vote_count = n],
           \A e \in DOMAIN events : e # k => Voters(e)' = Voters(e)
    PROVE  eventBar' = [eventBar EXCEPT
                ![k].ballots = [c \in Voters(k)' |-> BallotState(events[k].status)],
                ![k].tally = n]
<1> DEFINE B == [c \in Voters(k)' |-> BallotState(events[k].status)]
<1>1. /\ DOMAIN events' = DOMAIN events
      /\ flatEvent(k)' = [flatEvent(k) EXCEPT !.ballots = B, !.tally = n]
      /\ \A e \in DOMAIN events : e # k => flatEvent(e)' = flatEvent(e)
  BY RecountedFlat
<1> HIDE DEF B
<1>2. eventBar' = [e \in DOMAIN events |->
            IF e = k THEN [flatEvent(k) EXCEPT !.ballots = B, !.tally = n]
                     ELSE flatEvent(e)]
  BY <1>1, Bars
<1>3. eventBar = [e \in DOMAIN events |-> flatEvent(e)]
  BY Bars
<1>4. eventBar' = [eventBar EXCEPT ![k].ballots = B, ![k].tally = n]
  BY <1>2, <1>3
<1> QED
  BY <1>4 DEF B

(* cast_vote                                                               *)
LEMMA CastVoteIsVote ==
    ASSUME SInv, SInv', NEW w \in Workers, CastVoteCommit(w)
    PROVE  Lifecycle!Next
<1> DEFINE r == req[w]
<1> PICK k, c, n : k = r.key /\ c = r.user /\ n = r.count
  OBVIOUS
<1>1. /\ IsPending(k) /\ n = events[k].vote_count
      /\ \A v \in VotesOf(k) : votes[v].customer # c
      /\ c \in Customers
  BY DEF SInv, IInv, InFlight, FlightOK, CastVoteCommit, At, Outcomes, CastVoteOK,
         Payloads, PayloadOK
<1>2. PICK v \in VoteIds :
        /\ IsNextId(votes, v)
        /\ votes' = Insert(votes, v, [event |-> k, customer |-> c,
                                      status |-> "ballot_open"])
        /\ events' = [events EXCEPT ![k].vote_count = n + 1]
        /\ venues' = venues
  BY <1>1 DEF CastVoteCommit, IsPending
<1>3. v \notin DOMAIN votes
  BY <1>2, NextIdIsFree DEF SInv, IInv, TypeOK, IsTable, VoteIds
<1>4. /\ DOMAIN votes' = DOMAIN votes \cup {v}
      /\ \A x \in DOMAIN votes : votes'[x] = votes[x]
      /\ votes'[v].event = k /\ votes'[v].customer = c
  BY <1>2, <1>3 DEF Insert
<1>5. \A e \in DOMAIN events : e # k => Voters(e)' = Voters(e)
  BY <1>3, <1>4, SameVoters
<1>6. Voters(k)' = Voters(k) \cup {c}
  <2>1. VotesOf(k)' = VotesOf(k) \cup {v}
    BY <1>4 DEF VotesOf
  <2>2. \A x \in VotesOf(k) : votes'[x].customer = votes[x].customer
    BY <1>4 DEF VotesOf
  <2> QED
    BY <1>4, <2>1, <2>2 DEF Voters
<1>7. eventBar[k].ballots = [x \in Voters(k) |-> "ballot_open"]
      /\ eventBar[k].tally = events[k].vote_count
  BY <1>1, Bars DEF IsPending, flatEvent, BallotState
<1>8. [x \in Voters(k)' |-> BallotState(events[k].status)]
        = Lifecycle!Put(eventBar[k].ballots, c, "ballot_open")
  BY <1>1, <1>6, <1>7 DEF Lifecycle!Put, IsPending, BallotState
<1>9. eventBar' = [eventBar EXCEPT
            ![k].ballots = [x \in Voters(k)' |-> BallotState(events[k].status)],
            ![k].tally = n + 1]
  BY <1>1, <1>2, <1>5, RecountedBar DEF IsPending
<1>10. c \notin Voters(k)
  BY <1>1 DEF Voters
<1>11. venueBar' = venueBar
  BY <1>2 DEF venueBar
<1>12. k \in Lifecycle!Pending
  BY <1>1, Bars DEF IsPending, Lifecycle!Pending
<1>13. Lifecycle!Vote(k, c)
  <2>1. c \notin DOMAIN eventBar[k].ballots
    BY <1>7, <1>10
  <2> QED
    BY <1>1, <1>7, <1>8, <1>9, <1>11, <1>12, <2>1 DEF Lifecycle!Vote
<1> QED
  BY <1>1, <1>12, <1>13 DEF Lifecycle!Next

(* delete_vote                                                             *)
LEMMA DeleteVoteIsUnvote ==
    ASSUME SInv, SInv', NEW w \in Workers, DeleteVoteCommit(w)
    PROVE  Lifecycle!Next
<1> DEFINE r == req[w]
<1> PICK x, k, c, n :
        x = r.key /\ k = r.ref /\ c = votes[r.key].customer /\ n = r.count
  OBVIOUS
<1>1. /\ x \in DOMAIN votes /\ k = votes[x].event /\ c = votes[x].customer
      /\ votes[x].status = "ballot_open"
      /\ n = events[k].vote_count
  BY DEF SInv, InFlight, FlightOK, DeleteVoteCommit, At, Outcomes, DeleteVoteOK
<1>2. IsPending(k) /\ c \in Customers
  BY <1>1 DEF SInv, IInv, TypeOK, IsTable, Vote, ReferentialIntegrity,
              Consistent, StoredBallots, IsPending
<1>3. /\ DOMAIN votes' = DOMAIN votes \ {x}
      /\ \A y \in DOMAIN votes' : votes'[y] = votes[y]
      /\ events' = [events EXCEPT ![k].vote_count = n - 1]
      /\ venues' = venues
  BY <1>2 DEF DeleteVoteCommit, Delete, Restrict, IsPending
<1>4. \A e \in DOMAIN events : e # k => Voters(e)' = Voters(e)
  BY <1>1, <1>3, SameVoters
<1>5. Voters(k)' = Voters(k) \ {c}
  <2>1. VotesOf(k)' = VotesOf(k) \ {x}
    BY <1>3 DEF VotesOf
  <2>2. \A y \in VotesOf(k) \ {x} : /\ votes'[y].customer = votes[y].customer
                                    /\ votes[y].customer # c
    BY <1>1, <1>3 DEF VotesOf, SInv, Consistent, OneVotePerCustomer
  <2>3. x \in VotesOf(k)
    BY <1>1 DEF VotesOf
  <2> QED
    BY <2>1, <2>2, <2>3 DEF Voters
<1>6. eventBar[k].ballots = [y \in Voters(k) |-> "ballot_open"]
      /\ eventBar[k].tally = events[k].vote_count
  BY <1>2, Bars DEF IsPending, flatEvent, BallotState
<1>7. [y \in Voters(k)' |-> BallotState(events[k].status)]
        = Lifecycle!Without(eventBar[k].ballots, {c})
  BY <1>2, <1>5, <1>6 DEF Lifecycle!Without, Lifecycle!Restrict, IsPending, BallotState
<1>8. eventBar' = [eventBar EXCEPT
            ![k].ballots = [y \in Voters(k)' |-> BallotState(events[k].status)],
            ![k].tally = n - 1]
  BY <1>2, <1>3, <1>4, RecountedBar DEF IsPending
<1>9. c \in Voters(k)
  BY <1>1 DEF Voters, VotesOf
<1>10. venueBar' = venueBar
  BY <1>3 DEF venueBar
<1>11. k \in Lifecycle!Pending
  BY <1>2, Bars DEF IsPending, Lifecycle!Pending
<1>12. Lifecycle!Unvote(k, c)
  <2>1. c \in DOMAIN eventBar[k].ballots
    BY <1>6, <1>9
  <2> QED
    BY <1>1, <1>6, <1>7, <1>8, <1>10, <1>11, <2>1 DEF Lifecycle!Unvote
<1> QED
  BY <1>2, <1>11, <1>12 DEF Lifecycle!Next


-----------------------------------------------------------------------------
(* Every step                                                              *)

LEMMA InitMaps == Init => Lifecycle!Init
<1> SUFFICES ASSUME Init PROVE Lifecycle!Init
  OBVIOUS
<1>1. DOMAIN venueBar = {} /\ DOMAIN eventBar = {}
  BY DEF Init, venueBar, eventBar
<1>2. venueBar = [x \in {} |-> 0] /\ eventBar = [x \in {} |-> 0]
  BY <1>1 DEF venueBar, eventBar
<1>3. <<>> = [x \in {} |-> 0]
  OBVIOUS
<1> QED
  BY <1>2, <1>3 DEF Lifecycle!Init

(* All that is not a commit leaves the tables alone.                       *)
LEMMA OtherStepsStutter ==
    ASSUME SInv, SInv', NEW w \in Workers,
           \/ Receive(w)
           \/ UpdateVenueLoadEvents(w) \/ UpdateEventStatusLoadVenue(w)
           \/ UpdateEventLoadVenue(w) \/ LoadVotes(w)
           \/ CastVoteLoadExisting(w) \/ DeleteVoteLoadEvent(w)
           \/ Respond(w) \/ DatabaseLocked(w)
    PROVE  UNCHANGED Lifecycle!vars
<1>1. UNCHANGED tables
  BY DEF Receive, CreateVenue, UpdateVenue, DeleteVenue, CreateEvent,
         UpdateEventStatus, UpdateEvent, UpdateEventAwareDate, DeleteEvent,
         CastVote, DeleteVote, UpdateVenueLoadEvents, UpdateEventStatusLoadVenue,
         UpdateEventLoadVenue, LoadVotes, CastVoteLoadExisting,
         DeleteVoteLoadEvent, Respond, Refresh, LoadTitle, DatabaseLocked, Rollback, Read, tables
<1> QED
  BY <1>1, SameTables

(* Every step of the handlers is a step of the lifecycle or a stutter.     *)
LEMMA NextSimulates ==
    ASSUME SInv, SInv', [Next]_vars
    PROVE  [Lifecycle!Next]_(Lifecycle!vars)
<1>1. CASE \E w \in Workers : Receive(w) \/ Execute(w) \/ Respond(w) \/ DatabaseLocked(w)
  <2>1. PICK w \in Workers : Receive(w) \/ Execute(w) \/ Respond(w) \/ DatabaseLocked(w)
    BY <1>1
  <2>2. CASE Receive(w) \/ Respond(w) \/ DatabaseLocked(w)
    BY <2>2, OtherStepsStutter
  <2>3. CASE CreateVenueCommit(w)
    BY <2>3, CreateVenueIsOpen
  <2>4. CASE UpdateVenueCommit(w)
    BY <2>4, UpdateVenueIsSetVenue
  <2>5. CASE DeleteVenueCommit(w)
    BY <2>5, DeleteVenueIsDemolish
  <2>6. CASE CreateEventCommit(w)
    BY <2>6, CreateEventIsPropose
  <2>7. CASE UpdateEventStatusCommit(w)
    BY <2>7, UpdateEventStatusIsDecide
  <2>8. CASE UpdateEventCommit(w)
    BY <2>8, UpdateEventIsMove
  <2>9. CASE DeleteEventCommit(w)
    BY <2>9, DeleteEventIsWithdraw
  <2>10. CASE CastVoteCommit(w)
    BY <2>10, CastVoteIsVote
  <2>11. CASE DeleteVoteCommit(w)
    BY <2>11, DeleteVoteIsUnvote
  <2>12. CASE \/ UpdateVenueLoadEvents(w) \/ UpdateEventStatusLoadVenue(w)
              \/ UpdateEventLoadVenue(w) \/ LoadVotes(w)
              \/ CastVoteLoadExisting(w) \/ DeleteVoteLoadEvent(w)
    BY <2>12, OtherStepsStutter
  <2> QED
    BY <2>1, <2>2, <2>3, <2>4, <2>5, <2>6, <2>7, <2>8, <2>9, <2>10, <2>11, <2>12
       DEF Execute
<1>2. CASE Restart \/ Tick \/ UNCHANGED vars
  <2>1. UNCHANGED tables
    BY <1>2 DEF Restart, Tick, Read, vars, tables
  <2> QED
    BY <2>1, SameTables
<1> QED
  BY <1>1, <1>2 DEF Next

(* As long as requests stay apart, on any number of workers, the           *)
(* statements of the venue, event and vote handlers, with lock timeouts    *)
(* and restarts in between, add up to the atomic operations of             *)
(* EventLifecycle (router/venue.py, router/event.py, router/vote.py).      *)
THEOREM ApartRefinement == Spec => ([]Apart => ImplementsLifecycle)
<1>1. Init => Lifecycle!Init
  BY InitMaps
<1>2. SInv /\ SInv' /\ [Next]_vars => [Lifecycle!Next]_(Lifecycle!vars)
  BY NextSimulates
<1>3. Spec => ([]Apart => []SInv)
  BY ApartInvariance
<1> QED
  BY <1>1, <1>2, <1>3, PTL DEF Spec, ImplementsLifecycle, Lifecycle!Spec

(* One worker, that serves the requests one after the other, implements    *)
(* EventLifecycle.                                                         *)
THEOREM SerialRefinement == ASSUME OneWorker PROVE Spec => ImplementsLifecycle
<1>1. Apart
  BY OneWorkerIsApart
<1> QED
  BY <1>1, ApartRefinement, PTL
=============================================================================
