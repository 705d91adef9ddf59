------------------------ MODULE SerialBookingProofs ------------------------
(***************************************************************************)
(* What Booking guarantees when requests that are about the same event, or *)
(* about a venue that one of them changes, never overlap, for any number   *)
(* of workers and rows and any sequence of requests, lock timeouts and     *)
(* restarts included: the counter of an event is the number of its votes,  *)
(* a customer votes once, ballots follow their event, closing a venue      *)
(* rejects all its events, no handler raises.  Overlaps of two requests on *)
(* one event break these, so what is proved here is that nothing else      *)
(* does: a lock per event and venue around a handler would be enough, and  *)
(* so is one worker that serves the requests one after the other.          *)
(***************************************************************************)
EXTENDS BookingProofs

OneWorker == \A u, w \in Workers : u = w

(***************************************************************************)
(* The hypothesis.  A request is busy from the endpoint that accepted it   *)
(* until it has no statement left to send.                                 *)
(***************************************************************************)
Busy(r) ==
    r.step \notin Outcomes /\ ~ (r.step = "respond" /\ r.op \in Deletions)

(* Request r reads or writes event e or its votes.                         *)
About(r, e) ==
    \/ r.op \in {"update_event_status", "update_event", "delete_event"} /\ r.key = e
    \/ r.op = "create_event" /\ r.step = "respond" /\ r.key = e
    \/ r.op = "cast_vote" /\ r.step \notin {"respond", "title"} /\ r.key = e
    \/ r.op = "cast_vote" /\ r.step \in {"respond", "title"} /\ r.ref = e
    \/ r.op = "delete_vote" /\ r.ref = e
    \/ /\ r.op \in {"update_venue", "delete_venue"} /\ r.step # "respond"
       /\ e \in EventsAt(r.key)

(* Request r writes venue v, or shows the row it has written.              *)
Holds(r, v) ==
    /\ r.key = v
    /\ \/ r.op \in {"update_venue", "delete_venue"}
       \/ r.op = "create_venue" /\ r.step = "respond"

(* Request r relies on what it has read of venue v.                        *)
Needs(r, v) ==
    \/ Holds(r, v)
    \/ r.op \in {"create_event", "update_event"} /\ r.step # "respond" /\ r.venue = v

(* What a lock per event and a lock per venue, shared by the requests that *)
(* put events there, would see to.                                         *)
Apart ==
    \A u, w \in Workers :
        u # w /\ Busy(req[u]) /\ Busy(req[w])
        => /\ \A e \in DOMAIN events : ~ (About(req[u], e) /\ About(req[w], e))
           /\ \A v \in DOMAIN venues : ~ (Holds(req[u], v) /\ Needs(req[w], v))

(* One worker has nobody to overlap with.                                  *)
LEMMA OneWorkerIsApart == ASSUME OneWorker PROVE Apart
  BY DEF OneWorker, Apart

(***************************************************************************)
(* The strengthening: what a request has read is what the tables still     *)
(* say, from the endpoint that accepted it to its commit.                  *)
(***************************************************************************)
OpenBallots(es) ==
    {v \in DOMAIN votes : /\ votes[v].event \in es
                          /\ votes[v].status = "ballot_open"}

(* The venue will be closed, and the votes of the events at it are loaded, *)
(* except those of the events in todo.                                     *)
ClosingOK(r) ==
    /\ IF r.status = None THEN venues[r.key].status = "closed"
                          ELSE r.status = "closed"
    /\ r.evs = {e \in EventsAt(r.key) : events[e].status # "rejected"}
    /\ r.todo \subseteq EventsAt(r.key)
    /\ r.vts = OpenBallots(EventsAt(r.key) \ r.todo)

UpdateVenueOK(r) ==
    /\ r.key \in DOMAIN venues
    /\ \/ /\ r.step = "load_events"
          /\ IF r.status = None THEN venues[r.key].status = "closed"
                                ELSE r.status = "closed"
          /\ r.vts = {}
       \/ r.step = "load_votes" /\ ClosingOK(r)
       \/ r.step = "commit" /\ r.todo = {} /\ ClosingOK(r)
       \/ r.step = "commit" /\ r.status # "closed" /\ r.evs = {} /\ r.vts = {}

DeleteVenueOK(r) ==
    /\ r.step = "commit"
    /\ r.key \in DOMAIN venues /\ venues[r.key].status = "closed"

CreateEventOK(r) ==
    /\ r.step = "commit"
    /\ r.venue \in DOMAIN venues /\ venues[r.venue].status = "available"

UpdateEventStatusOK(r) ==
    /\ IsPending(r.key)
    /\ \/ r.step = "load_venue" /\ r.vts = {}
       \/ /\ r.step \in {"load_votes", "commit"}
          /\ r.evs = {r.key} /\ r.todo \subseteq {r.key}
          /\ r.vts = OpenBallots({r.key} \ r.todo)
          /\ r.step = "commit" => r.todo = {}

UpdateEventOK(r) ==
    /\ IsPending(r.key)
    /\ \/ r.step = "load_venue"
       \/ r.step = "commit" /\ r.venue \in DOMAIN venues \cup {None}

DeleteEventOK(r) ==
    /\ IsPending(r.key)
    /\ r.step \in {"load_votes", "commit"}
    /\ r.todo \subseteq {r.key} /\ r.vts \subseteq VotesOf(r.key)

CastVoteOK(r) ==
    /\ IsPending(r.key)
    /\ r.count = events[r.key].vote_count
    /\ \/ r.step = "load_existing"
       \/ /\ r.step = "commit"
          /\ \A v \in VotesOf(r.key) : votes[v].customer # r.user

DeleteVoteOK(r) ==
    /\ r.key \in DOMAIN votes
    /\ votes[r.key].status = "ballot_open"
    /\ r.ref = votes[r.key].event
    /\ \/ r.step = "load_event"
       \/ r.step = "commit" /\ r.count = events[r.ref].vote_count

FlightOK(r) ==
    /\ r.step = "respond" => /\ RowIsThere(r.op, r.key)
                             /\ r.op = "cast_vote" => votes[r.key].event = r.ref
    /\ r.step = "title" => r.op = "cast_vote" /\ r.ref \in DOMAIN events
    /\ r.step \notin Outcomes \cup {"respond", "title"} =>
        \/ r.op = "create_venue" /\ r.step = "commit"
        \/ r.op = "update_venue" /\ UpdateVenueOK(r)
        \/ r.op = "delete_venue" /\ DeleteVenueOK(r)
        \/ r.op = "create_event" /\ CreateEventOK(r)
        \/ r.op = "update_event_status" /\ UpdateEventStatusOK(r)
        \/ r.op = "update_event" /\ UpdateEventOK(r)
        \/ r.op = "delete_event" /\ DeleteEventOK(r)
        \/ r.op = "cast_vote" /\ CastVoteOK(r)
        \/ r.op = "delete_vote" /\ DeleteVoteOK(r)

InFlight == \A w \in Workers : FlightOK(req[w])

(* What holds of the tables, and of tables and requests together           *)
Consistent == OneVotePerCustomer /\ StoredBallots /\ VoteCountExact

SInv == IInv /\ Consistent /\ InFlight

-----------------------------------------------------------------------------
(* Lemmas about requests                                                   *)

(* What a request has read stays true as long as the tables do.            *)
LEMMA SameTablesSameFlight ==
    ASSUME NEW r, FlightOK(r), UNCHANGED tables
    PROVE  FlightOK(r)'
  BY DEF tables, FlightOK, UpdateVenueOK, ClosingOK, DeleteVenueOK, CreateEventOK,
         UpdateEventStatusOK, UpdateEventOK, DeleteEventOK, CastVoteOK,
         DeleteVoteOK, RowIsThere, IsPending, OpenBallots, EventsAt, VotesOf

(* A step that only reads keeps the invariant if the request it leaves     *)
(* agrees with the tables.                                                 *)
LEMMA ReadKeepsSInv ==
    ASSUME SInv, IInv', NEW w \in Workers, NEW r,
           Becomes(w, r), Read, FlightOK(r)
    PROVE  SInv'
<1>1. Consistent'
  BY DEF SInv, Read, Consistent, OneVotePerCustomer, StoredBallots,
         VoteCountExact, VotesOf
<1>2. ASSUME NEW u \in Workers PROVE FlightOK(req[u])'
  <2>1. PICK q : q = IF u = w THEN r ELSE req[u]
    OBVIOUS
  <2>2. req'[u] = q
    BY <2>1 DEF Becomes, SInv, IInv, TypeOK
  <2>3. FlightOK(q)
    BY <2>1 DEF SInv, InFlight
  <2>4. FlightOK(q)'
    BY <2>3, SameTablesSameFlight DEF Read, tables
  <2> QED
    BY <2>2, <2>4
<1>3. InFlight'
  BY <1>2 DEF InFlight
<1> QED
  BY <1>1, <1>3 DEF SInv

(* A request that has ended agrees with any tables.                        *)
LEMMA FreeIsOK ==
    ASSUME NEW o \in Outcomes
    PROVE  FlightOK(Free(o))
  BY DEF FlightOK, Free, NewRequest, Outcomes

LEMMA EndKeepsSInv ==
    ASSUME SInv, IInv', NEW w \in Workers, NEW o \in Outcomes,
           Becomes(w, Free(o)), Read
    PROVE  SInv'
  BY FreeIsOK, ReadKeepsSInv

LEMMA RefuseKeepsSInv ==
    ASSUME SInv, IInv', NEW w \in Workers, Refuse(w), Read
    PROVE  SInv'
  BY EndKeepsSInv DEF Refuse, Outcomes

(* The transaction of worker w touches no event, vote or venue but those   *)
(* that its request is about, and puts events only at the venue it needs.  *)
OwnWrites(w) ==
    /\ \A e \in DOMAIN events : ~ About(req[w], e) =>
        /\ e \in DOMAIN events' /\ events'[e] = events[e]
        /\ VotesOf(e)' = VotesOf(e)
        /\ \A v \in VotesOf(e) : votes'[v] = votes[v]
    /\ \A v \in DOMAIN venues : ~ Holds(req[w], v) =>
        v \in DOMAIN venues' /\ venues'[v] = venues[v]
    /\ \A e \in DOMAIN events' :
        \/ e \in DOMAIN events /\ events'[e].venue = events[e].venue
        \/ Needs(req[w], events'[e].venue)

LEMMA SameBallots ==
    ASSUME NEW es, \A e \in es : /\ VotesOf(e)' = VotesOf(e)
                                 /\ \A v \in VotesOf(e) : votes'[v] = votes[v]
    PROVE  OpenBallots(es)' = OpenBallots(es)
  BY DEF OpenBallots, VotesOf

(* What a request has read stays true when a request it is apart from      *)
(* commits.                                                                *)
LEMMA OthersStayInFlight ==
    ASSUME Apart, NEW u \in Workers, NEW w \in Workers, u # w, OwnWrites(w),
           ReferentialIntegrity, Busy(req[w]), NEW r, r = req[u], FlightOK(r)
    PROVE  FlightOK(r)'
<1>1. CASE ~ Busy(r)
  BY <1>1 DEF Busy, FlightOK, RowIsThere, Outcomes, Deletions
<1>2. CASE Busy(r)
  <2>1. \A e \in DOMAIN events : About(r, e) =>
            /\ e \in DOMAIN events' /\ events'[e] = events[e]
            /\ VotesOf(e)' = VotesOf(e)
            /\ \A v \in VotesOf(e) : votes'[v] = votes[v]
    BY <1>2 DEF Apart, OwnWrites
  <2>2. \A v \in DOMAIN venues : Needs(r, v) =>
            v \in DOMAIN venues' /\ venues'[v] = venues[v]
    BY <1>2 DEF Apart, OwnWrites
  <2>3. CASE r.step = "respond"
    <3>1. RowIsThere(r.op, r.key)
      BY <2>3 DEF FlightOK
    <3>2. RowIsThere(r.op, r.key)'
      <4>1. CASE r.op = "cast_vote"
        <5>1. r.key \in VotesOf(r.ref)
          BY <2>3, <3>1, <4>1 DEF FlightOK, RowIsThere, VotesOf, Deletions
        <5>2. r.ref \in DOMAIN events /\ About(r, r.ref)
          BY <2>3, <4>1, <5>1 DEF About, VotesOf, ReferentialIntegrity
        <5>3. r.key \in VotesOf(r.ref)'
          BY <2>1, <5>1, <5>2
        <5> QED
          BY <4>1, <5>3 DEF RowIsThere, VotesOf
      <4>2. CASE r.op # "cast_vote"
        BY <2>1, <2>2, <2>3, <3>1, <4>2 DEF RowIsThere, About, Needs, Holds
      <4> QED
        BY <4>1, <4>2
    <3>3. r.op = "cast_vote" => votes'[r.key].event = r.ref
      <4> HAVE r.op = "cast_vote"
      <4>1. r.key \in VotesOf(r.ref)
        BY <2>3, <3>1 DEF FlightOK, RowIsThere, VotesOf, Deletions
      <4>2. r.ref \in DOMAIN events /\ About(r, r.ref)
        BY <2>3, <4>1 DEF About, VotesOf, ReferentialIntegrity
      <4>3. r.key \in VotesOf(r.ref)'
        BY <2>1, <4>1, <4>2
      <4> QED
        BY <4>3 DEF VotesOf
    <3> QED
      BY <2>3, <3>2, <3>3 DEF FlightOK, Outcomes
  <2>4. CASE r.step \notin Outcomes \cup {"respond", "title"}
    <3>1. CASE r.op = "create_venue" /\ r.step = "commit"
      BY <3>1 DEF FlightOK
    <3>2. CASE \/ r.op = "update_venue" /\ UpdateVenueOK(r)
               \/ r.op = "delete_venue" /\ DeleteVenueOK(r)
      <4>1. /\ r.key \in DOMAIN venues /\ Holds(r, r.key)
            /\ \A e \in EventsAt(r.key) : e \in DOMAIN events /\ About(r, e)
        BY <2>4, <3>2
           DEF UpdateVenueOK, DeleteVenueOK, Holds, About, EventsAt
      <4>2. r.key \in DOMAIN venues' /\ venues'[r.key] = venues[r.key]
        BY <2>2, <4>1 DEF Needs
      <4>3. ~ Needs(req[w], r.key)
        BY <1>2, <4>1 DEF Apart
      <4>4. \A e \in EventsAt(r.key) :
                /\ e \in DOMAIN events' /\ events'[e] = events[e]
                /\ VotesOf(e)' = VotesOf(e)
                /\ \A v \in VotesOf(e) : votes'[v] = votes[v]
        BY <2>1, <4>1
      <4>5. EventsAt(r.key)' = EventsAt(r.key)
        BY <4>3, <4>4 DEF EventsAt, OwnWrites
      <4>6. {e \in EventsAt(r.key) : events[e].status # "rejected"}'
                = {e \in EventsAt(r.key) : events[e].status # "rejected"}
        BY <4>4, <4>5
      <4>7. PICK es : es = EventsAt(r.key)
        OBVIOUS
      <4>8. OpenBallots(es \ r.todo)' = OpenBallots(es \ r.todo)
        BY <4>4, <4>7, SameBallots
      <4>9. ClosingOK(r) => ClosingOK(r)'
        BY <4>2, <4>5, <4>6, <4>7, <4>8 DEF ClosingOK
      <4>10. UpdateVenueOK(r) => UpdateVenueOK(r)'
        BY <4>2, <4>9 DEF UpdateVenueOK
      <4>11. DeleteVenueOK(r) => DeleteVenueOK(r)'
        BY <4>2 DEF DeleteVenueOK
      <4> QED
        BY <2>4, <3>2, <4>10, <4>11 DEF FlightOK
    <3>3. CASE r.op = "create_event" /\ CreateEventOK(r)
      <4>1. CreateEventOK(r)'
        BY <2>2, <3>3 DEF CreateEventOK, Needs
      <4> QED
        BY <3>3, <4>1 DEF FlightOK, CreateEventOK
    <3>4. CASE r.op = "update_event_status" /\ UpdateEventStatusOK(r)
      <4>1. /\ r.key \in DOMAIN events' /\ events'[r.key] = events[r.key]
            /\ VotesOf(r.key)' = VotesOf(r.key)
            /\ \A v \in VotesOf(r.key) : votes'[v] = votes[v]
        BY <2>1, <3>4 DEF UpdateEventStatusOK, IsPending, About
      <4>2. OpenBallots({r.key} \ r.todo)' = OpenBallots({r.key} \ r.todo)
        BY <4>1, SameBallots
      <4>3. UpdateEventStatusOK(r)'
        BY <3>4, <4>1, <4>2 DEF UpdateEventStatusOK, IsPending
      <4> QED
        BY <2>4, <3>4, <4>3 DEF FlightOK
    <3>5. CASE r.op = "update_event" /\ UpdateEventOK(r)
      <4>1. UpdateEventOK(r)'
        BY <2>1, <2>2, <2>4, <3>5 DEF UpdateEventOK, IsPending, About, Needs
      <4> QED
        BY <2>4, <3>5, <4>1 DEF FlightOK
    <3>6. CASE r.op = "delete_event" /\ DeleteEventOK(r)
      <4>1. DeleteEventOK(r)'
        BY <2>1, <3>6 DEF DeleteEventOK, IsPending, About
      <4> QED
        BY <2>4, <3>6, <4>1 DEF FlightOK
    <3>7. CASE r.op = "cast_vote" /\ CastVoteOK(r)
      <4>1. CastVoteOK(r)'
        BY <2>1, <2>4, <3>7 DEF CastVoteOK, IsPending, About
      <4> QED
        BY <2>4, <3>7, <4>1 DEF FlightOK
    <3>8. CASE r.op = "delete_vote" /\ DeleteVoteOK(r)
      <4>1. /\ r.ref \in DOMAIN events /\ About(r, r.ref)
            /\ r.key \in VotesOf(r.ref)
        BY <3>8 DEF DeleteVoteOK, ReferentialIntegrity, About, VotesOf
      <4>2. /\ events'[r.ref] = events[r.ref]
            /\ r.key \in VotesOf(r.ref)' /\ votes'[r.key] = votes[r.key]
        BY <2>1, <4>1
      <4>3. DeleteVoteOK(r)'
        BY <3>8, <4>2 DEF DeleteVoteOK, VotesOf
      <4> QED
        BY <2>4, <3>8, <4>3 DEF FlightOK
    <3> QED
      BY <2>4, <3>1, <3>2, <3>3, <3>4, <3>5, <3>6, <3>7, <3>8 DEF FlightOK
  <2>5. CASE r.step = "title"
    <3>1. r.op = "cast_vote" /\ r.ref \in DOMAIN events /\ About(r, r.ref)
      BY <2>5 DEF FlightOK, About
    <3>2. r.ref \in DOMAIN events'
      BY <2>1, <3>1
    <3> QED
      BY <2>5, <3>1, <3>2 DEF FlightOK, Outcomes
  <2> QED
    BY <1>2, <2>3, <2>4, <2>5 DEF Busy
<1> QED
  BY <1>1, <1>2

(* A commit keeps the invariant if it keeps the tables consistent, leaves  *)
(* the row that the answer shows and touches only what it is about.        *)
LEMMA CommitKeepsSInv ==
    ASSUME Apart, SInv, IInv', NEW w \in Workers, NEW k, NEW op,
           req[w].op = op, req[w].step = "commit", Committed(w, k),
           RowIsThere(op, k)', op = "cast_vote" => votes'[k].event = req[w].key,
           Consistent', OwnWrites(w)
    PROVE  SInv'
<1> PICK e : e = req[w].key
  OBVIOUS
<1>1. FlightOK([NewRequest("respond", op, None, k) EXCEPT !.ref = e])'
  BY DEF FlightOK, NewRequest, Outcomes
<1>2. ASSUME NEW u \in Workers PROVE FlightOK(req[u])'
  <2>1. CASE u = w
    <3>1. req'[u] = [NewRequest("respond", op, None, k) EXCEPT !.ref = e]
      BY <2>1 DEF Committed, Becomes, SInv, IInv, TypeOK
    <3> QED
      BY <1>1, <3>1
  <2>2. CASE u # w
    <3>1. PICK q : q = req[u]
      OBVIOUS
    <3>2. req'[u] = q
      BY <2>2, <3>1 DEF Committed, Becomes, SInv, IInv, TypeOK
    <3>3. Busy(req[w])
      BY DEF Busy, Outcomes
    <3>4. FlightOK(q)
      BY <3>1 DEF SInv, InFlight
    <3>5. FlightOK(q)'
      BY <2>2, <3>1, <3>3, <3>4, OthersStayInFlight DEF SInv, IInv
    <3> QED
      BY <3>2, <3>5
  <2> QED
    BY <2>1, <2>2
<1>3. InFlight'
  BY <1>2 DEF InFlight
<1> QED
  BY <1>3 DEF SInv

-----------------------------------------------------------------------------
(* Lemmas about the tables                                                 *)

(* Deciding events and closing their open ballots keeps all in step.       *)
LEMMA DecidingIsConsistent ==
    ASSUME IInv, Consistent, NEW es, NEW vs, NEW s \in {"approved", "rejected"},
           events' = SetStatus(es, s), votes' = CloseBallots(vs),
           \A v \in OpenBallots(DOMAIN events) : v \in vs <=> votes[v].event \in es
    PROVE  Consistent'
<1>1. /\ DOMAIN events' = DOMAIN events
      /\ \A e \in DOMAIN events :
            /\ events'[e].status = IF e \in es THEN s ELSE events[e].status
            /\ events'[e].vote_count = events[e].vote_count
  BY DEF SetStatus, IInv, TypeOK, IsTable, Event
<1>2. /\ DOMAIN votes' = DOMAIN votes
      /\ \A v \in DOMAIN votes :
            /\ votes'[v].status = IF v \in vs THEN "ballot_close" ELSE votes[v].status
            /\ votes'[v].event = votes[v].event
            /\ votes'[v].customer = votes[v].customer
  BY DEF CloseBallots, IInv, TypeOK, IsTable, Vote
<1>3. OneVotePerCustomer'
  BY <1>2 DEF Consistent, OneVotePerCustomer
<1>4. StoredBallots'
  BY <1>1, <1>2
     DEF Consistent, StoredBallots, OpenBallots, IInv, ReferentialIntegrity
<1>5. \A e : VotesOf(e)' = VotesOf(e)
  BY <1>2 DEF VotesOf
<1>6. VoteCountExact'
  BY <1>1, <1>5 DEF Consistent, VoteCountExact
<1> QED
  BY <1>3, <1>4, <1>6 DEF Consistent

(* Deleting events with their votes, and no others, keeps all in step.     *)
LEMMA DroppingIsConsistent ==
    ASSUME IInv, Consistent, NEW es, NEW vs, DropEvents(es, vs),
           \A v \in vs : v \in DOMAIN votes /\ votes[v].event \in es
    PROVE  Consistent'
<1>1. /\ DOMAIN events' = DOMAIN events \ es
      /\ \A e \in DOMAIN events' : events'[e] = events[e]
      /\ DOMAIN votes' = {v \in DOMAIN votes : votes[v].event \notin es}
      /\ \A v \in DOMAIN votes' : votes'[v] = votes[v]
  BY DEF DropEvents, Delete, Restrict
<1>2. OneVotePerCustomer'
  BY <1>1 DEF Consistent, OneVotePerCustomer
<1>3. StoredBallots'
  BY <1>1 DEF Consistent, StoredBallots, IInv, ReferentialIntegrity
<1>4. \A e \in DOMAIN events' : VotesOf(e)' = VotesOf(e)
  BY <1>1 DEF VotesOf
<1>5. VoteCountExact'
  BY <1>1, <1>4 DEF Consistent, VoteCountExact
<1> QED
  BY <1>2, <1>3, <1>5 DEF Consistent

(* A write to the events that keeps statuses and counters, with votes as   *)
(* they were and no votes on an event that is new, keeps all in step.      *)
LEMMA EventsAreConsistent ==
    ASSUME IInv, Consistent, votes' = votes,
           DOMAIN events \subseteq DOMAIN events',
           \A e \in DOMAIN events :
                /\ events'[e].status = events[e].status
                /\ events'[e].vote_count = events[e].vote_count,
           \A e \in DOMAIN events' \ DOMAIN events : events'[e].vote_count = 0
    PROVE  Consistent'
<1>1. OneVotePerCustomer' /\ StoredBallots'
  BY DEF Consistent, OneVotePerCustomer, StoredBallots, IInv,
         ReferentialIntegrity
<1>2. \A e : VotesOf(e)' = VotesOf(e)
  BY DEF VotesOf
<1>3. \A e \in DOMAIN events' \ DOMAIN events : VotesOf(e) = {}
  BY DEF VotesOf, IInv, ReferentialIntegrity
<1>4. VoteCountExact'
  BY <1>2, <1>3, FS_EmptySet DEF Consistent, VoteCountExact
<1> QED
  BY <1>1, <1>4 DEF Consistent

-----------------------------------------------------------------------------
(* What the transactions touch                                             *)

(* Deciding the events in es and closing ballots of theirs                 *)
LEMMA DecidingWrites ==
    ASSUME TypeOK, NEW w \in Workers, NEW es, NEW evs \in SUBSET es, NEW vts, NEW s,
           \A e \in es : About(req[w], e), \A v \in vts : votes[v].event \in es,
           events' = SetStatus(evs, s), votes' = CloseBallots(vts),
           \A v \in DOMAIN venues : ~ Holds(req[w], v) =>
                v \in DOMAIN venues' /\ venues'[v] = venues[v]
    PROVE  OwnWrites(w)
<1>1. /\ DOMAIN events' = DOMAIN events
      /\ \A e \in DOMAIN events : /\ events'[e].venue = events[e].venue
                                  /\ e \notin es => events'[e] = events[e]
  BY DEF SetStatus, TypeOK, IsTable, Event
<1>2. /\ DOMAIN votes' = DOMAIN votes
      /\ \A v \in DOMAIN votes : /\ votes'[v].event = votes[v].event
                                 /\ v \notin vts => votes'[v] = votes[v]
  BY DEF CloseBallots, TypeOK, IsTable, Vote
<1> QED
  BY <1>1, <1>2 DEF OwnWrites, VotesOf

(* Deleting the events in es and votes of theirs                           *)
LEMMA DroppingWrites ==
    ASSUME NEW w \in Workers, NEW es, NEW vs, DropEvents(es, vs),
           \A e \in es : About(req[w], e), \A v \in vs : votes[v].event \in es,
           \A v \in DOMAIN venues : ~ Holds(req[w], v) =>
                v \in DOMAIN venues' /\ venues'[v] = venues[v]
    PROVE  OwnWrites(w)
<1>1. /\ DOMAIN events' = DOMAIN events \ es
      /\ \A e \in DOMAIN events' : events'[e] = events[e]
      /\ DOMAIN votes' \subseteq DOMAIN votes
      /\ \A v \in DOMAIN votes : votes[v].event \notin es => v \in DOMAIN votes'
      /\ \A v \in DOMAIN votes' : votes'[v] = votes[v]
  BY DEF DropEvents, Delete, Restrict
<1> QED
  BY <1>1 DEF OwnWrites, VotesOf

(* No transaction touches the rows of another event or venue than those of *)
(* its request: UPDATEs and DELETEs go by primary key, or to the rows the  *)
(* request has loaded through the relationships of its own rows.           *)
LEMMA CommitsWriteTheirOwn ==
    ASSUME SInv, NEW w \in Workers
    PROVE  /\ CreateVenueCommit(w) => OwnWrites(w)
           /\ UpdateVenueCommit(w) => OwnWrites(w)
           /\ DeleteVenueCommit(w) => OwnWrites(w)
           /\ CreateEventCommit(w) => OwnWrites(w)
           /\ UpdateEventStatusCommit(w) => OwnWrites(w)
           /\ UpdateEventCommit(w) => OwnWrites(w)
           /\ DeleteEventCommit(w) => OwnWrites(w)
           /\ CastVoteCommit(w) => OwnWrites(w)
           /\ DeleteVoteCommit(w) => OwnWrites(w)
<1> DEFINE r == req[w]
<1>0. FlightOK(r) /\ TypeOK
  BY DEF SInv, InFlight, IInv
<1>1. ASSUME Rollback(w) PROVE OwnWrites(w)
  BY <1>1 DEF Rollback, Read, OwnWrites, VotesOf
<1>2. ASSUME CreateVenueCommit(w) PROVE OwnWrites(w)
  <2>1. PICK v \in VenueIds :
            /\ IsNextId(venues, v)
            /\ venues' = Insert(venues, v, [manager |-> req[w].user,
                                            status |-> req[w].status])
    BY <1>2 DEF CreateVenueCommit
  <2>2. v \notin DOMAIN venues
    BY <1>0, <2>1, NextIdIsFree DEF TypeOK, IsTable, VenueIds
  <2>3. UNCHANGED <<events, votes>>
    BY <1>2 DEF CreateVenueCommit
  <2> QED
    BY <2>1, <2>2, <2>3 DEF OwnWrites, VotesOf, Insert
<1>3. ASSUME UpdateVenueCommit(w), ~ Rollback(w) PROVE OwnWrites(w)
  <2>1. UpdateVenueOK(r) /\ r.op = "update_venue" /\ r.step = "commit"
    BY <1>0, <1>3 DEF UpdateVenueCommit, At, FlightOK, Outcomes
  <2>2. /\ r.evs \subseteq EventsAt(r.key)
        /\ \A v \in r.vts : votes[v].event \in EventsAt(r.key)
    BY <2>1 DEF UpdateVenueOK, ClosingOK, OpenBallots
  <2>3. /\ \/ venues' = venues
           \/ venues' = [venues EXCEPT ![r.key].status = r.status]
        /\ events' = SetStatus(r.evs, "rejected")
        /\ votes' = CloseBallots(r.vts)
    BY <1>3 DEF UpdateVenueCommit
  <2>4. /\ Holds(r, r.key)
        /\ \A e \in EventsAt(r.key) : About(r, e)
    BY <2>1 DEF Holds, About
  <2>5. \A v \in DOMAIN venues : v # r.key =>
            v \in DOMAIN venues' /\ venues'[v] = venues[v]
    BY <2>3
  <2> QED
    BY <1>0, <2>2, <2>3, <2>4, <2>5, DecidingWrites
<1>4. ASSUME DeleteVenueCommit(w) PROVE OwnWrites(w)
  <2>1. /\ r.op = "delete_venue" /\ r.step = "commit"
        /\ venues' = Delete(venues, {r.key})
        /\ DropEvents(EventsAt(r.key), {})
    BY <1>4 DEF DeleteVenueCommit, At
  <2>2. /\ Holds(r, r.key)
        /\ \A e \in EventsAt(r.key) : About(r, e)
    BY <2>1 DEF Holds, About
  <2>3. \A v \in DOMAIN venues : v # r.key =>
            v \in DOMAIN venues' /\ venues'[v] = venues[v]
    BY <2>1 DEF Delete, Restrict
  <2> QED
    BY <2>1, <2>2, <2>3, DroppingWrites
<1>5. ASSUME CreateEventCommit(w), ~ Rollback(w) PROVE OwnWrites(w)
  <2>1. PICK e \in EventIds :
            /\ IsNextId(events, e)
            /\ events' = Insert(events, e,
                    [status |-> r.status, date |-> r.date, venue |-> r.venue,
                     customer |-> r.user, vote_count |-> 0])
    BY <1>5 DEF CreateEventCommit
  <2>2. e \notin DOMAIN events
    BY <1>0, <2>1, NextIdIsFree DEF TypeOK, IsTable, EventIds
  <2>3. UNCHANGED <<venues, votes>> /\ Needs(r, r.venue)
    BY <1>5 DEF CreateEventCommit, At, Needs
  <2>4. /\ DOMAIN events' = DOMAIN events \cup {e}
        /\ \A x \in DOMAIN events : events'[x] = events[x]
        /\ events'[e].venue = r.venue
    BY <2>1, <2>2 DEF Insert
  <2> QED
    BY <2>3, <2>4 DEF OwnWrites, VotesOf
<1>6. ASSUME UpdateEventStatusCommit(w), ~ Rollback(w) PROVE OwnWrites(w)
  <2>1. UpdateEventStatusOK(r) /\ r.op = "update_event_status" /\ r.step = "commit"
    BY <1>0, <1>6 DEF UpdateEventStatusCommit, At, FlightOK, Outcomes
  <2>2. r.evs = {r.key} /\ \A v \in r.vts : votes[v].event \in {r.key}
    BY <2>1 DEF UpdateEventStatusOK, OpenBallots
  <2>3. /\ events' = SetStatus(r.evs, r.status)
        /\ votes' = CloseBallots(r.vts)
        /\ venues' = venues
    BY <1>6 DEF UpdateEventStatusCommit
  <2>4. \A e \in {r.key} : About(r, e)
    BY <2>1 DEF About
  <2> QED
    BY <1>0, <2>2, <2>3, <2>4, DecidingWrites
<1>7. ASSUME UpdateEventCommit(w) PROVE OwnWrites(w)
  <2> DEFINE v == IF r.venue = None THEN events[r.key].venue ELSE r.venue
  <2>1. /\ At(w, "update_event", "commit")
        /\ IsPending(r.key) /\ r.venue \in DOMAIN venues \cup {None}
    BY <1>0, <1>7 DEF UpdateEventCommit, At, FlightOK, Outcomes, UpdateEventOK
  <2>2. About(r, r.key) /\ Needs(r, r.venue)
    BY <2>1 DEF At, About, Needs
  <2>3. /\ events' = [e \in DOMAIN events |->
                IF e # r.key THEN events[e]
                ELSE [events[e] EXCEPT
                        !.date  = IF r.date = None THEN @ ELSE r.date,
                        !.venue = IF r.venue = None THEN @ ELSE r.venue]]
        /\ UNCHANGED <<venues, votes, now>>
    BY <1>7, <2>1 DEF UpdateEventCommit, IsPending
  <2>4. /\ DOMAIN events' = DOMAIN events
        /\ \A e \in DOMAIN events : e # r.key => events'[e] = events[e]
        /\ \A e \in DOMAIN events :
                events'[e].venue = IF e = r.key THEN v ELSE events[e].venue
    BY <1>0, <2>1, <2>3 DEF TypeOK, IsTable, Event
  <2>5. \A e \in DOMAIN events : events'[e].venue \in {events[e].venue, r.venue}
    BY <2>4
  <2> QED
    BY <2>2, <2>3, <2>4, <2>5 DEF OwnWrites, VotesOf
<1>8. ASSUME DeleteEventCommit(w) PROVE OwnWrites(w)
  <2>1. DeleteEventOK(r) /\ r.op = "delete_event"
    BY <1>0, <1>8 DEF DeleteEventCommit, At, FlightOK, Outcomes
  <2>2. DropEvents({r.key}, r.vts) /\ venues' = venues
    BY <1>8 DEF DeleteEventCommit
  <2>3. \A v \in r.vts : votes[v].event \in {r.key}
    BY <2>1 DEF DeleteEventOK, VotesOf
  <2>4. \A e \in {r.key} : About(r, e)
    BY <2>1 DEF About
  <2> QED
    BY <2>2, <2>3, <2>4, DroppingWrites
<1>9. ASSUME CastVoteCommit(w), ~ Rollback(w) PROVE OwnWrites(w)
  <2>1. PICK v \in VoteIds :
            /\ IsNextId(votes, v)
            /\ votes' = Insert(votes, v, [event |-> r.key, customer |-> r.user,
                                          status |-> "ballot_open"])
            /\ events' = [events EXCEPT ![r.key].vote_count = r.count + 1]
            /\ venues' = venues
    BY <1>9 DEF CastVoteCommit
  <2>2. v \notin DOMAIN votes
    BY <1>0, <2>1, NextIdIsFree DEF TypeOK, IsTable, VoteIds
  <2>3. About(r, r.key)
    BY <1>9 DEF CastVoteCommit, At, About
  <2>4. /\ DOMAIN events' = DOMAIN events
        /\ \A e \in DOMAIN events : e # r.key => events'[e] = events[e]
        /\ \A e \in DOMAIN events : events'[e].venue = events[e].venue
    BY <1>0, <2>1 DEF TypeOK, IsTable, Event
  <2>5. /\ DOMAIN votes' = DOMAIN votes \cup {v} /\ votes'[v].event = r.key
        /\ \A u \in DOMAIN votes : votes'[u] = votes[u]
    BY <2>1, <2>2 DEF Insert
  <2> QED
    BY <2>1, <2>3, <2>4, <2>5 DEF OwnWrites, VotesOf
<1>10. ASSUME DeleteVoteCommit(w), ~ Rollback(w) PROVE OwnWrites(w)
  <2>1. DeleteVoteOK(r) /\ r.op = "delete_vote"
    BY <1>0, <1>10 DEF DeleteVoteCommit, At, FlightOK, Outcomes
  <2>2. /\ votes' = Delete(votes, {r.key}) /\ votes[r.key].event = r.ref
        /\ events' = [events EXCEPT ![r.ref].vote_count = r.count - 1]
        /\ venues' = venues
    BY <1>10, <2>1 DEF DeleteVoteCommit, DeleteVoteOK
  <2>3. About(r, r.ref)
    BY <2>1 DEF About
  <2>4. /\ DOMAIN events' = DOMAIN events
        /\ \A e \in DOMAIN events : e # r.ref => events'[e] = events[e]
        /\ \A e \in DOMAIN events : events'[e].venue = events[e].venue
    BY <1>0, <2>2 DEF TypeOK, IsTable, Event
  <2>5. /\ DOMAIN votes' = DOMAIN votes \ {r.key}
        /\ \A u \in DOMAIN votes' : votes'[u] = votes[u]
    BY <2>2 DEF Delete, Restrict
  <2>6. \A e : e # r.ref => /\ VotesOf(e)' = VotesOf(e)
                            /\ \A v \in VotesOf(e) : votes'[v] = votes[v]
    BY <2>2, <2>5 DEF VotesOf
  <2> QED
    BY <2>2, <2>3, <2>4, <2>6 DEF OwnWrites
<1> QED
  BY <1>1, <1>2, <1>3, <1>4, <1>5, <1>6, <1>7, <1>8, <1>9, <1>10

-----------------------------------------------------------------------------
(* The endpoints of router/venue.py                                        *)

LEMMA VenueEndpointsKeepSInv ==
    ASSUME Apart, SInv, IInv', NEW w \in Workers
    PROVE  /\ CreateVenue(w) => SInv'
           /\ CreateVenueCommit(w) => SInv'
           /\ UpdateVenue(w) => SInv'
           /\ UpdateVenueLoadEvents(w) => SInv'
           /\ UpdateVenueCommit(w) => SInv'
           /\ DeleteVenue(w) => SInv'
           /\ DeleteVenueCommit(w) => SInv'
<1>0. /\ IInv /\ Consistent /\ FlightOK(req[w]) /\ req[w] \in Request
      /\ TypeOK
  BY DEF SInv, InFlight, IInv, TypeOK
<1>1. ASSUME CreateVenue(w) PROVE SInv'
  <2>1. PICK m \in Managers, s \in VenueInputs :
            Becomes(w, [Call("create_venue", m, 0) EXCEPT !.status = s])
    BY <1>1 DEF CreateVenue
  <2>2. FlightOK([Call("create_venue", m, 0) EXCEPT !.status = s])
    BY DEF FlightOK, Call, NewRequest
  <2> QED
    BY <1>1, <2>1, <2>2, ReadKeepsSInv DEF CreateVenue
<1>2. ASSUME CreateVenueCommit(w) PROVE SInv'
  <2>1. PICK v \in VenueIds :
            /\ venues' = Insert(venues, v, [manager |-> req[w].user,
                                            status |-> req[w].status])
            /\ Committed(w, v)
    BY <1>2 DEF CreateVenueCommit
  <2>2. req[w].op = "create_venue" /\ UNCHANGED <<events, votes>>
    BY <1>2 DEF CreateVenueCommit, At
  <2>3. RowIsThere("create_venue", v)'
    BY <2>1 DEF RowIsThere, Insert
  <2>4. Consistent'
    BY <1>0, <2>2, EventsAreConsistent
  <2> QED
    BY <1>2, <2>1, <2>2, <2>3, <2>4, CommitKeepsSInv, CommitsWriteTheirOwn
       DEF CreateVenueCommit, At
<1>3. ASSUME UpdateVenue(w) PROVE SInv'
  <2>1. PICK m \in Managers, v \in VenueIds, s \in VenueInputs \cup {None} :
            IF v \notin DOMAIN venues \/ venues[v].manager # m
            THEN Refuse(w)
            ELSE LET new == IF s = None THEN venues[v].status ELSE s
                 IN Becomes(w, [Call("update_venue", m, v) EXCEPT
                        !.status = IF new = venues[v].status THEN None ELSE new,
                        !.step = IF new = "closed" THEN "load_events" ELSE "commit"])
    BY <1>3 DEF UpdateVenue
  <2>2. CASE v \notin DOMAIN venues \/ venues[v].manager # m
    BY <1>3, <2>1, <2>2, RefuseKeepsSInv DEF UpdateVenue
  <2>3. CASE ~ (v \notin DOMAIN venues \/ venues[v].manager # m)
    <3> DEFINE new == IF s = None THEN venues[v].status ELSE s
               st == IF new = venues[v].status THEN None ELSE new
               sp == IF new = "closed" THEN "load_events" ELSE "commit"
               r == [Call("update_venue", m, v) EXCEPT !.status = st, !.step = sp]
    <3>1. /\ r.step = sp /\ r.op = "update_venue" /\ r.key = v
          /\ r.status = st /\ r.evs = {} /\ r.vts = {}
      BY DEF Call, NewRequest
    <3>2. None # "closed"
      BY RequestsAssumption DEF VenueStatus
    <3>3. /\ sp = "load_events" => IF st = None THEN venues[v].status = "closed"
                                                ELSE st = "closed"
          /\ sp = "commit" => st # "closed"
      BY <3>2
    <3>4. FlightOK(r)
      BY <2>3, <3>1, <3>3 DEF FlightOK, UpdateVenueOK
    <3> QED
      BY <1>3, <2>1, <2>3, <3>4, ReadKeepsSInv DEF UpdateVenue
  <2> QED
    BY <2>2, <2>3
<1>4. ASSUME UpdateVenueLoadEvents(w) PROVE SInv'
  <2> DEFINE es == EventsAt(req[w].key)
             chg == {e \in es : events[e].status # "rejected"}
             sp == IF es = {} THEN "commit" ELSE "load_votes"
             r == [req[w] EXCEPT !.evs = chg, !.todo = es, !.step = sp]
  <2>1. /\ r.step = sp /\ r.op = "update_venue" /\ r.key = req[w].key
        /\ r.status = req[w].status /\ r.evs = chg /\ r.todo = es
        /\ r.vts = req[w].vts
    BY <1>0, <1>4 DEF UpdateVenueLoadEvents, At, Request
  <2>2. /\ UpdateVenueOK(req[w]) /\ req[w].step = "load_events"
    BY <1>0, <1>4 DEF UpdateVenueLoadEvents, At, FlightOK, Outcomes
  <2>3. OpenBallots(EventsAt(r.key) \ r.todo) = {}
    BY <2>1 DEF OpenBallots
  <2>4. UpdateVenueOK(r)
    BY <2>1, <2>2, <2>3 DEF UpdateVenueOK, ClosingOK
  <2>5. FlightOK(r)
    BY <2>1, <2>4 DEF FlightOK
  <2> QED
    BY <1>4, <2>5, ReadKeepsSInv DEF UpdateVenueLoadEvents
<1>5. ASSUME UpdateVenueCommit(w) PROVE SInv'
  <2> DEFINE r == req[w]
  <2>1. UpdateVenueOK(r) /\ r.step = "commit" /\ r.op = "update_venue"
    BY <1>0, <1>5 DEF UpdateVenueCommit, At, FlightOK, Outcomes
  <2>2. \A v \in OpenBallots(DOMAIN events) : v \in r.vts <=> votes[v].event \in r.evs
    BY <1>0, <2>1
       DEF UpdateVenueOK, ClosingOK, OpenBallots, EventsAt, Consistent,
           StoredBallots
  <2>3. r.evs \subseteq DOMAIN events /\ r.vts \subseteq DOMAIN votes
    BY <2>1 DEF UpdateVenueOK, ClosingOK, OpenBallots, EventsAt
  <2>4. /\ venues' = IF r.status = None THEN venues
                     ELSE [venues EXCEPT ![r.key].status = r.status]
        /\ events' = SetStatus(r.evs, "rejected")
        /\ votes' = CloseBallots(r.vts)
        /\ Committed(w, r.key)
    BY <1>5, <2>1, <2>3 DEF UpdateVenueCommit, UpdateVenueOK
  <2>7. PICK k : k = r.key
    OBVIOUS
  <2>5. RowIsThere("update_venue", k)'
    BY <2>1, <2>4, <2>7 DEF UpdateVenueOK, RowIsThere
  <2>6. Consistent'
    BY <1>0, <2>2, <2>4, DecidingIsConsistent
  <2> QED
    BY <1>5, <2>1, <2>4, <2>5, <2>6, <2>7, CommitKeepsSInv, CommitsWriteTheirOwn
       DEF UpdateVenueCommit, At
<1>6. ASSUME DeleteVenue(w) PROVE SInv'
  <2>1. PICK m \in Managers, v \in VenueIds :
            IF \/ v \notin DOMAIN venues
               \/ venues[v].manager # m
               \/ venues[v].status # "closed"
            THEN Refuse(w)
            ELSE Becomes(w, Call("delete_venue", m, v))
    BY <1>6 DEF DeleteVenue
  <2>2. CASE Refuse(w)
    BY <1>6, <2>2, RefuseKeepsSInv DEF DeleteVenue
  <2>3. CASE ~ Refuse(w)
    <3>1. FlightOK(Call("delete_venue", m, v))
      BY <2>1, <2>3 DEF FlightOK, DeleteVenueOK, Call, NewRequest
    <3> QED
      BY <1>6, <2>1, <2>3, <3>1, ReadKeepsSInv DEF DeleteVenue
  <2> QED
    BY <2>2, <2>3
<1>7. ASSUME DeleteVenueCommit(w) PROVE SInv'
  <2>1. /\ DropEvents(EventsAt(req[w].key), {})
        /\ Committed(w, req[w].key)
        /\ req[w].op = "delete_venue"
    BY <1>7 DEF DeleteVenueCommit, At
  <2>2. Consistent'
    BY <1>0, <2>1, DroppingIsConsistent
  <2>3. \A k : RowIsThere("delete_venue", k)'
    BY DEF RowIsThere, Deletions
  <2> QED
    BY <1>7, <2>1, <2>2, <2>3, CommitKeepsSInv, CommitsWriteTheirOwn
       DEF DeleteVenueCommit, At
<1> QED
  BY <1>1, <1>2, <1>3, <1>4, <1>5, <1>6, <1>7

-----------------------------------------------------------------------------
(* The endpoints of router/event.py                                        *)

LEMMA EventRequestsKeepSInv ==
    ASSUME SInv, IInv', NEW w \in Workers
    PROVE  /\ CreateEvent(w) => SInv'
           /\ UpdateEventStatus(w) => SInv'
           /\ UpdateEventStatusLoadVenue(w) => SInv'
           /\ UpdateEvent(w) => SInv'
           /\ UpdateEventLoadVenue(w) => SInv'
           /\ DeleteEvent(w) => SInv'
<1>0. /\ IInv /\ Consistent /\ FlightOK(req[w]) /\ req[w] \in Request
      /\ TypeOK
  BY DEF SInv, InFlight, IInv, TypeOK
<1>1. ASSUME CreateEvent(w) PROVE SInv'
  <2>1. PICK c \in Customers, v \in VenueIds, d \in Dates, s \in EventInputs :
            IF v \notin DOMAIN venues \/ venues[v].status # "available"
            THEN Refuse(w)
            ELSE Becomes(w, [Call("create_event", c, 0) EXCEPT
                                !.venue = v, !.date = d, !.status = s])
    BY <1>1 DEF CreateEvent
  <2>2. CASE Refuse(w)
    BY <1>1, <2>2, RefuseKeepsSInv DEF CreateEvent
  <2>3. CASE ~ Refuse(w)
    <3> DEFINE r == [Call("create_event", c, 0) EXCEPT
                        !.venue = v, !.date = d, !.status = s]
    <3>1. r.step = "commit" /\ r.op = "create_event" /\ r.venue = v
      BY DEF Call, NewRequest
    <3>2. FlightOK(r)
      BY <2>1, <2>3, <3>1 DEF FlightOK, CreateEventOK
    <3> QED
      BY <1>1, <2>1, <2>3, <3>2, ReadKeepsSInv DEF CreateEvent
  <2> QED
    BY <2>2, <2>3
<1>2. ASSUME UpdateEventStatus(w) PROVE SInv'
  <2> DEFINE r(m, e, s) == [Call("update_event_status", m, e) EXCEPT
                                !.ref = events[e].venue,
                                !.date = events[e].date,
                                !.status = s,
                                !.step = "load_venue"]
  <2>1. PICK m \in Managers, e \in EventIds, s \in EventInputs :
            IF \/ e \notin DOMAIN events
               \/ events[e].status # "pending"
               \/ s \notin {"approved", "rejected"}
            THEN Refuse(w)
            ELSE Becomes(w, r(m, e, s))
    BY <1>2 DEF UpdateEventStatus
  <2>2. CASE Refuse(w)
    BY <1>2, <2>2, RefuseKeepsSInv DEF UpdateEventStatus
  <2>3. CASE ~ Refuse(w)
    <3>1. /\ r(m, e, s).step = "load_venue" /\ r(m, e, s).key = e
          /\ r(m, e, s).op = "update_event_status" /\ r(m, e, s).vts = {}
      BY DEF Call, NewRequest
    <3>2. FlightOK(r(m, e, s))
      BY <2>1, <2>3, <3>1 DEF FlightOK, UpdateEventStatusOK, IsPending
    <3> QED
      BY <1>2, <2>1, <2>3, <3>2, ReadKeepsSInv DEF UpdateEventStatus
  <2> QED
    BY <2>2, <2>3
<1>3. ASSUME UpdateEventStatusLoadVenue(w) PROVE SInv'
  <2> DEFINE r == [req[w] EXCEPT !.evs = {req[w].key}, !.todo = {req[w].key},
                                 !.step = "load_votes"]
  <2>1. CASE Refuse(w)
    BY <1>3, <2>1, RefuseKeepsSInv DEF UpdateEventStatusLoadVenue
  <2>2. CASE ~ Refuse(w)
    <3>1. Becomes(w, r) /\ Read /\ req[w].op = "update_event_status"
          /\ req[w].step = "load_venue"
      BY <1>3, <2>2 DEF UpdateEventStatusLoadVenue, At
    <3>2. /\ r.step = "load_votes" /\ r.op = "update_event_status"
          /\ r.key = req[w].key /\ r.evs = {r.key} /\ r.todo = {r.key}
          /\ r.vts = req[w].vts
      BY <1>0, <3>1 DEF Request
    <3>3. IsPending(r.key) /\ r.vts = {}
      BY <1>0, <3>1, <3>2 DEF FlightOK, UpdateEventStatusOK, Outcomes
    <3>4. OpenBallots({r.key} \ r.todo) = {}
      BY <3>2 DEF OpenBallots
    <3> HIDE DEF r
    <3>5. FlightOK(r)
      BY <3>2, <3>3, <3>4 DEF FlightOK, UpdateEventStatusOK
    <3> QED
      BY <3>1, <3>5, ReadKeepsSInv
  <2> QED
    BY <2>1, <2>2
<1>4. ASSUME UpdateEvent(w) PROVE SInv'
  <2> DEFINE r(c, e, d, v) == [Call("update_event", c, e) EXCEPT
                !.date = IF d = events[e].date THEN None ELSE d,
                !.venue = v,
                !.ref = events[e].venue,
                !.step = IF v = None THEN "commit" ELSE "load_venue"]
  <2>1. PICK c \in Customers, e \in EventIds,
             d \in Dates \cup {None}, v \in VenueIds \cup {None} :
            IF \/ e \notin DOMAIN events
               \/ events[e].customer # c
               \/ events[e].status # "pending"
               \/ d # None /\ d <= now
            THEN Refuse(w)
            ELSE Becomes(w, r(c, e, d, v))
    BY <1>4 DEF UpdateEvent
  <2>2. CASE Refuse(w)
    BY <1>4, <2>2, RefuseKeepsSInv DEF UpdateEvent
  <2>3. CASE ~ Refuse(w)
    <3>1. /\ r(c, e, d, v).step = IF v = None THEN "commit" ELSE "load_venue"
          /\ r(c, e, d, v).key = e /\ r(c, e, d, v).venue = v
          /\ r(c, e, d, v).op = "update_event"
      BY DEF Call, NewRequest
    <3>2. FlightOK(r(c, e, d, v))
      BY <2>1, <2>3, <3>1 DEF FlightOK, UpdateEventOK, IsPending
    <3> QED
      BY <1>4, <2>1, <2>3, <3>2, ReadKeepsSInv DEF UpdateEvent
  <2> QED
    BY <2>2, <2>3
<1>5. ASSUME UpdateEventLoadVenue(w) PROVE SInv'
  <2> DEFINE v == IF req[w].venue = req[w].ref THEN None ELSE req[w].venue
             r == [req[w] EXCEPT !.venue = v, !.step = "commit"]
  <2>1. CASE Refuse(w)
    BY <1>5, <2>1, RefuseKeepsSInv DEF UpdateEventLoadVenue
  <2>2. CASE ~ Refuse(w)
    <3>1. /\ req[w].venue \in DOMAIN venues
          /\ Becomes(w, [req[w] EXCEPT
                !.venue = IF @ = req[w].ref THEN None ELSE @, !.step = "commit"])
          /\ Read
          /\ req[w].op = "update_event" /\ req[w].step = "load_venue"
      BY <1>5, <2>2 DEF UpdateEventLoadVenue, At
    <3>2. /\ r.step = "commit" /\ r.op = "update_event"
          /\ r.key = req[w].key /\ r.venue = v
      BY <1>0, <3>1 DEF Request
    <3>3. IsPending(req[w].key)
      BY <1>0, <3>1 DEF FlightOK, UpdateEventOK, Outcomes
    <3>4. Becomes(w, r)
      BY <1>0, <3>1 DEF Request
    <3> HIDE DEF r
    <3>5. FlightOK(r)
      BY <3>1, <3>2, <3>3 DEF FlightOK, UpdateEventOK
    <3> QED
      BY <3>1, <3>4, <3>5, ReadKeepsSInv
  <2> QED
    BY <2>1, <2>2
<1>6. ASSUME DeleteEvent(w) PROVE SInv'
  <2> DEFINE r(c, e) == [Call("delete_event", c, e) EXCEPT
                            !.todo = {e}, !.step = "load_votes"]
  <2>1. PICK c \in Customers, e \in EventIds :
            IF \/ e \notin DOMAIN events
               \/ events[e].customer # c
               \/ events[e].status # "pending"
            THEN Refuse(w)
            ELSE Becomes(w, r(c, e))
    BY <1>6 DEF DeleteEvent
  <2>2. CASE Refuse(w)
    BY <1>6, <2>2, RefuseKeepsSInv DEF DeleteEvent
  <2>3. CASE ~ Refuse(w)
    <3>1. /\ r(c, e).step = "load_votes" /\ r(c, e).key = e
          /\ r(c, e).op = "delete_event" /\ r(c, e).vts = {} /\ r(c, e).todo = {e}
      BY DEF Call, NewRequest
    <3>2. FlightOK(r(c, e))
      BY <2>1, <2>3, <3>1 DEF FlightOK, DeleteEventOK, IsPending
    <3> QED
      BY <1>6, <2>1, <2>3, <3>2, ReadKeepsSInv DEF DeleteEvent
  <2> QED
    BY <2>2, <2>3
<1> QED
  BY <1>1, <1>2, <1>3, <1>4, <1>5, <1>6

(* Loading the votes of one more event                                     *)
LEMMA LoadVotesKeepsSInv ==
    ASSUME SInv, IInv', NEW w \in Workers, LoadVotes(w)
    PROVE  SInv'
<1>0. /\ IInv /\ Consistent /\ FlightOK(req[w]) /\ req[w] \in Request
  BY DEF SInv, InFlight, IInv, TypeOK
<1> DEFINE found(e) == {v \in VotesOf(e) : \/ req[w].op = "delete_event"
                                           \/ votes[v].status = "ballot_open"}
           left(e) == req[w].todo \ {e}
           sp(e) == IF left(e) = {} THEN "commit" ELSE "load_votes"
           r(e) == [req[w] EXCEPT !.vts = @ \cup found(e), !.todo = left(e),
                                  !.step = sp(e)]
<1>1. PICK e \in req[w].todo : Becomes(w, r(e))
  BY DEF LoadVotes
<1>2. /\ r(e).step = sp(e) /\ r(e).todo = left(e)
      /\ r(e).vts = req[w].vts \cup found(e)
      /\ r(e).op = req[w].op /\ r(e).key = req[w].key
      /\ r(e).status = req[w].status /\ r(e).evs = req[w].evs
  BY <1>0 DEF Request
<1>3. req[w].step = "load_votes" /\ Read
  BY DEF LoadVotes
<1>4. \A X : e \in X /\ req[w].op # "delete_event" =>
        OpenBallots(X \ left(e)) = OpenBallots(X \ req[w].todo) \cup found(e)
  BY <1>1 DEF OpenBallots, VotesOf
<1>5. CASE req[w].op = "update_venue"
  <2>1. UpdateVenueOK(req[w])
    BY <1>0, <1>3, <1>5 DEF FlightOK, Outcomes
  <2>2. /\ req[w].key \in DOMAIN venues /\ ClosingOK(req[w])
        /\ e \in EventsAt(req[w].key)
    BY <1>1, <1>3, <2>1 DEF UpdateVenueOK, ClosingOK
  <2>3. r(e).vts = OpenBallots(EventsAt(req[w].key) \ left(e))
    BY <1>2, <1>4, <1>5, <2>2 DEF ClosingOK
  <2> HIDE DEF r
  <2>4. ClosingOK(r(e))
    BY <1>2, <2>2, <2>3 DEF ClosingOK
  <2>5. UpdateVenueOK(r(e))
    BY <1>2, <2>2, <2>4 DEF UpdateVenueOK
  <2>6. FlightOK(r(e))
    BY <1>2, <1>5, <2>5 DEF FlightOK
  <2> QED
    BY <1>1, <1>3, <2>6, ReadKeepsSInv
<1>6. CASE req[w].op = "update_event_status"
  <2>1. UpdateEventStatusOK(req[w])
    BY <1>0, <1>3, <1>6 DEF FlightOK, Outcomes
  <2>2. /\ IsPending(req[w].key)
        /\ req[w].evs = {req[w].key} /\ req[w].todo \subseteq {req[w].key}
        /\ req[w].vts = OpenBallots({req[w].key} \ req[w].todo)
        /\ e = req[w].key
    BY <1>1, <1>3, <2>1 DEF UpdateEventStatusOK
  <2>3. r(e).vts = OpenBallots({req[w].key} \ left(e))
    BY <1>2, <1>4, <1>6, <2>2
  <2> HIDE DEF r
  <2>5. UpdateEventStatusOK(r(e))
    BY <1>2, <2>2, <2>3 DEF UpdateEventStatusOK
  <2>6. FlightOK(r(e))
    BY <1>2, <1>6, <2>5 DEF FlightOK
  <2> QED
    BY <1>1, <1>3, <2>6, ReadKeepsSInv
<1>7. CASE req[w].op = "delete_event"
  <2>1. DeleteEventOK(req[w])
    BY <1>0, <1>3, <1>7 DEF FlightOK, Outcomes
  <2>2. found(e) \subseteq VotesOf(req[w].key)
    BY <1>1, <2>1 DEF DeleteEventOK
  <2> HIDE DEF r, found
  <2>3. DeleteEventOK(r(e))
    BY <1>2, <2>1, <2>2 DEF DeleteEventOK
  <2>4. FlightOK(r(e))
    BY <1>2, <1>7, <2>3 DEF FlightOK
  <2> QED
    BY <1>1, <1>3, <2>4, ReadKeepsSInv
<1> QED
  BY <1>0, <1>3, <1>5, <1>6, <1>7
     DEF FlightOK, Outcomes, DeleteVenueOK, CreateEventOK, UpdateEventOK,
         CastVoteOK, DeleteVoteOK

(* The commits of the event endpoints                                      *)
LEMMA EventCommitsKeepSInv ==
    ASSUME Apart, SInv, IInv', NEW w \in Workers
    PROVE  /\ CreateEventCommit(w) => SInv'
           /\ UpdateEventStatusCommit(w) => SInv'
           /\ UpdateEventCommit(w) => SInv'
           /\ DeleteEventCommit(w) => SInv'
<1>0. /\ IInv /\ Consistent /\ FlightOK(req[w]) /\ req[w] \in Request
      /\ TypeOK
  BY DEF SInv, InFlight, IInv, TypeOK
<1> DEFINE r == req[w]
<1>5. PICK k : k = r.key
  OBVIOUS
<1>1. ASSUME CreateEventCommit(w) PROVE SInv'
  <2>1. CreateEventOK(r) /\ r.op = "create_event"
    BY <1>0, <1>1 DEF CreateEventCommit, At, FlightOK, Outcomes
  <2>2. PICK e \in EventIds :
            /\ IsNextId(events, e)
            /\ events' = Insert(events, e,
                    [status |-> r.status, date |-> r.date, venue |-> r.venue,
                     customer |-> r.user, vote_count |-> 0])
            /\ Committed(w, e)
            /\ UNCHANGED <<venues, votes, now>>
    BY <1>1, <2>1 DEF CreateEventCommit, CreateEventOK
  <2>3. e \notin DOMAIN events
    BY <1>0, <2>2, NextIdIsFree DEF TypeOK, IsTable, EventIds
  <2>4. /\ DOMAIN events' = DOMAIN events \cup {e}
        /\ \A x \in DOMAIN events : events'[x] = events[x]
        /\ events'[e].vote_count = 0
    BY <2>2, <2>3 DEF Insert
  <2>5. Consistent'
    BY <1>0, <2>2, <2>4, EventsAreConsistent
  <2>6. RowIsThere("create_event", e)'
    BY <2>4 DEF RowIsThere
  <2> QED
    BY <1>1, <2>1, <2>2, <2>5, <2>6, CommitKeepsSInv, CommitsWriteTheirOwn
       DEF CreateEventCommit, At
<1>2. ASSUME UpdateEventStatusCommit(w) PROVE SInv'
  <2>1. /\ UpdateEventStatusOK(r) /\ r.step = "commit"
        /\ r.op = "update_event_status"
        /\ r.status \in {"approved", "rejected"}
    BY <1>0, <1>2
       DEF UpdateEventStatusCommit, At, FlightOK, Outcomes, SInv, IInv,
           Payloads, PayloadOK
  <2>2. /\ r.key \in DOMAIN events /\ r.evs = {r.key}
        /\ r.vts = OpenBallots({r.key})
    BY <2>1 DEF UpdateEventStatusOK, IsPending
  <2>3. \A v \in OpenBallots(DOMAIN events) : v \in r.vts <=> votes[v].event \in r.evs
    BY <2>2 DEF OpenBallots
  <2>4. /\ events' = SetStatus(r.evs, r.status)
        /\ votes' = CloseBallots(r.vts)
        /\ Committed(w, r.key)
    BY <1>2, <2>2 DEF UpdateEventStatusCommit, OpenBallots
  <2>5. Consistent'
    BY <1>0, <2>1, <2>3, <2>4, DecidingIsConsistent
  <2>6. RowIsThere("update_event_status", k)'
    BY <1>5, <2>2, <2>4 DEF RowIsThere, SetStatus
  <2> QED
    BY <1>2, <1>5, <2>1, <2>4, <2>5, <2>6, CommitKeepsSInv, CommitsWriteTheirOwn
       DEF UpdateEventStatusCommit, At
<1>3. ASSUME UpdateEventCommit(w) PROVE SInv'
  <2>1. /\ r.key \in DOMAIN events /\ r.venue \in DOMAIN venues \cup {None}
        /\ r.op = "update_event"
    BY <1>0, <1>3
       DEF UpdateEventCommit, At, FlightOK, Outcomes, UpdateEventOK, IsPending
  <2>2. /\ events' = [e \in DOMAIN events |->
                IF e # r.key THEN events[e]
                ELSE [events[e] EXCEPT
                        !.date  = IF r.date = None THEN @ ELSE r.date,
                        !.venue = IF r.venue = None THEN @ ELSE r.venue]]
        /\ Committed(w, r.key)
        /\ UNCHANGED <<venues, votes, now>>
    BY <1>3, <2>1 DEF UpdateEventCommit
  <2>3. /\ DOMAIN events' = DOMAIN events
        /\ \A e \in DOMAIN events : /\ events'[e].status = events[e].status
                                    /\ events'[e].vote_count = events[e].vote_count
    BY <1>0, <2>2 DEF TypeOK, IsTable, Event
  <2>4. Consistent'
    BY <1>0, <2>2, <2>3, EventsAreConsistent
  <2>5. RowIsThere("update_event", k)'
    BY <1>5, <2>1, <2>3 DEF RowIsThere
  <2> QED
    BY <1>3, <1>5, <2>1, <2>2, <2>4, <2>5, CommitKeepsSInv, CommitsWriteTheirOwn
       DEF UpdateEventCommit, At
<1>4. ASSUME DeleteEventCommit(w) PROVE SInv'
  <2>1. DeleteEventOK(r) /\ r.op = "delete_event"
    BY <1>0, <1>4 DEF DeleteEventCommit, At, FlightOK, Outcomes
  <2>2. DropEvents({r.key}, r.vts) /\ Committed(w, r.key)
    BY <1>4 DEF DeleteEventCommit
  <2>3. Consistent'
    BY <1>0, <2>1, <2>2, DroppingIsConsistent DEF DeleteEventOK, VotesOf
  <2>4. RowIsThere("delete_event", k)'
    BY DEF RowIsThere, Deletions
  <2> QED
    BY <1>4, <1>5, <2>1, <2>2, <2>3, <2>4, CommitKeepsSInv, CommitsWriteTheirOwn
       DEF DeleteEventCommit, At
<1> QED
  BY <1>1, <1>2, <1>3, <1>4

-----------------------------------------------------------------------------
(* The endpoints of router/vote.py                                         *)

(* One vote more, from a customer who had none on a pending event          *)
LEMMA CastingIsConsistent ==
    ASSUME IInv, Consistent, NEW e \in DOMAIN events, NEW v \in VoteIds, NEW c,
           v \notin DOMAIN votes, events[e].status = "pending",
           \A u \in VotesOf(e) : votes[u].customer # c,
           votes' = Insert(votes, v, [event |-> e, customer |-> c,
                                      status |-> "ballot_open"]),
           events' = [events EXCEPT ![e].vote_count = events[e].vote_count + 1]
    PROVE  Consistent'
<1>1. /\ DOMAIN votes' = DOMAIN votes \cup {v}
      /\ \A u \in DOMAIN votes : votes'[u] = votes[u]
      /\ votes'[v].event = e /\ votes'[v].customer = c
      /\ votes'[v].status = "ballot_open"
  BY DEF Insert
<1>2. /\ DOMAIN events' = DOMAIN events
      /\ \A x \in DOMAIN events : events'[x].status = events[x].status
      /\ \A x \in DOMAIN events :
            events'[x].vote_count = IF x = e THEN events[e].vote_count + 1
                                             ELSE events[x].vote_count
  BY DEF IInv, TypeOK, IsTable, Event
<1>3. OneVotePerCustomer'
  BY <1>1 DEF Consistent, OneVotePerCustomer, VotesOf
<1>4. StoredBallots'
  <2>1. \A u \in DOMAIN votes : votes[u].event \in DOMAIN events
    BY DEF IInv, ReferentialIntegrity
  <2>2. \A u \in DOMAIN votes :
            votes'[u].status = "ballot_open"
                <=> events'[votes'[u].event].status = "pending"
    BY <1>1, <1>2, <2>1 DEF Consistent, StoredBallots
  <2> QED
    BY <1>1, <1>2, <2>2 DEF StoredBallots
<1>5. /\ VotesOf(e)' = VotesOf(e) \cup {v} /\ v \notin VotesOf(e)
      /\ \A x \in DOMAIN events : x # e => VotesOf(x)' = VotesOf(x)
  BY <1>1 DEF VotesOf
<1>6. Cardinality(VotesOf(e)') = Cardinality(VotesOf(e)) + 1
  BY <1>5, VotesAreFinite, FS_AddElement DEF IInv
<1>7. VoteCountExact'
  BY <1>2, <1>5, <1>6 DEF Consistent, VoteCountExact
<1> QED
  BY <1>3, <1>4, <1>7 DEF Consistent

(* One vote less                                                           *)
LEMMA RetractingIsConsistent ==
    ASSUME IInv, Consistent, NEW v \in DOMAIN votes, NEW e \in DOMAIN events,
           votes[v].event = e,
           votes' = Delete(votes, {v}),
           events' = [events EXCEPT ![e].vote_count = events[e].vote_count - 1]
    PROVE  Consistent'
<1>1. /\ DOMAIN votes' = DOMAIN votes \ {v}
      /\ \A u \in DOMAIN votes' : votes'[u] = votes[u]
  BY DEF Delete, Restrict
<1>2. /\ DOMAIN events' = DOMAIN events
      /\ \A x \in DOMAIN events : events'[x].status = events[x].status
      /\ \A x \in DOMAIN events :
            events'[x].vote_count = IF x = e THEN events[e].vote_count - 1
                                             ELSE events[x].vote_count
  BY DEF IInv, TypeOK, IsTable, Event
<1>3. OneVotePerCustomer'
  BY <1>1 DEF Consistent, OneVotePerCustomer
<1>4. StoredBallots'
  <2>1. \A u \in DOMAIN votes : votes[u].event \in DOMAIN events
    BY DEF IInv, ReferentialIntegrity
  <2> SUFFICES ASSUME NEW u \in DOMAIN votes'
               PROVE  votes'[u].status = "ballot_open"
                        <=> events'[votes'[u].event].status = "pending"
    BY DEF StoredBallots
  <2>2. u \in DOMAIN votes /\ votes'[u] = votes[u]
    BY <1>1
  <2>3. events'[votes[u].event].status = events[votes[u].event].status
    BY <1>2, <2>1, <2>2
  <2> QED
    BY <2>2, <2>3 DEF Consistent, StoredBallots
<1>5. /\ VotesOf(e)' = VotesOf(e) \ {v} /\ v \in VotesOf(e)
      /\ \A x \in DOMAIN events : x # e => VotesOf(x)' = VotesOf(x)
  BY <1>1 DEF VotesOf
<1>6. Cardinality(VotesOf(e)') = Cardinality(VotesOf(e)) - 1
  BY <1>5, VotesAreFinite, FS_RemoveElement DEF IInv
<1>7. VoteCountExact'
  BY <1>2, <1>5, <1>6 DEF Consistent, VoteCountExact
<1> QED
  BY <1>3, <1>4, <1>7 DEF Consistent

(* The statements of cast_vote and delete_vote                             *)
LEMMA VoteEndpointsKeepSInv ==
    ASSUME Apart, SInv, IInv', NEW w \in Workers
    PROVE  /\ CastVote(w) => SInv'
           /\ CastVoteLoadExisting(w) => SInv'
           /\ CastVoteCommit(w) => SInv'
           /\ DeleteVote(w) => SInv'
           /\ DeleteVoteLoadEvent(w) => SInv'
           /\ DeleteVoteCommit(w) => SInv'
<1>0. /\ IInv /\ Consistent /\ FlightOK(req[w]) /\ req[w] \in Request
      /\ TypeOK
  BY DEF SInv, InFlight, IInv, TypeOK
<1>1. ASSUME CastVote(w) PROVE SInv'
  <2> DEFINE r(c, e) == [Call("cast_vote", c, e) EXCEPT
                            !.count = events[e].vote_count,
                            !.step = "load_existing"]
  <2>1. PICK c \in Customers, e \in EventIds :
            IF \/ e \notin DOMAIN events
               \/ events[e].status # "pending"
               \/ events[e].date <= now
            THEN Refuse(w)
            ELSE Becomes(w, r(c, e))
    BY <1>1 DEF CastVote
  <2>2. CASE Refuse(w)
    BY <1>1, <2>2, RefuseKeepsSInv DEF CastVote
  <2>3. CASE ~ Refuse(w)
    <3>1. /\ r(c, e).step = "load_existing" /\ r(c, e).key = e
          /\ r(c, e).op = "cast_vote" /\ r(c, e).count = events[e].vote_count
      BY DEF Call, NewRequest
    <3>2. FlightOK(r(c, e))
      BY <2>1, <2>3, <3>1 DEF FlightOK, CastVoteOK, IsPending
    <3> QED
      BY <1>1, <2>1, <2>3, <3>2, ReadKeepsSInv DEF CastVote
  <2> QED
    BY <2>2, <2>3
<1>2. ASSUME CastVoteLoadExisting(w) PROVE SInv'
  <2> DEFINE r == [req[w] EXCEPT !.step = "commit"]
  <2>1. CASE Refuse(w)
    BY <1>2, <2>1, RefuseKeepsSInv DEF CastVoteLoadExisting
  <2>2. CASE ~ Refuse(w)
    <3>1. /\ \A v \in VotesOf(req[w].key) : votes[v].customer # req[w].user
          /\ Becomes(w, r) /\ Read
          /\ req[w].op = "cast_vote" /\ req[w].step = "load_existing"
      BY <1>2, <2>2 DEF CastVoteLoadExisting, At
    <3>2. /\ r.step = "commit" /\ r.op = "cast_vote" /\ r.key = req[w].key
          /\ r.user = req[w].user /\ r.count = req[w].count
      BY <1>0, <3>1 DEF Request
    <3>3. CastVoteOK(req[w])
      BY <1>0, <3>1 DEF FlightOK, Outcomes
    <3> HIDE DEF r
    <3>4. FlightOK(r)
      BY <3>1, <3>2, <3>3 DEF FlightOK, CastVoteOK
    <3> QED
      BY <3>1, <3>4, ReadKeepsSInv
  <2> QED
    BY <2>1, <2>2
<1>3. ASSUME CastVoteCommit(w) PROVE SInv'
  <2> DEFINE r == req[w]
  <2>1. /\ CastVoteOK(r) /\ r.step = "commit" /\ r.op = "cast_vote"
    BY <1>0, <1>3 DEF CastVoteCommit, At, FlightOK, Outcomes
  <2>2. /\ r.key \in DOMAIN events /\ events[r.key].status = "pending"
        /\ r.count = events[r.key].vote_count
        /\ \A v \in VotesOf(r.key) : votes[v].customer # r.user
    BY <2>1 DEF CastVoteOK, IsPending
  <2>3. PICK v \in VoteIds :
            /\ IsNextId(votes, v)
            /\ votes' = Insert(votes, v, [event |-> r.key, customer |-> r.user,
                                          status |-> "ballot_open"])
            /\ events' = [events EXCEPT ![r.key].vote_count = r.count + 1]
            /\ Committed(w, v)
    BY <1>3, <2>2 DEF CastVoteCommit
  <2>4. v \notin DOMAIN votes
    BY <1>0, <2>3, NextIdIsFree DEF TypeOK, IsTable, VoteIds
  <2>5. Consistent'
    BY <1>0, <2>2, <2>3, <2>4, CastingIsConsistent
  <2>6. RowIsThere("cast_vote", v)' /\ votes'[v].event = r.key
    BY <2>3 DEF RowIsThere, Insert
  <2> QED
    BY <1>3, <2>1, <2>3, <2>5, <2>6, CommitKeepsSInv, CommitsWriteTheirOwn
       DEF CastVoteCommit, At
<1>4. ASSUME DeleteVote(w) PROVE SInv'
  <2> DEFINE r(c, v) == [Call("delete_vote", c, v) EXCEPT
                            !.ref = votes[v].event, !.step = "load_event"]
  <2>1. PICK c \in Customers, v \in VoteIds :
            IF \/ v \notin DOMAIN votes
               \/ votes[v].customer # c
               \/ votes[v].status # "ballot_open"
            THEN Refuse(w)
            ELSE Becomes(w, r(c, v))
    BY <1>4 DEF DeleteVote
  <2>2. CASE Refuse(w)
    BY <1>4, <2>2, RefuseKeepsSInv DEF DeleteVote
  <2>3. CASE ~ Refuse(w)
    <3>1. /\ r(c, v).step = "load_event" /\ r(c, v).key = v
          /\ r(c, v).op = "delete_vote" /\ r(c, v).ref = votes[v].event
      BY DEF Call, NewRequest
    <3>2. FlightOK(r(c, v))
      BY <2>1, <2>3, <3>1 DEF FlightOK, DeleteVoteOK
    <3> QED
      BY <1>4, <2>1, <2>3, <3>2, ReadKeepsSInv DEF DeleteVote
  <2> QED
    BY <2>2, <2>3
<1>5. ASSUME DeleteVoteLoadEvent(w) PROVE SInv'
  <2> DEFINE r == [req[w] EXCEPT !.count = events[req[w].ref].vote_count,
                                 !.step = "commit"]
  <2>1. DeleteVoteOK(req[w]) /\ req[w].op = "delete_vote" /\ Read
    BY <1>0, <1>5 DEF DeleteVoteLoadEvent, At, FlightOK, Outcomes
  <2>2. req[w].ref \in DOMAIN events
    BY <1>0, <2>1 DEF DeleteVoteOK, IInv, ReferentialIntegrity
  <2>3. CASE Refuse(w)
    BY <2>1, <2>3, RefuseKeepsSInv
  <2>4. CASE ~ Refuse(w)
    <3>1. Becomes(w, r)
      BY <1>5, <2>2, <2>4 DEF DeleteVoteLoadEvent
    <3>2. /\ r.step = "commit" /\ r.op = "delete_vote" /\ r.key = req[w].key
          /\ r.ref = req[w].ref /\ r.count = events[r.ref].vote_count
      BY <1>0, <2>1 DEF Request
    <3> HIDE DEF r
    <3>3. FlightOK(r)
      BY <2>1, <3>2 DEF FlightOK, DeleteVoteOK
    <3> QED
      BY <2>1, <3>1, <3>3, ReadKeepsSInv
  <2> QED
    BY <2>3, <2>4
<1>6. ASSUME DeleteVoteCommit(w) PROVE SInv'
  <2> DEFINE r == req[w]
  <2>1. DeleteVoteOK(r) /\ r.step = "commit" /\ r.op = "delete_vote"
    BY <1>0, <1>6 DEF DeleteVoteCommit, At, FlightOK, Outcomes
  <2>2. /\ r.key \in DOMAIN votes /\ r.ref = votes[r.key].event
        /\ r.ref \in DOMAIN events /\ r.count = events[r.ref].vote_count
    BY <1>0, <2>1 DEF DeleteVoteOK, IInv, ReferentialIntegrity
  <2>3. /\ votes' = Delete(votes, {r.key})
        /\ events' = [events EXCEPT ![r.ref].vote_count = r.count - 1]
        /\ Committed(w, r.key)
    BY <1>6, <2>2 DEF DeleteVoteCommit
  <2>4. Consistent'
    BY <1>0, <2>2, <2>3, RetractingIsConsistent
  <2>5. \A k : RowIsThere("delete_vote", k)'
    BY DEF RowIsThere, Deletions
  <2> QED
    BY <1>6, <2>1, <2>3, <2>4, <2>5, CommitKeepsSInv, CommitsWriteTheirOwn
       DEF DeleteVoteCommit, At
<1> QED
  BY <1>1, <1>2, <1>3, <1>4, <1>5, <1>6

-----------------------------------------------------------------------------
(* The invariant                                                           *)

LEMMA OtherStepsKeepSInv ==
    ASSUME SInv, IInv'
    PROVE  /\ \A w \in Workers : Respond(w) => SInv'
           /\ \A w \in Workers : DatabaseLocked(w) => SInv'
           /\ \A w \in Workers : UpdateEventAwareDate(w) => SInv'
           /\ Restart => SInv'
           /\ Tick \/ UNCHANGED vars => SInv'
<1>1. ASSUME NEW w \in Workers, Respond(w) PROVE SInv'
  <2>1. CASE Becomes(w, Free("ok")) \/ Becomes(w, Free("error"))
    BY <1>1, <2>1, AnswerSteps, EndKeepsSInv DEF Outcomes
  <2>2. CASE Becomes(w, [req[w] EXCEPT !.step = "title"])
    <3>1. PICK r : r = req[w]
      OBVIOUS
    <3>2. r \in Request /\ FlightOK(r) /\ ReferentialIntegrity /\ TypeOK
      BY <3>1 DEF SInv, IInv, InFlight, TypeOK
    <3>3. r.step # "title"
      BY <1>1, <2>2, <3>1, <3>2 DEF Respond, Refresh, LoadTitle, Becomes, TypeOK,
                                    Free, NewRequest, Request
    <3>4. r.op = "cast_vote" /\ r.step = "respond"
      BY <1>1, <2>2, <3>1, <3>2, <3>3
         DEF Respond, Refresh, LoadTitle, Becomes, TypeOK, Free, NewRequest, Request
    <3>5. r.ref \in DOMAIN events
      BY <3>2, <3>4 DEF FlightOK, RowIsThere, Deletions, ReferentialIntegrity
    <3>6. FlightOK([r EXCEPT !.step = "title"])
      BY <3>2, <3>4, <3>5 DEF FlightOK, Request, Outcomes
    <3> QED
      BY <1>1, <2>2, <3>1, <3>6, AnswerSteps, ReadKeepsSInv
  <2> QED
    BY <1>1, <2>1, <2>2, AnswerSteps
<1>2. ASSUME NEW w \in Workers, DatabaseLocked(w) PROVE SInv'
  BY <1>2, EndKeepsSInv DEF DatabaseLocked, Outcomes
<1>3. ASSUME NEW w \in Workers, UpdateEventAwareDate(w) PROVE SInv'
  BY <1>3, EndKeepsSInv DEF UpdateEventAwareDate, Rollback, Outcomes
<1>4. ASSUME Restart PROVE SInv'
  <2>1. FlightOK(Free("idle"))'
    BY DEF FlightOK, Free, NewRequest, Outcomes
  <2>2. InFlight'
    BY <1>4, <2>1 DEF Restart, InFlight
  <2>3. Consistent'
    BY <1>4 DEF Restart, Read, SInv, Consistent, OneVotePerCustomer,
                StoredBallots, VoteCountExact, VotesOf
  <2> QED
    BY <2>2, <2>3 DEF SInv
<1>5. ASSUME Tick \/ UNCHANGED vars PROVE SInv'
  <2>1. UNCHANGED <<venues, events, votes, req>>
    BY <1>5 DEF Tick, vars
  <2>2. Consistent'
    BY <2>1 DEF SInv, Consistent, OneVotePerCustomer, StoredBallots,
                VoteCountExact, VotesOf
  <2>3. InFlight'
    BY <2>1
       DEF SInv, InFlight, FlightOK, UpdateVenueOK, ClosingOK, DeleteVenueOK,
           CreateEventOK, UpdateEventStatusOK, UpdateEventOK, DeleteEventOK,
           CastVoteOK, DeleteVoteOK, RowIsThere, IsPending, OpenBallots,
           EventsAt, VotesOf
  <2> QED
    BY <2>2, <2>3 DEF SInv
<1> QED
  BY <1>1, <1>2, <1>3, <1>4, <1>5

(* Empty tables                                                            *)
LEMMA InitSInv == Init => SInv
<1> SUFFICES ASSUME Init PROVE SInv
  OBVIOUS
<1>1. IInv
  BY InitInv
<1>2. InFlight
  BY FreeIsOK DEF Init, InFlight, Outcomes
<1> QED
  BY <1>1, <1>2
     DEF SInv, Init, Consistent, OneVotePerCustomer, StoredBallots,
         VoteCountExact

(* Every step, in a state where no two requests are about the same rows    *)
LEMMA NextSInv == SInv /\ Apart /\ [Next]_vars => SInv'
<1> SUFFICES ASSUME SInv, Apart, [Next]_vars PROVE SInv'
  OBVIOUS
<1>1. IInv'
  BY NextInv DEF SInv
<1>2. ASSUME NEW w \in Workers, Receive(w) PROVE SInv'
  BY <1>1, <1>2, VenueEndpointsKeepSInv, EventRequestsKeepSInv,
     VoteEndpointsKeepSInv, OtherStepsKeepSInv DEF Receive
<1>3. ASSUME NEW w \in Workers, Execute(w) PROVE SInv'
  BY <1>1, <1>3, VenueEndpointsKeepSInv, EventRequestsKeepSInv,
     EventCommitsKeepSInv, LoadVotesKeepsSInv, VoteEndpointsKeepSInv DEF Execute
<1> QED
  BY <1>1, <1>2, <1>3, OtherStepsKeepSInv DEF Next

(* As long as requests stay apart, what each of them has read is what the  *)
(* tables still say, and the tables agree with each other.                 *)
THEOREM ApartInvariance == Spec => ([]Apart => []SInv)
  BY InitSInv, NextSInv, PTL DEF Spec

(* As long as requests stay apart, a customer has one vote on an event     *)
(* (the check of cast_vote is enough).                                     *)
THEOREM ApartOneVote == Spec => ([]Apart => []OneVotePerCustomer)
<1>1. SInv => OneVotePerCustomer
  BY DEF SInv, Consistent
<1> QED
  BY <1>1, ApartInvariance, PTL

(* As long as requests stay apart, a customer's list shows a ballot as     *)
(* open exactly while its event is pending and not past its date           *)
(* (update_event_status and update_venue close them, get_my_votes).        *)
THEOREM ApartBallots == Spec => ([]Apart => []BallotsFollowStatus)
<1>1. SInv => BallotsFollowStatus
  BY StoredBallotsShow DEF SInv, Consistent
<1> QED
  BY <1>1, ApartInvariance, PTL

(* As long as requests stay apart, the denormalised vote_count is the      *)
(* number of votes (cast_vote, delete_vote and the cascades).              *)
THEOREM ApartVoteCount == Spec => ([]Apart => []VoteCountExact)
<1>1. SInv => VoteCountExact
  BY DEF SInv, Consistent
<1> QED
  BY <1>1, ApartInvariance, PTL

-----------------------------------------------------------------------------
(* Decisions, edits and closed venues: keeping requests apart keeps these  *)
(* apart, which is all that they need.                                     *)

(* A decision or an edit holds a pending event.                            *)
LEMMA HoldsAnEvent ==
    ASSUME SInv, NEW u \in Workers, Deciding(req[u]) \/ Editing(req[u])
    PROVE  /\ req[u].key \in DOMAIN events
           /\ Busy(req[u]) /\ About(req[u], req[u].key)
<1>1. FlightOK(req[u])
  BY DEF SInv, InFlight
<1>2. Running(req[u])
  BY DEF Deciding, Editing
<1>3. IsPending(req[u].key)
  BY <1>1, <1>2 DEF Deciding, Editing, Running, FlightOK,
                    UpdateEventStatusOK, UpdateEventOK, DeleteEventOK
<1> QED
  BY <1>2, <1>3 DEF IsPending, Deciding, Editing, Running, Busy, About

(* Who settles an event is about it.                                       *)
LEMMA SettlesIsAbout ==
    ASSUME SInv, NEW w \in Workers, NEW e, Settles(req[w], e)
    PROVE  Busy(req[w]) /\ About(req[w], e)
<1>1. FlightOK(req[w]) /\ Busy(req[w])
  BY DEF SInv, InFlight, Settles, Busy, Outcomes
<1>2. /\ req[w].op = "update_venue" => UpdateVenueOK(req[w])
      /\ req[w].op = "update_event_status" => UpdateEventStatusOK(req[w])
  BY <1>1 DEF Settles, FlightOK, Outcomes
<1> QED
  BY <1>1, <1>2 DEF Settles, About, UpdateVenueOK, ClosingOK, UpdateEventStatusOK

(* Requests that stay apart do not settle the events of each other's       *)
(* decisions and edits.                                                    *)
LEMMA ApartDecisions == SInv /\ Apart => DecisionsApart /\ EditsApart
  BY HoldsAnEvent, SettlesIsAbout DEF Apart, DecisionsApart, EditsApart

(* Requests that stay apart do not touch the venue that one of them is     *)
(* closing, nor its events.                                                *)
LEMMA ApartClosings == SInv /\ Apart => ClosingsApart
<1> SUFFICES ASSUME SInv, Apart, NEW u \in Workers, NEW w \in Workers, u # w,
                    Shutting(req[u]), Disturbs(req[w], req[u].key)
             PROVE  FALSE
  BY DEF ClosingsApart
<1> DEFINE v == req[u].key
<1>1. FlightOK(req[u]) /\ FlightOK(req[w])
  BY DEF SInv, InFlight
<1>2. v \in DOMAIN venues
  BY <1>1 DEF Shutting, FlightOK, UpdateVenueOK, Outcomes
<1>3. /\ Busy(req[u]) /\ Holds(req[u], v)
      /\ \A e \in EventsAt(v) : About(req[u], e)
  BY DEF Shutting, Busy, Holds, About, Outcomes
<1>4. Busy(req[w])
  BY DEF Disturbs, Busy, Outcomes
<1>5. CASE req[w].op \in {"create_event", "update_event"}
  <2>1. Needs(req[w], v)
    BY <1>5 DEF Disturbs, Needs
  <2> QED
    BY <1>2, <1>3, <1>4, <2>1 DEF Apart
<1>6. CASE req[w].op \in {"update_event_status", "cast_vote"}
  <2>1. req[w].op = "update_event_status" => req[w].evs = {req[w].key}
    BY <1>1 DEF Disturbs, FlightOK, UpdateEventStatusOK, Outcomes
  <2>2. req[w].key \in EventsAt(v)
    BY <1>6, <2>1 DEF Disturbs
  <2>3. About(req[w], req[w].key)
    BY <1>6 DEF About, Disturbs
  <2> QED
    BY <1>3, <1>4, <2>2, <2>3 DEF Apart, EventsAt
<1> QED
  BY <1>5, <1>6 DEF Disturbs

(* As long as requests stay apart, closing a venue leaves no event at it   *)
(* undecided and no ballot open (update_venue).                            *)
THEOREM ApartClosing == Spec => ([]Apart => ClosingRejectsAll)
  BY ApartClosings, ApartInvariance, ClosingIfClosingsApart, PTL

(* As long as requests stay apart, only pending events are moved, put to   *)
(* another date or deleted by their customer (update_event, delete_event). *)
THEOREM ApartEdits == Spec => ([]Apart => EditsOnlyWhilePending)
  BY ApartDecisions, ApartInvariance, EditsIfEditsApart, PTL

(* As long as requests stay apart, a rejected event stays rejected         *)
(* (update_event_status, update_venue).                                    *)
THEOREM ApartRejected == Spec => ([]Apart => RejectedIsTerminal)
  BY ApartDecisions, ApartInvariance, RejectedIfDecisionsApart, PTL

-----------------------------------------------------------------------------
(* No handler raises                                                       *)

LEMMA CommitEndsWell ==
    ASSUME NoServerError, TypeOK, NEW w \in Workers, NEW k, Committed(w, k)
    PROVE  NoServerError'
<1>1. \A u \in Workers : req'[u] = IF u = w
                   THEN [NewRequest("respond", req[w].op, None, k)
                            EXCEPT !.ref = req[w].key]
                   ELSE req[u]
  BY DEF Committed, Becomes, TypeOK
<1> QED
  BY <1>1 DEF NoServerError, NewRequest

LEMMA StepEndsWell ==
    ASSUME NoServerError, TypeOK, NEW w \in Workers, NEW r, Becomes(w, r),
           r.step # "error"
    PROVE  NoServerError'
  BY DEF Becomes, TypeOK, NoServerError

(* An endpoint refuses a request or takes it to its next statement.        *)
LEMMA ReceiveEndsWell ==
    ASSUME NoServerError, TypeOK, ~ AwareDates, NEW w \in Workers, Receive(w)
    PROVE  NoServerError'
<1>1. CASE Refuse(w)
  BY <1>1, StepEndsWell DEF Refuse, Free, NewRequest
<1>2. CASE CreateVenue(w)
  BY <1>2, StepEndsWell DEF CreateVenue, Call, NewRequest
<1>3. CASE UpdateVenue(w)
  BY <1>1, <1>3, StepEndsWell DEF UpdateVenue, Call, NewRequest
<1>4. CASE DeleteVenue(w)
  BY <1>1, <1>4, StepEndsWell DEF DeleteVenue, Call, NewRequest
<1>5. CASE CreateEvent(w)
  BY <1>1, <1>5, StepEndsWell DEF CreateEvent, Call, NewRequest
<1>6. CASE UpdateEventStatus(w)
  BY <1>1, <1>6, StepEndsWell DEF UpdateEventStatus, Call, NewRequest
<1>7. CASE UpdateEvent(w)
  BY <1>1, <1>7, StepEndsWell DEF UpdateEvent, Call, NewRequest
<1>8. CASE DeleteEvent(w)
  BY <1>1, <1>8, StepEndsWell DEF DeleteEvent, Call, NewRequest
<1>9. CASE CastVote(w)
  BY <1>1, <1>9, StepEndsWell DEF CastVote, Call, NewRequest
<1>10. CASE DeleteVote(w)
  BY <1>1, <1>10, StepEndsWell DEF DeleteVote, Call, NewRequest
<1> QED
  BY <1>2, <1>3, <1>4, <1>5, <1>6, <1>7, <1>8, <1>9, <1>10
     DEF Receive, UpdateEventAwareDate

(* What a handler has checked still holds at its commit, so the flush      *)
(* finds its rows and the foreign keys hold.                               *)
LEMMA ExecuteEndsWell ==
    ASSUME NoServerError, SInv, NEW w \in Workers, Execute(w)
    PROVE  NoServerError'
<1> DEFINE r == req[w]
<1>0. FlightOK(r) /\ ReferentialIntegrity /\ r \in Request /\ TypeOK
  BY DEF SInv, IInv, InFlight, TypeOK
<1>1. CASE Refuse(w)
  BY <1>0, <1>1, StepEndsWell DEF Refuse, Free, NewRequest
<1>2. CASE \E k : Committed(w, k)
  BY <1>0, <1>2, CommitEndsWell
<1>3. CASE CreateVenueCommit(w) \/ DeleteVenueCommit(w) \/ DeleteEventCommit(w)
  BY <1>2, <1>3 DEF CreateVenueCommit, DeleteVenueCommit, DeleteEventCommit
<1>4. CASE UpdateVenueCommit(w)
  <2>1. UpdateVenueOK(r)
    BY <1>0, <1>4 DEF UpdateVenueCommit, At, FlightOK, Outcomes
  <2>2. /\ r.key \in DOMAIN venues
        /\ r.evs \subseteq DOMAIN events /\ r.vts \subseteq DOMAIN votes
    BY <1>4, <2>1
       DEF UpdateVenueCommit, At, UpdateVenueOK, ClosingOK, OpenBallots, EventsAt
  <2> QED
    BY <1>2, <1>4, <2>2 DEF UpdateVenueCommit
<1>5. CASE CreateEventCommit(w)
  <2>1. CreateEventOK(r)
    BY <1>0, <1>5 DEF CreateEventCommit, At, FlightOK, Outcomes
  <2> QED
    BY <1>2, <1>5, <2>1 DEF CreateEventCommit, CreateEventOK
<1>6. CASE UpdateEventStatusCommit(w)
  <2>1. UpdateEventStatusOK(r)
    BY <1>0, <1>6 DEF UpdateEventStatusCommit, At, FlightOK, Outcomes
  <2>2. r.evs \subseteq DOMAIN events /\ r.vts \subseteq DOMAIN votes
    BY <1>6, <2>1 DEF UpdateEventStatusCommit, At, UpdateEventStatusOK,
                      IsPending, OpenBallots
  <2> QED
    BY <1>2, <1>6, <2>2 DEF UpdateEventStatusCommit
<1>7. CASE UpdateEventCommit(w)
  <2>1. UpdateEventOK(r)
    BY <1>0, <1>7 DEF UpdateEventCommit, At, FlightOK, Outcomes
  <2>2. r.key \in DOMAIN events /\ r.venue \in DOMAIN venues \cup {None}
    BY <1>7, <2>1 DEF UpdateEventCommit, At, UpdateEventOK, IsPending
  <2> QED
    BY <1>2, <1>7, <2>2 DEF UpdateEventCommit
<1>8. CASE CastVoteCommit(w)
  <2>1. CastVoteOK(r)
    BY <1>0, <1>8 DEF CastVoteCommit, At, FlightOK, Outcomes
  <2> QED
    BY <1>2, <1>8, <2>1 DEF CastVoteCommit, CastVoteOK, IsPending
<1>9. CASE DeleteVoteLoadEvent(w) \/ DeleteVoteCommit(w)
  <2>1. DeleteVoteOK(r)
    BY <1>0, <1>9 DEF DeleteVoteLoadEvent, DeleteVoteCommit, At, FlightOK, Outcomes
  <2>2. r.ref \in DOMAIN events
    BY <1>0, <2>1 DEF DeleteVoteOK, ReferentialIntegrity
  <2>3. CASE DeleteVoteCommit(w)
    BY <1>2, <2>2, <2>3 DEF DeleteVoteCommit
  <2>4. CASE DeleteVoteLoadEvent(w)
    <3>1. \/ Refuse(w)
          \/ Becomes(w, [r EXCEPT !.count = events[r.ref].vote_count,
                                  !.step = "commit"])
      BY <2>2, <2>4 DEF DeleteVoteLoadEvent
    <3>2. [r EXCEPT !.count = events[r.ref].vote_count, !.step = "commit"].step
            = "commit"
      BY <1>0 DEF Request
    <3> QED
      BY <1>0, <1>1, <3>1, <3>2, StepEndsWell
  <2> QED
    BY <1>9, <2>3, <2>4
<1>10. CASE UpdateVenueLoadEvents(w)
  BY <1>0, <1>10, StepEndsWell DEF UpdateVenueLoadEvents, Request
<1>11. CASE UpdateEventStatusLoadVenue(w)
  BY <1>0, <1>1, <1>11, StepEndsWell DEF UpdateEventStatusLoadVenue, Request
<1>12. CASE UpdateEventLoadVenue(w)
  BY <1>0, <1>1, <1>12, StepEndsWell DEF UpdateEventLoadVenue, Request
<1>13. CASE LoadVotes(w)
  BY <1>0, <1>13, StepEndsWell DEF LoadVotes, Request
<1>14. CASE CastVoteLoadExisting(w)
  BY <1>0, <1>1, <1>14, StepEndsWell DEF CastVoteLoadExisting, Request
<1> QED
  BY <1>3, <1>4, <1>5, <1>6, <1>7, <1>8, <1>9, <1>10, <1>11, <1>12, <1>13, <1>14
     DEF Execute

(* No step ends in an exception.                                           *)
LEMMA NextEndsWell ==
    ASSUME ~ AwareDates
    PROVE  SInv /\ NoServerError /\ [Next]_vars => NoServerError'
<1> SUFFICES ASSUME SInv, NoServerError, [Next]_vars PROVE NoServerError'
  OBVIOUS
<1>0. TypeOK
  BY DEF SInv, IInv
<1>1. ASSUME NEW w \in Workers, Respond(w) PROVE NoServerError'
  <2>1. FlightOK(req[w]) /\ req[w] \in Request
    BY <1>0 DEF SInv, InFlight, TypeOK
  <2>2. \/ Becomes(w, Free("ok"))
        \/ Becomes(w, [req[w] EXCEPT !.step = "title"])
    BY <1>1, <2>1 DEF Respond, Refresh, LoadTitle, FlightOK
  <2>3. [req[w] EXCEPT !.step = "title"].step = "title"
    BY <2>1 DEF Request
  <2> QED
    BY <1>0, <2>2, <2>3, StepEndsWell DEF Free, NewRequest
<1>2. ASSUME NEW w \in Workers, DatabaseLocked(w) PROVE NoServerError'
  BY <1>0, <1>2, StepEndsWell DEF DatabaseLocked, Free, NewRequest
<1>3. CASE Restart
  BY <1>3 DEF Restart, NoServerError, Free, NewRequest
<1>4. CASE Tick \/ UNCHANGED vars
  BY <1>4 DEF Tick, vars, NoServerError
<1> QED
  BY <1>0, <1>1, <1>2, <1>3, <1>4, ReceiveEndsWell, ExecuteEndsWell DEF Next

(* As long as requests stay apart, no handler ends in an exception (a      *)
(* stale row, a dangling key, a failed refresh, a related object that is   *)
(* gone), unless a payload carries a date with a time zone.                *)
THEOREM ApartNoServerError ==
    ASSUME ~ AwareDates
    PROVE  Spec => ([]Apart => []NoServerError)
<1>1. Init => NoServerError
  BY DEF Init, NoServerError, Free, NewRequest
<1>2. SInv /\ NoServerError /\ [Next]_vars => NoServerError'
  BY NextEndsWell
<1> QED
  BY <1>1, <1>2, ApartInvariance, PTL DEF Spec

-----------------------------------------------------------------------------
(* One worker                                                              *)

(* One request at a time, tables and requests agree in every state.        *)
THEOREM SerialInvariance == ASSUME OneWorker PROVE Spec => []SInv
<1>1. Apart
  BY OneWorkerIsApart
<1> QED
  BY <1>1, ApartInvariance, PTL

(* One request at a time, a customer votes once, ballots follow their      *)
(* event, counters are exact, closing a venue rejects all, only pending    *)
(* events are edited and rejections stand: whatever breaks these needs two *)
(* requests at once.                                                       *)
THEOREM SerialGuarantees ==
    ASSUME OneWorker
    PROVE  Spec => /\ [](OneVotePerCustomer /\ BallotsFollowStatus /\ VoteCountExact)
                   /\ ClosingRejectsAll
                   /\ EditsOnlyWhilePending
                   /\ RejectedIsTerminal
<1>1. Apart
  BY OneWorkerIsApart
<1> QED
  BY <1>1, ApartOneVote, ApartBallots, ApartVoteCount, ApartClosing, ApartEdits,
     ApartRejected, PTL

(* One request at a time, no handler ends in an exception, unless a        *)
(* payload carries a date with a time zone.                                *)
THEOREM SerialNoServerError ==
    ASSUME OneWorker, ~ AwareDates
    PROVE  Spec => []NoServerError
<1>1. Apart
  BY OneWorkerIsApart
<1> QED
  BY <1>1, ApartNoServerError, PTL
=============================================================================
