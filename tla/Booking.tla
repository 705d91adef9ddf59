------------------------------ MODULE Booking ------------------------------
(***************************************************************************)
(* The venue, event and vote endpoints that write (router/venue.py,        *)
(* router/event.py, router/vote.py) running concurrently over one          *)
(* database.                                                               *)
(*                                                                         *)
(* Every endpoint is a plain `def`, so the framework runs each request in  *)
(* a thread of its pool with a Session of its own.  A step of a request is *)
(* one SQL statement or transaction: the sqlite3 driver opens a            *)
(* transaction only at the first INSERT, UPDATE or DELETE, so each SELECT  *)
(* sees what is committed at that moment, and all the writes of a handler  *)
(* are sent by the flush inside commit(), which is one atomic step.        *)
(* Between its steps a request keeps what it has read (the objects of its  *)
(* Session) in req[w].                                                     *)
(*                                                                         *)
(* The flush writes only the columns whose value differs from the one      *)
(* loaded, addresses rows by primary key, and raises (StaleDataError) when *)
(* an UPDATE finds fewer rows than expected; a DELETE that finds none only *)
(* logs a warning.  A foreign key that dangles at commit raises            *)
(* IntegrityError.  An exception rolls the transaction back.               *)
(***************************************************************************)
EXTENDS Tables, FiniteSets

CONSTANTS
    Workers,        \* threads serving requests
    Serves,         \* Serves[w]: the endpoints that requests on w may call
    VenueInputs,    \* the venue statuses that payloads carry
    EventInputs,    \* the event statuses that payloads carry
    LockTimeouts,   \* whether a statement may find the database locked
    AwareDates,     \* whether payload dates may carry a time zone
    None            \* "not given" and "not loaded"

Users == Customers \cup Managers

OpNames == {"create_venue", "update_venue", "delete_venue",
            "create_event", "update_event_status", "update_event",
            "delete_event", "cast_vote", "delete_vote"}

Deletions == {"delete_venue", "delete_event", "delete_vote"}

ASSUME RequestsAssumption ==
    /\ Serves \in [Workers -> SUBSET OpNames]
    /\ VenueInputs \subseteq VenueStatus
    /\ EventInputs \subseteq EventStatus
    /\ LockTimeouts \in BOOLEAN
    /\ AwareDates \in BOOLEAN
    /\ None \notin VenueIds /\ None \notin Dates
    /\ None \notin VenueStatus

VARIABLES
    venues,     \* table venues
    events,     \* table events
    votes,      \* table votes
    now,        \* the clock, datetime.now(timezone.utc)
    req         \* req[w]: the request worker w is serving, or its last outcome

tables == <<venues, events, votes>>
vars   == <<venues, events, votes, now, req>>

(***************************************************************************)
(* How the last request of a free worker ended: a 2xx answer, a refusal    *)
(* (400, 403, 404), a 500 because the database stayed locked, or a 500     *)
(* because of an exception in the handler.                                 *)
(***************************************************************************)
Outcomes == {"idle", "ok", "refused", "locked", "error"}

Steps == Outcomes \cup {"load_venue", "load_events", "load_event",
                        "load_votes", "load_existing", "commit", "respond",
                        "title"}

Request == [step   : Steps,
            op     : OpNames \cup {None},
            user   : Users \cup {None},
            key    : Nat,                   \* the row the request is about
            venue  : VenueIds \cup {None},  \* target_venue_id
            date   : Dates \cup {None},     \* proposed_date
            status : VenueStatus \cup EventStatus \cup {None},
            ref    : Nat,                   \* the row that row refers to
            count  : Counts,                \* the vote_count loaded
            evs    : SUBSET EventIds,       \* events this session has changed
            vts    : SUBSET VoteIds,        \* votes this session has changed
            todo   : SUBSET EventIds]       \* events whose votes are not loaded

NewRequest(step, op, u, k) ==
    [step |-> step, op |-> op, user |-> u, key |-> k,
     venue |-> None, date |-> None, status |-> None, ref |-> 0, count |-> 0,
     evs |-> {}, vts |-> {}, todo |-> {}]

(* A free worker whose last request ended with outcome o.                  *)
Free(o) == NewRequest(o, None, None, 0)

(* A request of user u for endpoint op on row k.                           *)
Call(op, u, k) == NewRequest("commit", op, u, k)

Init ==
    /\ venues = <<>>
    /\ events = <<>>
    /\ votes = <<>>
    /\ now = 0
    /\ req = [w \in Workers |-> Free("idle")]

Accepts(w, op) == req[w].step \in Outcomes /\ op \in Serves[w]

At(w, op, step) == req[w].op = op /\ req[w].step = step

Becomes(w, r) == req' = [req EXCEPT ![w] = r]

Refuse(w) == Becomes(w, Free("refused"))

(* A step that only reads the database.                                    *)
Read == UNCHANGED <<venues, events, votes, now>>

(* An exception inside commit(): everything is rolled back, answer 500.    *)
Rollback(w) == Becomes(w, Free("error")) /\ Read

(* commit() returned; the answer is still to be built.  The Session has    *)
(* expired its objects, of which only the primary keys are remembered: k,  *)
(* the row to show, and the row that the request was about.                *)
Committed(w, k) ==
    Becomes(w, [NewRequest("respond", req[w].op, None, k) EXCEPT !.ref = req[w].key])

VotesOf(e) == {v \in DOMAIN votes : votes[v].event = e}

EventsAt(v) == {e \in DOMAIN events : events[e].venue = v}

(* UPDATE votes SET status = 'ballot_close' for the votes in vs.           *)
CloseBallots(vs) ==
    [v \in DOMAIN votes |->
        IF v \in vs THEN [votes[v] EXCEPT !.status = "ballot_close"]
                    ELSE votes[v]]

(* UPDATE events SET status = s for the events in es.                      *)
SetStatus(es, s) ==
    [e \in DOMAIN events |->
        IF e \in es THEN [events[e] EXCEPT !.status = s] ELSE events[e]]

(* Mutant of DropEvents: PRAGMA foreign_keys is not set on the connection, *)
(* so that nothing cascades.                                               *)
DropEventsAlone(es, vs) ==
    /\ events' = Delete(events, es)
    /\ votes' = Delete(votes, vs)

(* DELETE FROM events for es and the cascade to votes (also those in vs).  *)
DropEvents(es, vs) ==
    /\ events' = Delete(events, es)
    /\ votes' = Delete(votes, vs \cup {v \in DOMAIN votes : votes[v].event \in es})

-----------------------------------------------------------------------------
(* router/venue.py                                                         *)

(* create_venue reads nothing: the INSERT is its first statement.          *)
CreateVenue(w) ==
    /\ Accepts(w, "create_venue")
    /\ \E m \in Managers, s \in VenueInputs :
        Becomes(w, [Call("create_venue", m, 0) EXCEPT !.status = s])
    /\ Read

CreateVenueCommit(w) ==
    /\ At(w, "create_venue", "commit")
    /\ \E v \in VenueIds :
        /\ IsNextId(venues, v)
        /\ venues' = Insert(venues, v, [manager |-> req[w].user,
                                       status |-> req[w].status])
        /\ Committed(w, v)
    /\ UNCHANGED <<events, votes, now>>

(* update_venue: look the venue up and apply the payload to the loaded     *)
(* object; s = None is a payload without a status, and a status equal to   *)
(* the loaded one is not written.                                          *)
UpdateVenue(w) ==
    /\ Accepts(w, "update_venue")
    /\ \E m \in Managers, v \in VenueIds, s \in VenueInputs \cup {None} :
        IF v \notin DOMAIN venues \/ venues[v].manager # m
        THEN Refuse(w)
        ELSE LET new == IF s = None THEN venues[v].status ELSE s
             IN Becomes(w, [Call("update_venue", m, v) EXCEPT
                    !.status = IF new = venues[v].status THEN None ELSE new,
                    !.step = IF new = "closed" THEN "load_events" ELSE "commit"])
    /\ Read

(* Mutants of UpdateVenueLoadEvents: the ballots of the events are left    *)
(* alone; only pending events are rejected.                                *)
UpdateVenueLeavesBallots(w) ==
    /\ At(w, "update_venue", "load_events")
    /\ Becomes(w, [req[w] EXCEPT
            !.evs = {e \in EventsAt(req[w].key) : events[e].status # "rejected"},
            !.step = "commit"])
    /\ Read

UpdateVenueRejectsPending(w) ==
    /\ At(w, "update_venue", "load_events")
    /\ LET es == {e \in EventsAt(req[w].key) : events[e].status = "pending"}
       IN Becomes(w, [req[w] EXCEPT
            !.evs = es, !.todo = es,
            !.step = IF es = {} THEN "commit" ELSE "load_votes"])
    /\ Read

(* The venue is closed: every event assigned to it is to be rejected.      *)
UpdateVenueLoadEvents(w) ==
    /\ At(w, "update_venue", "load_events")
    /\ LET es == EventsAt(req[w].key)
       IN Becomes(w, [req[w] EXCEPT
            !.evs = {e \in es : events[e].status # "rejected"},
            !.todo = es,
            !.step = IF es = {} THEN "commit" ELSE "load_votes"])
    /\ Read

UpdateVenueCommit(w) ==
    /\ At(w, "update_venue", "commit")
    /\ LET r == req[w]
       IN IF \/ r.status # None /\ r.key \notin DOMAIN venues
             \/ ~ (r.evs \subseteq DOMAIN events)
             \/ ~ (r.vts \subseteq DOMAIN votes)
          THEN Rollback(w)
          ELSE /\ venues' = IF r.status = None THEN venues
                            ELSE [venues EXCEPT ![r.key].status = r.status]
               /\ events' = SetStatus(r.evs, "rejected")
               /\ votes' = CloseBallots(r.vts)
               /\ Committed(w, r.key)
               /\ UNCHANGED now

DeleteVenue(w) ==
    /\ Accepts(w, "delete_venue")
    /\ \E m \in Managers, v \in VenueIds :
        IF \/ v \notin DOMAIN venues
           \/ venues[v].manager # m
           \/ venues[v].status # "closed"
        THEN Refuse(w)
        ELSE Becomes(w, Call("delete_venue", m, v))
    /\ Read

(* The events relationship has passive_deletes: the database cascades.     *)
DeleteVenueCommit(w) ==
    /\ At(w, "delete_venue", "commit")
    /\ venues' = Delete(venues, {req[w].key})
    /\ DropEvents(EventsAt(req[w].key), {})
    /\ Committed(w, req[w].key)
    /\ UNCHANGED now

-----------------------------------------------------------------------------
(* router/event.py                                                         *)

(* create_event: the venue must exist and be available.  The payload       *)
(* carries the status the event starts with; its date is not checked.      *)
CreateEvent(w) ==
    /\ Accepts(w, "create_event")
    /\ \E c \in Customers, v \in VenueIds, d \in Dates, s \in EventInputs :
        IF v \notin DOMAIN venues \/ venues[v].status # "available"
        THEN Refuse(w)
        ELSE Becomes(w, [Call("create_event", c, 0) EXCEPT
                            !.venue = v, !.date = d, !.status = s])
    /\ Read

CreateEventCommit(w) ==
    /\ At(w, "create_event", "commit")
    /\ LET r == req[w]
       IN IF r.venue \notin DOMAIN venues      \* foreign key
          THEN Rollback(w)
          ELSE \E e \in EventIds :
                /\ IsNextId(events, e)
                /\ events' = Insert(events, e,
                        [status |-> r.status, date |-> r.date, venue |-> r.venue,
                         customer |-> r.user, vote_count |-> 0])
                /\ Committed(w, e)
                /\ UNCHANGED <<venues, votes, now>>

(* Mutant of UpdateEventStatus: an event that is decided is decided again. *)
UpdateEventStatusAgain(w) ==
    /\ Accepts(w, "update_event_status")
    /\ \E m \in Managers, e \in EventIds, s \in EventInputs :
        IF e \notin DOMAIN events \/ s \notin {"approved", "rejected"}
        THEN Refuse(w)
        ELSE Becomes(w, [Call("update_event_status", m, e) EXCEPT
                            !.ref = events[e].venue,
                            !.date = events[e].date,
                            !.status = s,
                            !.step = "load_venue"])
    /\ Read

(* update_event_status: load the event.  An event that is not pending and  *)
(* a target status other than approved and rejected are refused (the code  *)
(* looks at them after the venue, on this same loaded event).              *)
UpdateEventStatus(w) ==
    /\ Accepts(w, "update_event_status")
    /\ \E m \in Managers, e \in EventIds, s \in EventInputs :
        IF \/ e \notin DOMAIN events
           \/ events[e].status # "pending"
           \/ s \notin {"approved", "rejected"}
        THEN Refuse(w)
        ELSE Becomes(w, [Call("update_event_status", m, e) EXCEPT
                            !.ref = events[e].venue,
                            !.date = events[e].date,
                            !.status = s,
                            !.step = "load_venue"])
    /\ Read

(* ... then its venue: only its manager may decide, and before the date.   *)
UpdateEventStatusLoadVenue(w) ==
    /\ At(w, "update_event_status", "load_venue")
    /\ LET r == req[w]
       IN IF \/ r.ref \notin DOMAIN venues
             \/ venues[r.ref].manager # r.user
             \/ r.date <= now
          THEN Refuse(w)
          ELSE Becomes(w, [r EXCEPT !.evs = {r.key}, !.todo = {r.key},
                                    !.step = "load_votes"])
    /\ Read

UpdateEventStatusCommit(w) ==
    /\ At(w, "update_event_status", "commit")
    /\ LET r == req[w]
       IN IF ~ (r.evs \subseteq DOMAIN events) \/ ~ (r.vts \subseteq DOMAIN votes)
          THEN Rollback(w)
          ELSE /\ events' = SetStatus(r.evs, r.status)
               /\ votes' = CloseBallots(r.vts)
               /\ Committed(w, r.key)
               /\ UNCHANGED <<venues, now>>

(* Mutant of UpdateEvent: the status of the event is not looked at.        *)
UpdateEventDecided(w) ==
    /\ Accepts(w, "update_event")
    /\ \E c \in Customers, e \in EventIds, d \in Dates :
        IF e \notin DOMAIN events \/ d <= now
        THEN Refuse(w)
        ELSE Becomes(w, [Call("update_event", c, e) EXCEPT !.date = d])
    /\ Read

(* update_event: a field not given, or equal to the loaded value, is not   *)
(* written and is None here.                                               *)
UpdateEvent(w) ==
    /\ Accepts(w, "update_event")
    /\ \E c \in Customers, e \in EventIds,
          d \in Dates \cup {None}, v \in VenueIds \cup {None} :
        IF \/ e \notin DOMAIN events
           \/ events[e].customer # c
           \/ events[e].status # "pending"
           \/ d # None /\ d <= now
        THEN Refuse(w)
        ELSE Becomes(w, [Call("update_event", c, e) EXCEPT
                !.date = IF d = events[e].date THEN None ELSE d,
                !.venue = v,
                !.ref = events[e].venue,
                !.step = IF v = None THEN "commit" ELSE "load_venue"])
    /\ Read

(* A date with a time zone cannot be compared with the naive one of now:   *)
(* TypeError, once the other checks have passed.                           *)
UpdateEventAwareDate(w) ==
    /\ AwareDates
    /\ Accepts(w, "update_event")
    /\ \E c \in Customers, e \in DOMAIN events :
        events[e].customer = c /\ events[e].status = "pending"
    /\ Rollback(w)

(* The target venue of the payload must exist; its status is not looked    *)
(* at.                                                                     *)
UpdateEventLoadVenue(w) ==
    /\ At(w, "update_event", "load_venue")
    /\ IF req[w].venue \notin DOMAIN venues
       THEN Refuse(w)
       ELSE Becomes(w, [req[w] EXCEPT
                !.venue = IF @ = req[w].ref THEN None ELSE @,
                !.step = "commit"])
    /\ Read

(* Mutants of UpdateEventCommit: fields that are not given are written as  *)
(* NULL; the whole row is written back, with the status it was loaded      *)
(* with.                                                                   *)
UpdateEventWritesNull(w) ==
    /\ At(w, "update_event", "commit")
    /\ req[w].key \in DOMAIN events
    /\ events' = [events EXCEPT ![req[w].key].date = req[w].date]
    /\ Committed(w, req[w].key)
    /\ UNCHANGED <<venues, votes, now>>

UpdateEventWritesRow(w) ==
    /\ At(w, "update_event", "commit")
    /\ req[w].key \in DOMAIN events
    /\ req[w].venue = None
    /\ events' = [events EXCEPT ![req[w].key].date = IF req[w].date = None THEN @
                                                                 ELSE req[w].date,
                                ![req[w].key].status = "pending"]
    /\ Committed(w, req[w].key)
    /\ UNCHANGED <<venues, votes, now>>

UpdateEventCommit(w) ==
    /\ At(w, "update_event", "commit")
    /\ LET r == req[w]
       IN IF \/ (r.date # None \/ r.venue # None) /\ r.key \notin DOMAIN events
             \/ r.venue # None /\ r.venue \notin DOMAIN venues    \* foreign key
          THEN Rollback(w)
          ELSE /\ events' = [e \in DOMAIN events |->
                    IF e # r.key THEN events[e]
                    ELSE [events[e] EXCEPT
                            !.date  = IF r.date = None THEN @ ELSE r.date,
                            !.venue = IF r.venue = None THEN @ ELSE r.venue]]
               /\ Committed(w, r.key)
               /\ UNCHANGED <<venues, votes, now>>

(* delete_event: db.delete() loads the votes to cascade to.                *)
DeleteEvent(w) ==
    /\ Accepts(w, "delete_event")
    /\ \E c \in Customers, e \in EventIds :
        IF \/ e \notin DOMAIN events
           \/ events[e].customer # c
           \/ events[e].status # "pending"
        THEN Refuse(w)
        ELSE Becomes(w, [Call("delete_event", c, e) EXCEPT
                            !.todo = {e}, !.step = "load_votes"])
    /\ Read

DeleteEventCommit(w) ==
    /\ At(w, "delete_event", "commit")
    /\ DropEvents({req[w].key}, req[w].vts)
    /\ Committed(w, req[w].key)
    /\ UNCHANGED <<venues, now>>

(* event.votes is loaded, one event after the other: a decision will close *)
(* the votes it finds open, a deletion will delete all it finds.           *)
LoadVotes(w) ==
    /\ req[w].step = "load_votes"
    /\ \E e \in req[w].todo :
        LET found == {v \in VotesOf(e) : \/ req[w].op = "delete_event"
                                         \/ votes[v].status = "ballot_open"}
            left  == req[w].todo \ {e}
        IN Becomes(w, [req[w] EXCEPT !.vts = @ \cup found, !.todo = left,
                          !.step = IF left = {} THEN "commit" ELSE "load_votes"])
    /\ Read

-----------------------------------------------------------------------------
(* router/vote.py                                                          *)

CastVote(w) ==
    /\ Accepts(w, "cast_vote")
    /\ \E c \in Customers, e \in EventIds :
        IF \/ e \notin DOMAIN events
           \/ events[e].status # "pending"
           \/ events[e].date <= now
        THEN Refuse(w)
        ELSE Becomes(w, [Call("cast_vote", c, e) EXCEPT
                            !.count = events[e].vote_count,
                            !.step = "load_existing"])
    /\ Read

(* Mutant of CastVoteLoadExisting: a vote that exists is overlooked.       *)
CastVoteUnchecked(w) ==
    /\ At(w, "cast_vote", "load_existing")
    /\ Becomes(w, [req[w] EXCEPT !.step = "commit"])
    /\ Read

CastVoteLoadExisting(w) ==
    /\ At(w, "cast_vote", "load_existing")
    /\ IF \E v \in VotesOf(req[w].key) : votes[v].customer = req[w].user
       THEN Refuse(w)
       ELSE Becomes(w, [req[w] EXCEPT !.step = "commit"])
    /\ Read

(* vote_count is written as the loaded value plus one.                     *)
CastVoteCommit(w) ==
    /\ At(w, "cast_vote", "commit")
    /\ LET r == req[w]
       IN IF r.key \notin DOMAIN events
          THEN Rollback(w)
          ELSE \E v \in VoteIds :
                /\ IsNextId(votes, v)
                /\ r.count < MaxCount
                /\ votes' = Insert(votes, v, [event |-> r.key, customer |-> r.user,
                                              status |-> "ballot_open"])
                /\ events' = [events EXCEPT ![r.key].vote_count = r.count + 1]
                /\ Committed(w, v)
                /\ UNCHANGED <<venues, now>>

DeleteVote(w) ==
    /\ Accepts(w, "delete_vote")
    /\ \E c \in Customers, v \in VoteIds :
        IF \/ v \notin DOMAIN votes
           \/ votes[v].customer # c
           \/ votes[v].status # "ballot_open"
        THEN Refuse(w)
        ELSE Becomes(w, [Call("delete_vote", c, v) EXCEPT
                            !.ref = votes[v].event, !.step = "load_event"])
    /\ Read

(* vote.event is loaded lazily; it is None if the event is gone by now,    *)
(* and reading its date then raises AttributeError.                        *)
DeleteVoteLoadEvent(w) ==
    /\ At(w, "delete_vote", "load_event")
    /\ LET e == req[w].ref
       IN IF e \notin DOMAIN events
          THEN Becomes(w, Free("error"))
          ELSE IF events[e].date <= now
               THEN Refuse(w)
               ELSE Becomes(w, [req[w] EXCEPT !.count = events[e].vote_count,
                                              !.step = "commit"])
    /\ Read

(* Mutant of DeleteVoteCommit: vote_count is not decremented.              *)
DeleteVoteKeepsCount(w) ==
    /\ At(w, "delete_vote", "commit")
    /\ votes' = Delete(votes, {req[w].key})
    /\ Committed(w, req[w].key)
    /\ UNCHANGED <<venues, events, now>>

(* vote_count is written as the loaded value minus one; the DELETE may     *)
(* find no row any more.                                                   *)
DeleteVoteCommit(w) ==
    /\ At(w, "delete_vote", "commit")
    /\ LET r == req[w]
       IN IF r.ref \notin DOMAIN events
          THEN Rollback(w)
          ELSE /\ r.count > -MaxCount
               /\ votes' = Delete(votes, {r.key})
               /\ events' = [events EXCEPT ![r.ref].vote_count = r.count - 1]
               /\ Committed(w, r.key)
               /\ UNCHANGED <<venues, now>>

-----------------------------------------------------------------------------
(* After commit(), refresh() re-reads the row the answer shows and raises  *)
(* if another request has deleted it; the deletions show no row.           *)
RowIsThere(op, k) ==
    \/ op \in Deletions
    \/ op \in {"create_venue", "update_venue"} /\ k \in DOMAIN venues
    \/ op \in {"create_event", "update_event", "update_event_status"}
          /\ k \in DOMAIN events
    \/ op = "cast_vote" /\ k \in DOMAIN votes

Refresh(w) ==
    /\ req[w].step = "respond"
    /\ IF ~ RowIsThere(req[w].op, req[w].key)
       THEN Becomes(w, Free("error"))
       ELSE Becomes(w, IF req[w].op = "cast_vote"
                       THEN [req[w] EXCEPT !.step = "title"] ELSE Free("ok"))
    /\ Read

(* The answer of cast_vote shows the title of the event, an attribute that *)
(* commit() has expired: reading it re-reads the event and raises if it is *)
(* gone.                                                                   *)
LoadTitle(w) ==
    /\ req[w].step = "title"
    /\ Becomes(w, Free(IF req[w].ref \in DOMAIN events THEN "ok" ELSE "error"))
    /\ Read

(* What is left to do once commit() has returned.                          *)
Respond(w) == Refresh(w) \/ LoadTitle(w)

(* A statement does not get its lock on the database file within the       *)
(* driver's timeout; before the commit nothing has been written, after it  *)
(* the write stays.  The answer of a deletion needs no statement.          *)
DatabaseLocked(w) ==
    /\ LockTimeouts
    /\ req[w].step \notin Outcomes
    /\ ~ (req[w].step = "respond" /\ req[w].op \in Deletions)
    /\ Becomes(w, Free("locked"))
    /\ Read

(* The process dies and starts again: the database file is all that stays. *)
Restart ==
    /\ req' = [w \in Workers |-> Free("idle")]
    /\ Read

Tick ==
    /\ now < MaxTime
    /\ now' = now + 1
    /\ UNCHANGED <<venues, events, votes, req>>

(* A client's request reaches worker w.                                    *)
Receive(w) ==
    \/ CreateVenue(w) \/ UpdateVenue(w) \/ DeleteVenue(w)
    \/ CreateEvent(w) \/ UpdateEventStatus(w) \/ DeleteEvent(w)
    \/ UpdateEvent(w) \/ UpdateEventAwareDate(w)
    \/ CastVote(w) \/ DeleteVote(w)

(* Worker w executes the next statement of the request it is serving.      *)
Execute(w) ==
    \/ CreateVenueCommit(w)
    \/ UpdateVenueLoadEvents(w) \/ UpdateVenueCommit(w) \/ DeleteVenueCommit(w)
    \/ CreateEventCommit(w)
    \/ UpdateEventStatusLoadVenue(w) \/ UpdateEventStatusCommit(w)
    \/ UpdateEventLoadVenue(w) \/ UpdateEventCommit(w)
    \/ DeleteEventCommit(w) \/ LoadVotes(w)
    \/ CastVoteLoadExisting(w) \/ CastVoteCommit(w)
    \/ DeleteVoteLoadEvent(w) \/ DeleteVoteCommit(w)

Next ==
    \/ \E w \in Workers : Receive(w) \/ Execute(w) \/ Respond(w) \/ DatabaseLocked(w)
    \/ Restart
    \/ Tick

Spec == Init /\ [][Next]_vars

-----------------------------------------------------------------------------
(* Properties                                                              *)

(* Types of the tables and of the requests in flight.                      *)
TypeOK ==
    /\ IsTable(venues, VenueIds, Venue)
    /\ IsTable(events, EventIds, Event)
    /\ IsTable(votes, VoteIds, Vote)
    /\ now \in 0..MaxTime
    /\ req \in [Workers -> Request]

(* No event without its venue and no vote without its event, whatever      *)
(* requests overlap: the foreign keys of models.py with PRAGMA             *)
(* foreign_keys=ON (database.py).                                          *)
ReferentialIntegrity ==
    /\ \A e \in DOMAIN events : events[e].venue \in DOMAIN venues
    /\ \A v \in DOMAIN votes : votes[v].event \in DOMAIN events

(* A decided event never becomes pending again and a closed ballot never   *)
(* opens again, whatever requests overlap.                                 *)
KeepsDecisions ==
    /\ \A e \in DOMAIN events \cap DOMAIN events' :
        events'[e].status = "pending" => events[e].status = "pending"
    /\ \A v \in DOMAIN votes \cap DOMAIN votes' :
        votes'[v].status = "ballot_open" => votes[v].status = "ballot_open"

NothingReopens == [][KeepsDecisions]_<<events, votes>>

(* The denormalised counter of an event is the number of its votes.        *)
VoteCountExact ==
    \A e \in DOMAIN events : events[e].vote_count = Cardinality(VotesOf(e))

(* A customer has at most one vote on an event (cast_vote's check).        *)
OneVotePerCustomer ==
    \A u, v \in DOMAIN votes :
        votes[u].event = votes[v].event /\ votes[u].customer = votes[v].customer
            => u = v

(* What get_vote reports of a vote, and what get_my_votes does.            *)
StoredStatus(v) == votes[v].status

EffectiveStatus(v) ==
    IF /\ events[votes[v].event].date < now
       /\ votes[v].status = "ballot_open"
    THEN "ballot_close" ELSE votes[v].status

(* A customer's list of votes shows a ballot as open exactly while the     *)
(* event is pending and its date has not passed, and no stored ballot of a *)
(* decided event is open (update_event_status, update_venue).              *)
BallotsFollowStatus ==
    \A v \in DOMAIN votes :
        LET e == events[votes[v].event]
        IN  /\ StoredStatus(v) = "ballot_open" => e.status = "pending"
            /\ EffectiveStatus(v) = "ballot_open"
                    <=> e.status = "pending" /\ e.date >= now

(* A rejected event stays rejected.                                        *)
RejectedStays ==
    \A e \in DOMAIN events \cap DOMAIN events' :
        events[e].status = "rejected" => events'[e].status = "rejected"

RejectedIsTerminal == [][RejectedStays]_events

(* When a venue becomes closed, every event assigned to it is rejected and *)
(* every ballot on these events is closed (update_venue).                  *)
RejectsAll ==
    \A x \in DOMAIN venues \cap DOMAIN venues' :
        venues[x].status # "closed" /\ venues'[x].status = "closed"
        => \A e \in DOMAIN events' : events'[e].venue = x =>
            /\ events'[e].status = "rejected"
            /\ \A v \in DOMAIN votes' :
                votes'[v].event = e => votes'[v].status = "ballot_close"

ClosingRejectsAll == [][RejectsAll]_venues

(* The date and the venue of an event change, and an event is deleted by   *)
(* its customer, only while it is pending (update_event, delete_event).    *)
EditsPending ==
    \A e \in DOMAIN events :
        \/ events[e].status = "pending"
        \/ /\ e \in DOMAIN events'
           /\ events'[e].date = events[e].date
           /\ events'[e].venue = events[e].venue
        \/ events[e].venue \notin DOMAIN venues'

EditsOnlyWhilePending == [][EditsPending]_<<venues, events>>


(* No handler ends in an exception: a date that cannot be compared, a row  *)
(* that is gone, a foreign key that dangles.                               *)
NoServerError == \A w \in Workers : req[w].step # "error"
=============================================================================
