------------------------- MODULE BookingRefinement -------------------------
(***************************************************************************)
(* One request at a time, Booking implements EventLifecycle: a commit is   *)
(* the abstract operation, every other statement of a handler is a         *)
(* stutter.  The mapping forgets the requests, the clock and the dates,    *)
(* and collects the rows of votes by event and customer.                   *)
(***************************************************************************)
EXTENDS Booking

Voters(e) == {votes[v].customer : v \in VotesOf(e)}

(* The ballot of customer c on event e; c has one vote on it at most.      *)
BallotOf(e, c) ==
    votes[CHOOSE v \in VotesOf(e) : votes[v].customer = c].status

(* The state of EventLifecycle that the tables stand for                   *)
venueBar ==
    [v \in DOMAIN venues |->
        [owner |-> venues[v].manager, status |-> venues[v].status]]

eventBar ==
    [e \in DOMAIN events |->
        [status   |-> events[e].status,
         venue    |-> events[e].venue,
         customer |-> events[e].customer,
         ballots  |-> [c \in Voters(e) |-> BallotOf(e, c)],
         tally    |-> events[e].vote_count]]

Lifecycle == INSTANCE EventLifecycle WITH
    Person  <- Customers,
    Manager <- Managers,
    VenueId <- VenueIds,
    EventId <- EventIds,
    venue   <- venueBar,
    event   <- eventBar

(* Whatever sequence of requests is served, with restarts in between, the  *)
(* tables change as the abstract lifecycle says (router/venue.py,          *)
(* router/event.py, router/vote.py): checks and loads that are spread over *)
(* the statements of a handler add up to the atomic operation.             *)
ImplementsLifecycle == Lifecycle!Spec
=============================================================================
