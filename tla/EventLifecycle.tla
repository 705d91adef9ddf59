--------------------------- MODULE EventLifecycle ---------------------------
(***************************************************************************)
(* What the venue, event and vote endpoints promise together, with every   *)
(* operation one atomic step: an event is proposed at an available venue,  *)
(* its customer may move or withdraw it and customers vote on it while it  *)
(* is pending, the manager of its venue approves or rejects it, and        *)
(* closing the venue rejects it; the ballots are open exactly while it is  *)
(* pending.  There are no requests, no sessions and no clock here.         *)
(*                                                                         *)
(* A proposal may start with any status: create_event stores the one of    *)
(* its payload.                                                            *)
(***************************************************************************)
EXTENDS Integers, Functions

CONSTANTS
    Person,         \* those who propose events and vote
    Manager,        \* those who own venues
    VenueId,
    EventId

VARIABLES
    venue,      \* venue[v]: owner and status, for the venues that exist
    event       \* event[e]: the event, its ballots and their tally

vars == <<venue, event>>

VenueState == {"available", "reserved", "booked", "under_maintenance", "closed"}
EventState == {"pending", "approved", "rejected"}

Put(f, x, y) == [z \in DOMAIN f \cup {x} |-> IF z = x THEN y ELSE f[z]]

Without(f, S) == Restrict(f, DOMAIN f \ S)

(* One ballot per customer who has voted; all close with the decision.     *)
Decided(ev, s) ==
    [ev EXCEPT !.status = s,
               !.ballots = [c \in DOMAIN ev.ballots |-> "ballot_close"]]

Pending == {e \in DOMAIN event : event[e].status = "pending"}

At(v) == {e \in DOMAIN event : event[e].venue = v}

Init ==
    /\ venue = <<>>
    /\ event = <<>>

-----------------------------------------------------------------------------
(* Venues                                                                  *)

Open(v, m, s) ==
    /\ v \notin DOMAIN venue
    /\ venue' = Put(venue, v, [owner |-> m, status |-> s])
    /\ UNCHANGED event

(* A venue that is closed takes its events with it, decided or not.        *)
SetVenue(v, s) ==
    /\ v \in DOMAIN venue
    /\ venue' = [venue EXCEPT ![v].status = s]
    /\ event' = [e \in DOMAIN event |->
                    IF s = "closed" /\ e \in At(v)
                    THEN Decided(event[e], "rejected") ELSE event[e]]

Demolish(v) ==
    /\ v \in DOMAIN venue /\ venue[v].status = "closed"
    /\ venue' = Without(venue, {v})
    /\ event' = Without(event, At(v))

-----------------------------------------------------------------------------
(* Events and ballots                                                      *)

Propose(e, c, v, s) ==
    /\ e \notin DOMAIN event
    /\ v \in DOMAIN venue /\ venue[v].status = "available"
    /\ event' = Put(event, e, [status |-> s, venue |-> v, customer |-> c,
                               ballots |-> <<>>, tally |-> 0])
    /\ UNCHANGED venue

Decide(e, s) ==
    /\ e \in Pending
    /\ s # "pending"
    /\ event' = [event EXCEPT ![e] = Decided(@, s)]
    /\ UNCHANGED venue

Move(e, v) ==
    /\ e \in Pending
    /\ v \in DOMAIN venue
    /\ event' = [event EXCEPT ![e].venue = v]
    /\ UNCHANGED venue

Withdraw(e) ==
    /\ e \in Pending
    /\ event' = Without(event, {e})
    /\ UNCHANGED venue

Vote(e, c) ==
    /\ e \in Pending
    /\ c \notin DOMAIN event[e].ballots
    /\ event' = [event EXCEPT ![e].ballots = Put(@, c, "ballot_open"),
                              ![e].tally = @ + 1]
    /\ UNCHANGED venue

Unvote(e, c) ==
    /\ e \in Pending
    /\ c \in DOMAIN event[e].ballots
    /\ event' = [event EXCEPT ![e].ballots = Without(@, {c}),
                              ![e].tally = @ - 1]
    /\ UNCHANGED venue

(* A request that is refused, that reads, or that edits what is not shown  *)
(* here (a date, a name) leaves all of this alone.                         *)
LeaveAlone == UNCHANGED vars

Next ==
    \/ LeaveAlone
    \/ \E v \in VenueId \ DOMAIN venue, m \in Manager, s \in VenueState : Open(v, m, s)
    \/ \E v \in DOMAIN venue : Demolish(v) \/ \E s \in VenueState : SetVenue(v, s)
    \/ \E e \in EventId \ DOMAIN event, c \in Person, v \in DOMAIN venue, s \in EventState :
            Propose(e, c, v, s)
    \/ \E e \in Pending : \/ \E s \in EventState : Decide(e, s)
                          \/ \E v \in DOMAIN venue : Move(e, v)
                          \/ \E c \in Person : Vote(e, c) \/ Unvote(e, c)
                          \/ Withdraw(e)

Spec == Init /\ [][Next]_vars
=============================================================================
