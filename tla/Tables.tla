------------------------------- MODULE Tables -------------------------------
(***************************************************************************)
(* The relational store of HappenHub (models.py on SQLite): the row types, *)
(* and what an INSERT, a DELETE and a primary-key lookup do.  A table is a *)
(* partial function from row ids to rows; its DOMAIN is the set of ids     *)
(* that have a row.  Columns no property looks at (titles, addresses,      *)
(* timestamps, JSON documents) are left out.                               *)
(***************************************************************************)
EXTENDS Integers, Functions

CONSTANTS
    Customers,      \* rows of the customers table (registered beforehand)
    Managers,       \* rows of the venue_managers table
    MaxVenues,      \* bound: largest venue id
    MaxEvents,      \* bound: largest event id
    MaxVotes,       \* bound: largest vote id
    MaxCount,       \* bound: largest absolute value of a vote_count
    MaxTime         \* bound: last value of the clock

ASSUME BoundsAreNaturals ==
    /\ MaxVenues \in Nat
    /\ MaxEvents \in Nat
    /\ MaxVotes \in Nat
    /\ MaxCount \in Nat
    /\ MaxTime \in Nat

VenueIds == 1..MaxVenues
EventIds == 1..MaxEvents
VoteIds  == 1..MaxVotes
Dates    == 1..(MaxTime + 1)
Counts   == (-MaxCount)..MaxCount

VenueStatus == {"available", "reserved", "booked", "under_maintenance", "closed"}
EventStatus == {"pending", "approved", "rejected"}
VoteStatus  == {"ballot_open", "ballot_close"}

Venue == [manager : Managers, status : VenueStatus]

Event == [status     : EventStatus,
          date       : Dates,
          venue      : VenueIds,
          customer   : Customers,
          vote_count : Counts]

Vote == [event : EventIds, customer : Customers, status : VoteStatus]

(***************************************************************************)
(* A table whose ids lie in ids and whose rows are of type Row.            *)
(***************************************************************************)
IsTable(t, ids, Row) ==
    /\ DOMAIN t \subseteq ids
    /\ t \in [DOMAIN t -> Row]

Insert(t, id, row) ==
    [x \in DOMAIN t \cup {id} |-> IF x = id THEN row ELSE t[x]]

Delete(t, ids) == Restrict(t, DOMAIN t \ ids)

(***************************************************************************)
(* An INTEGER PRIMARY KEY without SQLite's AUTOINCREMENT keyword is the    *)
(* rowid: the next id is one more than the largest id in the table NOW, so *)
(* the id of a deleted last row is given out again.                        *)
(***************************************************************************)
IsNextId(t, id) ==
    /\ \A x \in DOMAIN t : x < id
    /\ id = 1 \/ id - 1 \in DOMAIN t
=============================================================================
