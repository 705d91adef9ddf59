----------------------------- MODULE MCBooking -----------------------------
(***************************************************************************)
(* Instances of Booking for TLC: which endpoints each worker serves.       *)
(***************************************************************************)
EXTENDS BookingRefinement, TLC

CONSTANTS w1, w2

(* Every worker serves every endpoint.                                     *)
ServesAll == [w \in Workers |-> OpNames]

(* Customers are interchangeable, and so are workers that serve the same.  *)
CustomerSymmetry == Permutations(Customers)
FullSymmetry == Permutations(Customers) \cup Permutations(Workers)
=============================================================================
