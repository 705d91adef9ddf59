-------------------------- MODULE MCCachedBooking --------------------------
(***************************************************************************)
(* Instances of CachedBooking for TLC: every worker serves every endpoint. *)
(***************************************************************************)
EXTENDS CachedBooking

ServesAll == [w \in Workers |-> OpNames]
=============================================================================
