--------------------------- MODULE MCAuthSession ---------------------------
(***************************************************************************)
(* Instances of AuthSession for TLC: what each request may be.             *)
(***************************************************************************)
EXTENDS AuthSession, TLC

CONSTANTS r1, r2, r3

(* Ordinary requests only; they are then interchangeable.                  *)
CallsOnly == [r \in Requests |-> {"call"}]
RequestSymmetry == Permutations(Requests)

(* r1 makes ordinary requests, registers or logs in, and r2 registers or   *)
(* logs out.                                                               *)
LogoutApart == (r1 :> {"register", "login", "call"}) @@ (r2 :> {"register", "logout"})

(* Every request may be anything.                                          *)
AnyOp == [r \in Requests |-> AllOps]
=============================================================================
