------------------------ MODULE ConnectionPoolProofs ------------------------
(***************************************************************************)
(* What ConnectionPool guarantees for any number of requests and any size  *)
(* of the pool: types and the event loop, that no connection is lost, and  *)
(* that nobody waits while two connections for each request fit.           *)
(***************************************************************************)
EXTENDS ConnectionPool, FiniteSetTheorems, TLAPS

(***************************************************************************)
(* The strengthening: which connections a request holds at which step.     *)
(* NoConnectionLost alone does not say that the one connection which       *)
(* Commit gives back is one that the request has.                          *)
(***************************************************************************)
HoldsOK(q) ==
    /\ q.step = "idle" => q = Idle
    /\ q.step \in {"arrived", "lookup", "reload"} => q.middleware = 0
    /\ q.step = "found" => q.middleware = 1
    /\ q.step = "query" => q.endpoint = 1
    /\ q.step \in Entries \cup {"arrived", "lookup", "found", "reload", "refresh"}
          => q.endpoint = 0

StepsHold == \A r \in Requests : HoldsOK(req[r])

IInv == TypeOK /\ NoConnectionLost /\ StepsHold

-----------------------------------------------------------------------------
(* Lemmas about the accounting                                             *)

InMiddleware == {r \in Requests : req[r].middleware = 1}
InEndpoint   == {r \in Requests : req[r].endpoint = 1}

LEMMA HeldIsNat ==
    /\ IsFiniteSet(InMiddleware) /\ IsFiniteSet(InEndpoint)
    /\ Cardinality(InMiddleware) \in Nat /\ Cardinality(InEndpoint) \in Nat
    /\ Held = Cardinality(InMiddleware) + Cardinality(InEndpoint)
<1>1. IsFiniteSet(InMiddleware) /\ IsFiniteSet(InEndpoint)
  BY PoolAssumption, FS_Subset DEF InMiddleware, InEndpoint
<1> QED
  BY <1>1, FS_CardinalityType DEF Held, InMiddleware, InEndpoint

(* What putting an element in a finite set or taking it out does to the    *)
(* number of its elements.                                                 *)
LEMMA CountWithElement ==
    ASSUME NEW S, IsFiniteSet(S), NEW x
    PROVE  /\ Cardinality(S) \in Nat
           /\ x \in S => /\ Cardinality(S \cup {x}) = Cardinality(S)
                         /\ Cardinality(S \ {x}) = Cardinality(S) - 1
           /\ x \notin S => /\ Cardinality(S \cup {x}) = Cardinality(S) + 1
                            /\ Cardinality(S \ {x}) = Cardinality(S)
  BY FS_CardinalityType, FS_AddElement, FS_RemoveElement

(* Changing one request changes what is held by what that request holds    *)
(* more or less.                                                           *)
LEMMA HeldChanges ==
    ASSUME TypeOK, NEW r \in Requests, NEW q \in Request, Becomes(r, q)
    PROVE  /\ Held \in Nat /\ Held' \in Nat
           /\ Held' = Held + q.middleware - req[r].middleware
                           + q.endpoint - req[r].endpoint
<1>1. req[r] \in Request /\ req' = [req EXCEPT ![r] = q]
  BY DEF TypeOK, Becomes
<1>2. /\ req[r].middleware \in 0..1 /\ q.middleware \in 0..1
      /\ req[r].endpoint \in 0..1 /\ q.endpoint \in 0..1
  BY <1>1 DEF Request
<1>3. /\ InMiddleware' = IF q.middleware = 1 THEN InMiddleware \cup {r}
                                             ELSE InMiddleware \ {r}
      /\ r \in InMiddleware <=> req[r].middleware = 1
  BY <1>1, <1>2 DEF InMiddleware, TypeOK
<1>4. /\ InEndpoint' = IF q.endpoint = 1 THEN InEndpoint \cup {r}
                                         ELSE InEndpoint \ {r}
      /\ r \in InEndpoint <=> req[r].endpoint = 1
  BY <1>1, <1>2 DEF InEndpoint, TypeOK
<1>5. Cardinality(InMiddleware') =
        Cardinality(InMiddleware) + q.middleware - req[r].middleware
  <2>1. /\ Cardinality(InMiddleware) \in Nat
        /\ r \in InMiddleware => /\ Cardinality(InMiddleware \cup {r}) = Cardinality(InMiddleware)
                 /\ Cardinality(InMiddleware \ {r}) = Cardinality(InMiddleware) - 1
        /\ r \notin InMiddleware => /\ Cardinality(InMiddleware \cup {r}) = Cardinality(InMiddleware) + 1
                    /\ Cardinality(InMiddleware \ {r}) = Cardinality(InMiddleware)
    BY HeldIsNat, CountWithElement
  <2>2. CASE q.middleware = 1
    <3>1. InMiddleware' = InMiddleware \cup {r}
      BY <2>2, <1>3
    <3> QED
      BY <2>1, <2>2, <3>1, <1>2, <1>3
  <2>3. CASE q.middleware = 0
    <3>1. InMiddleware' = InMiddleware \ {r}
      BY <2>3, <1>3
    <3> QED
      BY <2>1, <2>3, <3>1, <1>2, <1>3
  <2> QED
    BY <1>2, <2>2, <2>3
<1>6. Cardinality(InEndpoint') =
        Cardinality(InEndpoint) + q.endpoint - req[r].endpoint
  <2>1. /\ Cardinality(InEndpoint) \in Nat
        /\ r \in InEndpoint => /\ Cardinality(InEndpoint \cup {r}) = Cardinality(InEndpoint)
                 /\ Cardinality(InEndpoint \ {r}) = Cardinality(InEndpoint) - 1
        /\ r \notin InEndpoint => /\ Cardinality(InEndpoint \cup {r}) = Cardinality(InEndpoint) + 1
                    /\ Cardinality(InEndpoint \ {r}) = Cardinality(InEndpoint)
    BY HeldIsNat, CountWithElement
  <2>2. CASE q.endpoint = 1
    <3>1. InEndpoint' = InEndpoint \cup {r}
      BY <2>2, <1>4
    <3> QED
      BY <2>1, <2>2, <3>1, <1>2, <1>4
  <2>3. CASE q.endpoint = 0
    <3>1. InEndpoint' = InEndpoint \ {r}
      BY <2>3, <1>4
    <3> QED
      BY <2>1, <2>3, <3>1, <1>2, <1>4
  <2> QED
    BY <1>2, <2>2, <2>3
<1>7. /\ Held' = Cardinality(InMiddleware') + Cardinality(InEndpoint')
      /\ Held' \in Nat
  <2>1. IsFiniteSet(InMiddleware') /\ IsFiniteSet(InEndpoint')
    BY PoolAssumption, FS_Subset DEF InMiddleware, InEndpoint
  <2> QED
    BY <2>1, FS_CardinalityType DEF Held, InMiddleware, InEndpoint
<1> QED
  BY <1>2, <1>5, <1>6, <1>7, HeldIsNat

(* A step of one request keeps the invariant if it leaves the request with *)
(* the connections that go with its new step, moves as many connections    *)
(* between it and the pool, and has the loop exactly while in dispatch.    *)
LEMMA StepKeepsInv ==
    ASSUME IInv, NEW r \in Requests, NEW q \in Request, Becomes(r, q), HoldsOK(q),
           free' \in Nat,
           free' = free - q.middleware + req[r].middleware
                        - q.endpoint + req[r].endpoint,
           loop' = IF q.step \in {"lookup", "found", "reload"} THEN r
                   ELSE IF loop = r THEN None ELSE loop,
           q.step \in {"lookup", "found", "reload"} => loop \in {r, None}
    PROVE  IInv'
<1>1. /\ req[r] \in Request /\ req' = [req EXCEPT ![r] = q]
      /\ req' \in [Requests -> Request]
  BY DEF IInv, TypeOK, Becomes
<1>2. /\ req[r].middleware \in 0..1 /\ q.middleware \in 0..1
      /\ req[r].endpoint \in 0..1 /\ q.endpoint \in 0..1
  BY <1>1 DEF Request
<1>3. StepsHold'
  BY <1>1 DEF IInv, StepsHold, HoldsOK, Entries, Idle
<1>4. free' + Held' = Size
  BY <1>2, HeldChanges DEF IInv, NoConnectionLost, TypeOK
<1>5. NoConnectionLost'
  BY <1>3, <1>4 DEF NoConnectionLost, Active, StepsHold, HoldsOK, Entries, Idle
<1>6. free' \in 0..Size
  BY <1>4, HeldChanges, PoolAssumption DEF IInv
<1>7. /\ loop' \in Requests \cup {None}
      /\ \A x \in Requests :
            loop' = x <=> req'[x].step \in {"lookup", "found", "reload"}
  BY <1>1, PoolAssumption DEF IInv, TypeOK
<1> QED
  BY <1>1, <1>3, <1>5, <1>6, <1>7 DEF IInv, TypeOK
-----------------------------------------------------------------------------
(* The invariant                                                           *)

LEMMA InitInv == Init => IInv
<1> SUFFICES ASSUME Init PROVE IInv
  OBVIOUS
<1>1. TypeOK /\ StepsHold
  BY PoolAssumption
     DEF Init, TypeOK, Idle, Request, Steps, Entries, StepsHold, HoldsOK
<1>2. InMiddleware = {} /\ InEndpoint = {}
  BY DEF Init, Idle, InMiddleware, InEndpoint
<1>3. Held = 0
  BY <1>2, HeldIsNat, FS_EmptySet
<1>4. NoConnectionLost
  BY <1>3, PoolAssumption DEF Init, NoConnectionLost, Active
<1> QED
  BY <1>1, <1>4 DEF IInv

(* Editing a request                                                       *)
LEMMA Bits == 0 \in 0..1 /\ 1 \in 0..1
  OBVIOUS

LEMMA EditIsRequest ==
    ASSUME NEW q \in Request, NEW s \in Steps, NEW i \in 0..1
    PROVE  /\ [q EXCEPT !.step = s] \in Request
           /\ [q EXCEPT !.step = s, !.middleware = i] \in Request
           /\ [q EXCEPT !.step = s, !.endpoint = i] \in Request
           /\ [q EXCEPT !.middleware = i] \in Request
           /\ [q EXCEPT !.endpoint = i] \in Request
  BY DEF Request

(* AuthMiddleware.dispatch                                                 *)
LEMMA DispatchKeepsInv ==
    ASSUME IInv, NEW r \in Requests, Dispatch(r) \/ HoldsLoop(r)
    PROVE  IInv'
<1>1. /\ req[r] \in Request /\ HoldsOK(req[r]) /\ free \in 0..Size
      /\ loop = r <=> req[r].step \in {"lookup", "found", "reload"}
      /\ r # None /\ Size \in Nat
      /\ req[r].middleware \in 0..1 /\ req[r].endpoint \in 0..1
  BY PoolAssumption DEF IInv, TypeOK, StepsHold, Request
<1>2. /\ Idle \in Request /\ HoldsOK(Idle)
      /\ Idle.step = "idle" /\ Idle.middleware = 0 /\ Idle.endpoint = 0
  BY DEF Idle, Request, Steps, Entries, HoldsOK
<1>3. CASE Dispatch(r)
  <2>1. CASE Becomes(r, Idle) /\ UNCHANGED loop
    BY <1>1, <1>2, <1>3, <2>1, StepKeepsInv DEF Dispatch, HoldsOK, Entries
  <2>2. ASSUME NEW s \in {"begin", "plain"},
               Becomes(r, [req[r] EXCEPT !.step = s]), UNCHANGED loop
        PROVE  IInv'
    <3> DEFINE n == [req[r] EXCEPT !.step = s]
    <3>1. n \in Request
      BY <1>1, Bits, <2>2, EditIsRequest DEF Steps, Entries
    <3>a. /\ n.step = s
          /\ n.middleware = req[r].middleware
          /\ n.endpoint = req[r].endpoint
      BY <1>1 DEF Request
    <3>2. HoldsOK(n) /\ Becomes(r, n)
      BY <1>1, <1>3, <2>2, <3>a DEF Dispatch, HoldsOK, Entries
    <3> HIDE DEF n
    <3> QED
      BY <1>1, <1>3, <2>2, <3>1, <3>a, <3>2, StepKeepsInv DEF Dispatch, HoldsOK, Entries
  <2>3. CASE Becomes(r, [req[r] EXCEPT !.step = "lookup"]) /\ loop' = r
    <3> DEFINE n == [req[r] EXCEPT !.step = "lookup"]
    <3>1. n \in Request
      BY <1>1, Bits, EditIsRequest DEF Steps, Entries
    <3>a. /\ n.step = "lookup"
          /\ n.middleware = req[r].middleware
          /\ n.endpoint = req[r].endpoint
      BY <1>1 DEF Request
    <3>2. HoldsOK(n) /\ Becomes(r, n)
      BY <1>1, <1>3, <2>3, <3>a DEF Dispatch, HoldsOK, Entries
    <3> HIDE DEF n
    <3> QED
      BY <1>1, <1>3, <2>3, <3>1, <3>a, <3>2, StepKeepsInv DEF Dispatch, HoldsOK, Entries
  <2> QED
    BY <1>3, <2>1, <2>2, <2>3 DEF Dispatch
<1>4. CASE Lookup(r)
  <2> DEFINE n == [req[r] EXCEPT !.step = "found", !.middleware = 1]
  <2>1. n \in Request
    BY <1>1, Bits, EditIsRequest DEF Steps, Entries
  <2>a. /\ n.step = "found"
        /\ n.middleware = 1
        /\ n.endpoint = req[r].endpoint
    BY <1>1 DEF Request
  <2>2. HoldsOK(n) /\ Becomes(r, n)
    BY <1>1, <1>4, <2>a DEF Lookup, HoldsOK, Entries
  <2> HIDE DEF n
  <2> QED
    BY <1>1, <1>4, <2>1, <2>a, <2>2, StepKeepsInv DEF Lookup, CheckOut, HoldsOK, Entries
<1>5. CASE Unauthorized(r)
  <2>1. Becomes(r, Idle)
    BY <1>5 DEF Unauthorized
  <2> QED
    BY <1>1, <1>2, <1>5, <2>1, StepKeepsInv DEF Unauthorized, CheckIn, HoldsOK, Entries
<1>6. CASE CallNext(r)
  <2>0. PICK s \in Entries : Becomes(r, [req[r] EXCEPT !.step = s])
    BY <1>6 DEF CallNext
  <2> DEFINE n == [req[r] EXCEPT !.step = s]
  <2>1. n \in Request
    BY <1>1, <2>0, Bits, EditIsRequest DEF Steps, Entries
  <2>a. /\ n.step = s
        /\ n.middleware = req[r].middleware
        /\ n.endpoint = req[r].endpoint
    BY <1>1 DEF Request
  <2>2. HoldsOK(n) /\ Becomes(r, n)
    BY <1>1, <1>6, <2>0, <2>a DEF CallNext, HoldsOK, Entries
  <2> HIDE DEF n
  <2> QED
    BY <1>1, <1>6, <2>0, <2>1, <2>a, <2>2, StepKeepsInv DEF CallNext, HoldsOK, Entries
<1>7. CASE Rotate(r)
  <2> DEFINE n == [req[r] EXCEPT !.step = "reload", !.middleware = 0]
  <2>1. n \in Request
    BY <1>1, Bits, EditIsRequest DEF Steps, Entries
  <2>a. /\ n.step = "reload"
        /\ n.middleware = 0
        /\ n.endpoint = req[r].endpoint
    BY <1>1 DEF Request
  <2>2. HoldsOK(n) /\ Becomes(r, n)
    BY <1>1, <1>7, <2>a DEF Rotate, HoldsOK, Entries
  <2> HIDE DEF n
  <2> QED
    BY <1>1, <1>7, <2>1, <2>a, <2>2, StepKeepsInv DEF Rotate, CheckIn, HoldsOK, Entries
<1>8. CASE Reload(r)
  <2>0. PICK s \in Entries :
            Becomes(r, [req[r] EXCEPT !.step = s, !.middleware = 1])
    BY <1>8 DEF Reload
  <2> DEFINE n == [req[r] EXCEPT !.step = s, !.middleware = 1]
  <2>1. n \in Request
    BY <1>1, <2>0, Bits, EditIsRequest DEF Steps, Entries
  <2>a. /\ n.step = s
        /\ n.middleware = 1
        /\ n.endpoint = req[r].endpoint
    BY <1>1 DEF Request
  <2>2. HoldsOK(n) /\ Becomes(r, n)
    BY <1>1, <1>8, <2>0, <2>a DEF Reload, HoldsOK, Entries
  <2> HIDE DEF n
  <2> QED
    BY <1>1, <1>8, <2>0, <2>1, <2>a, <2>2, StepKeepsInv DEF Reload, CheckOut, HoldsOK, Entries
<1>9. CASE DispatchTimeout(r)
  <2>1. Becomes(r, Idle)
    BY <1>9 DEF DispatchTimeout
  <2> QED
    BY <1>1, <1>2, <1>9, <2>1, StepKeepsInv DEF DispatchTimeout, HoldsOK, Entries
<1> QED
  BY <1>3, <1>4, <1>5, <1>6, <1>7, <1>8, <1>9 DEF HoldsLoop

(* The endpoint, and what the loop does after it                           *)
LEMMA EndpointKeepsInv ==
    ASSUME IInv, NEW r \in Requests,
           \/ Arrive(r) \/ InThread(r) \/ UploadImages(r)
           \/ CloseEndpoint(r) \/ CloseMiddleware(r) \/ Answer(r)
    PROVE  IInv'
<1>1. /\ req[r] \in Request /\ HoldsOK(req[r]) /\ free \in 0..Size
      /\ loop = r <=> req[r].step \in {"lookup", "found", "reload"}
      /\ r # None /\ Size \in Nat
      /\ req[r].middleware \in 0..1 /\ req[r].endpoint \in 0..1
  BY PoolAssumption DEF IInv, TypeOK, StepsHold, Request
<1>2. /\ Idle \in Request /\ HoldsOK(Idle)
      /\ Idle.step = "idle" /\ Idle.middleware = 0 /\ Idle.endpoint = 0
  BY DEF Idle, Request, Steps, Entries, HoldsOK
<1>3. CASE Arrive(r)
  <2> DEFINE n(p) == [Idle EXCEPT !.step = "arrived", !.protected = p]
  <2>1. PICK p \in BOOLEAN : Becomes(r, n(p))
    BY <1>3 DEF Arrive
  <2>2. /\ n(p) \in Request /\ HoldsOK(n(p))
        /\ n(p).step = "arrived" /\ n(p).middleware = 0 /\ n(p).endpoint = 0
    BY <1>2 DEF Idle, Request, Steps, Entries, HoldsOK
  <2>3. req[r] = Idle
    BY <1>1, <1>3 DEF Arrive, HoldsOK, Entries
  <2>4. /\ loop' = loop /\ loop # r
        /\ free' \in Nat
        /\ free' = free - n(p).middleware + req[r].middleware
                        - n(p).endpoint + req[r].endpoint
    <3>1. free' = free /\ loop' = loop /\ loop # r
      BY <1>1, <1>2, <1>3, <2>3 DEF Arrive
    <3> HIDE DEF n
    <3> QED
      BY <1>1, <1>2, <2>2, <2>3, <3>1
  <2> HIDE DEF n
  <2>5. /\ loop' = IF n(p).step \in {"lookup", "found", "reload"} THEN r
                   ELSE IF loop = r THEN None ELSE loop
        /\ ~ n(p).step \in {"lookup", "found", "reload"}
    BY <2>2, <2>4
  <2> QED
    BY <2>1, <2>2, <2>4, <2>5, StepKeepsInv
<1>4. CASE NoQuery(r) \/ UploadImages(r)
  <2> DEFINE n == [req[r] EXCEPT !.step = "return"]
  <2>1. n \in Request
    BY <1>1, Bits, EditIsRequest DEF Steps, Entries
  <2>a. /\ n.step = "return"
        /\ n.middleware = req[r].middleware
        /\ n.endpoint = req[r].endpoint
    BY <1>1 DEF Request
  <2>2. HoldsOK(n) /\ Becomes(r, n)
    BY <1>1, <1>4, <2>a DEF NoQuery, UploadImages, HoldsOK, Entries
  <2> HIDE DEF n
  <2> QED
    BY <1>1, <1>4, <2>1, <2>a, <2>2, StepKeepsInv DEF NoQuery, UploadImages, HoldsOK, Entries
<1>5. CASE Query(r)
  <2> DEFINE n == [req[r] EXCEPT !.step = "query", !.endpoint = 1]
  <2>1. n \in Request
    BY <1>1, Bits, EditIsRequest DEF Steps, Entries
  <2>a. /\ n.step = "query"
        /\ n.endpoint = 1
        /\ n.middleware = req[r].middleware
    BY <1>1 DEF Request
  <2>2. HoldsOK(n) /\ Becomes(r, n)
    BY <1>1, <1>5, <2>a DEF Query, HoldsOK, Entries
  <2> HIDE DEF n
  <2> QED
    BY <1>1, <1>5, <2>1, <2>a, <2>2, StepKeepsInv DEF Query, CheckOut, HoldsOK, Entries
<1>6. CASE Return(r)
  <2> DEFINE n == [req[r] EXCEPT !.step = "return"]
  <2>1. n \in Request
    BY <1>1, Bits, EditIsRequest DEF Steps, Entries
  <2>a. /\ n.step = "return"
        /\ n.middleware = req[r].middleware
        /\ n.endpoint = req[r].endpoint
    BY <1>1 DEF Request
  <2>2. HoldsOK(n) /\ Becomes(r, n)
    BY <1>1, <1>6, <2>a DEF Return, HoldsOK, Entries
  <2> HIDE DEF n
  <2> QED
    BY <1>1, <1>6, <2>1, <2>a, <2>2, StepKeepsInv DEF Return, HoldsOK, Entries
<1>7. CASE Commit(r)
  <2>0. PICK s \in {"refresh", "return"} :
            Becomes(r, [req[r] EXCEPT !.step = s, !.endpoint = 0])
    BY <1>7 DEF Commit
  <2> DEFINE n == [req[r] EXCEPT !.step = s, !.endpoint = 0]
  <2>1. n \in Request
    BY <2>0, <1>1, Bits, EditIsRequest DEF Steps, Entries
  <2>a. /\ n.step = s
        /\ n.endpoint = 0
        /\ n.middleware = req[r].middleware
    BY <2>0, <1>1 DEF Request
  <2>2. HoldsOK(n) /\ Becomes(r, n)
    BY <2>0, <1>1, <1>7, <2>a DEF Commit, HoldsOK, Entries
  <2> HIDE DEF n
  <2> QED
    BY <2>0, <1>1, <1>7, <2>1, <2>a, <2>2, StepKeepsInv DEF Commit, CheckIn, HoldsOK, Entries
<1>8. CASE Refresh(r)
  <2> DEFINE n == [req[r] EXCEPT !.step = "return", !.endpoint = 1]
  <2>1. n \in Request
    BY <1>1, Bits, EditIsRequest DEF Steps, Entries
  <2>a. /\ n.step = "return"
        /\ n.endpoint = 1
        /\ n.middleware = req[r].middleware
    BY <1>1 DEF Request
  <2>2. HoldsOK(n) /\ Becomes(r, n)
    BY <1>1, <1>8, <2>a DEF Refresh, HoldsOK, Entries
  <2> HIDE DEF n
  <2> QED
    BY <1>1, <1>8, <2>1, <2>a, <2>2, StepKeepsInv DEF Refresh, CheckOut, HoldsOK, Entries
<1>9. CASE EndpointTimeout(r)
  <2> DEFINE n == [req[r] EXCEPT !.step = "return"]
  <2>1. n \in Request
    BY <1>1, Bits, EditIsRequest DEF Steps, Entries
  <2>a. /\ n.step = "return"
        /\ n.middleware = req[r].middleware
        /\ n.endpoint = req[r].endpoint
    BY <1>1 DEF Request
  <2>2. HoldsOK(n) /\ Becomes(r, n)
    BY <1>1, <1>9, <2>a DEF EndpointTimeout, HoldsOK, Entries
  <2> HIDE DEF n
  <2> QED
    BY <1>1, <1>9, <2>1, <2>a, <2>2, StepKeepsInv DEF EndpointTimeout, HoldsOK, Entries
<1>10. CASE CloseEndpoint(r)
  <2> DEFINE n == [req[r] EXCEPT !.endpoint = 0]
  <2>1. n \in Request
    BY <1>1, Bits, EditIsRequest DEF Steps, Entries
  <2>a. /\ n.step = req[r].step
        /\ n.endpoint = 0
        /\ n.middleware = req[r].middleware
    BY <1>1 DEF Request
  <2>2. HoldsOK(n) /\ Becomes(r, n)
    BY <1>1, <1>10, <2>a DEF CloseEndpoint, HoldsOK, Entries
  <2> HIDE DEF n
  <2> QED
    BY <1>1, <1>10, <2>1, <2>a, <2>2, StepKeepsInv DEF CloseEndpoint, CheckIn, HoldsOK, Entries
<1>11. CASE CloseMiddleware(r)
  <2> DEFINE n == [req[r] EXCEPT !.middleware = 0]
  <2>1. n \in Request
    BY <1>1, Bits, EditIsRequest DEF Steps, Entries
  <2>a. /\ n.step = req[r].step
        /\ n.middleware = 0
        /\ n.endpoint = req[r].endpoint
    BY <1>1 DEF Request
  <2>2. HoldsOK(n) /\ Becomes(r, n)
    BY <1>1, <1>11, <2>a DEF CloseMiddleware, HoldsOK, Entries
  <2> HIDE DEF n
  <2> QED
    BY <1>1, <1>11, <2>1, <2>a, <2>2, StepKeepsInv DEF CloseMiddleware, CheckIn, HoldsOK, Entries
<1>12. CASE Answer(r)
  <2>1. Becomes(r, Idle)
    BY <1>12 DEF Answer
  <2> QED
    BY <1>1, <1>2, <1>12, <2>1, StepKeepsInv DEF Answer, HoldsOK, Entries
<1> QED
  BY <1>3, <1>4, <1>5, <1>6, <1>7, <1>8, <1>9, <1>10, <1>11, <1>12 DEF InThread

(* Every step keeps the invariant.                                         *)
LEMMA NextInv == IInv /\ [Next]_vars => IInv'
<1>1. ASSUME IInv, UNCHANGED vars PROVE IInv'
  BY <1>1 DEF vars, IInv, TypeOK, NoConnectionLost, Held, Active, StepsHold
<1> QED
  BY <1>1, DispatchKeepsInv, EndpointKeepsInv DEF Next, OnLoop

(* In every reachable state the connections that are not free are the ones *)
(* the requests hold, each at the steps where its code has a Session open. *)
THEOREM Invariance == Spec => []IInv
  BY InitInv, NextInv, PTL DEF Spec

-----------------------------------------------------------------------------
(* The properties                                                          *)

(* However many requests overlap, and whichever of them time out, free     *)
(* connections and requests stay well typed and the event loop is held by  *)
(* the one request that is inside dispatch.                                *)
THEOREM TypeCorrectness == Spec => []TypeOK
<1>1. IInv => TypeOK
  BY DEF IInv
<1> QED
  BY <1>1, Invariance, PTL

(* Every path of dispatch and of the endpoints gives back exactly the      *)
(* connections it took.                                                    *)
THEOREM ConnectionsAreKept == Spec => []NoConnectionLost
<1>1. IInv => NoConnectionLost
  BY DEF IInv
<1> QED
  BY <1>1, Invariance, PTL

(* A request that waits holds one connection at most, and every other one  *)
(* holds two at most.                                                      *)
LEMMA EnoughForAll == IInv => NoWaitUnderCapacity
<1> SUFFICES ASSUME IInv, 2 * Cardinality(Active) <= Size,
                    NEW r \in Requests, Blocked(r)
             PROVE  FALSE
  BY DEF NoWaitUnderCapacity
<1>1. /\ free = 0 /\ r \in Active /\ req[r].endpoint = 0
      /\ \A x \in Requests \ Active : req[x].middleware = 0 /\ req[x].endpoint = 0
  BY DEF IInv, Blocked, Active, StepsHold, HoldsOK, Entries, NoConnectionLost, Idle
<1>2. IsFiniteSet(Active) /\ Cardinality(Active) \in Nat
  BY PoolAssumption, FS_Subset, FS_CardinalityType DEF Active
<1>3. Cardinality(InMiddleware) <= Cardinality(Active)
  <2>1. InMiddleware \in SUBSET Active
    BY <1>1 DEF InMiddleware
  <2> QED
    BY <1>2, <2>1, FS_Subset
<1>4. Cardinality(InEndpoint) <= Cardinality(Active) - 1
  <2>1. InEndpoint \in SUBSET (Active \ {r})
    BY <1>1 DEF InEndpoint
  <2>2. /\ IsFiniteSet(Active \ {r})
        /\ Cardinality(Active \ {r}) = Cardinality(Active) - 1
    BY <1>1, <1>2, FS_RemoveElement
  <2> QED
    BY <2>1, <2>2, FS_Subset
<1>5. Held = Size
  BY <1>1, HeldIsNat, PoolAssumption DEF IInv, NoConnectionLost
<1> QED
  BY <1>2, <1>3, <1>4, <1>5, HeldIsNat, PoolAssumption

(* With two connections for each request under way, nobody ever waits for  *)
(* one and the event loop never stands still, for any size of the pool.    *)
THEOREM CapacitySuffices == Spec => []NoWaitUnderCapacity
  BY EnoughForAll, Invariance, PTL
=============================================================================
