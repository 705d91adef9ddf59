--------------------------- MODULE ConnectionPool ---------------------------
(***************************************************************************)
(* The connections of the engine (database.py) and the requests that take  *)
(* them.  A protected request uses two Sessions: AuthMiddleware opens one  *)
(* that keeps its connection until the response comes back, and the        *)
(* endpoint gets one from get_db.  A Session takes a connection with its   *)
(* first statement and gives it back with commit() or close().             *)
(*                                                                         *)
(* AuthMiddleware.dispatch runs on the event loop and waits for its        *)
(* connection without yielding, so the loop stands still meanwhile; an     *)
(* endpoint waits in its own thread, except for upload_images, which is a  *)
(* coroutine.  Sessions are closed by code that the loop has to resume.  A *)
(* wait is given up after the timeout of the pool.                         *)
(***************************************************************************)
EXTENDS Integers, FiniteSets

CONSTANTS
    Requests,       \* requests that may be under way at a time
    Size,           \* connections: pool_size + max_overflow of the engine
    None            \* nobody holds the event loop

ASSUME PoolAssumption ==
    /\ IsFiniteSet(Requests)
    /\ Size \in Nat
    /\ None \notin Requests

VARIABLES
    free,       \* connections that the pool can still hand out
    req,        \* req[r]: where request r stands and which connections it has
    loop        \* the request whose dispatch holds the event loop

vars == <<free, req, loop>>

(* Where an endpoint starts: one that queries the database and wants a     *)
(* connection; one that needs none (me) or refuses before it gets there    *)
(* (the payload is invalid, RequirePermission); upload_images.             *)
Entries == {"begin", "plain", "upload"}

(* "lookup", "reload": dispatch wants a connection; "begin", "refresh":    *)
(* the endpoint does; "return": the endpoint has returned or raised.       *)
Steps == Entries \cup {"idle", "arrived", "lookup", "found", "reload",
                      "query", "refresh", "return"}

Request == [step       : Steps,
            protected  : BOOLEAN,
            middleware : 0..1,      \* connections of the Session of dispatch
            endpoint   : 0..1]      \* connections of the Session of get_db

Idle == [step |-> "idle", protected |-> FALSE, middleware |-> 0, endpoint |-> 0]

Init ==
    /\ free = Size
    /\ req = [r \in Requests |-> Idle]
    /\ loop = None

Becomes(r, q) == req' = [req EXCEPT ![r] = q]

CheckOut == free > 0 /\ free' = free - 1

CheckIn(n) == free' = free + n

(* A request with a path that is protected or not.                         *)
Arrive(r) ==
    /\ req[r].step = "idle"
    /\ \E p \in BOOLEAN :
        Becomes(r, [Idle EXCEPT !.step = "arrived", !.protected = p])
    /\ UNCHANGED <<free, loop>>

-----------------------------------------------------------------------------
(* AuthMiddleware.dispatch                                                 *)

(* Up to the first statement: an unprotected path goes on to its endpoint, *)
(* a cookie that is missing, forged or expired is refused.                 *)
Dispatch(r) ==
    /\ req[r].step = "arrived" /\ loop = None
    /\ \/ /\ ~ req[r].protected
          /\ \E s \in {"begin", "plain"} : Becomes(r, [req[r] EXCEPT !.step = s])
          /\ UNCHANGED loop
       \/ /\ req[r].protected
          /\ Becomes(r, Idle)
          /\ UNCHANGED loop
       \/ /\ req[r].protected
          /\ Becomes(r, [req[r] EXCEPT !.step = "lookup"])
          /\ loop' = r
    /\ UNCHANGED free

(* _find_user                                                              *)
Lookup(r) ==
    /\ req[r].step = "lookup"
    /\ CheckOut
    /\ Becomes(r, [req[r] EXCEPT !.step = "found", !.middleware = 1])
    /\ UNCHANGED loop

(* Mutant of Unauthorized: the Session is not closed.                      *)
UnauthorizedKeepsSession(r) ==
    /\ req[r].step = "found"
    /\ Becomes(r, Idle)
    /\ loop' = None
    /\ UNCHANGED free

(* No such session, or the commit of the rotation raises: 401 or 500, and  *)
(* the Session is closed.                                                  *)
Unauthorized(r) ==
    /\ req[r].step = "found"
    /\ CheckIn(1)
    /\ Becomes(r, Idle)
    /\ loop' = None

(* call_next: the connection is kept, the loop goes on.                    *)
CallNext(r) ==
    /\ req[r].step = "found"
    /\ \E s \in Entries : Becomes(r, [req[r] EXCEPT !.step = s])
    /\ loop' = None
    /\ UNCHANGED free

(* The rotation is committed, which gives the connection back, and user.id *)
(* loads the row again.                                                    *)
Rotate(r) ==
    /\ req[r].step = "found"
    /\ CheckIn(1)
    /\ Becomes(r, [req[r] EXCEPT !.step = "reload", !.middleware = 0])
    /\ UNCHANGED loop

(* Mutant of Reload: dispatch goes on to call_next without yielding.       *)
ReloadHoldsLoop(r) ==
    /\ req[r].step = "reload"
    /\ CheckOut
    /\ \E s \in Entries :
        Becomes(r, [req[r] EXCEPT !.step = s, !.middleware = 1])
    /\ UNCHANGED loop

Reload(r) ==
    /\ req[r].step = "reload"
    /\ CheckOut
    /\ \E s \in Entries :
        Becomes(r, [req[r] EXCEPT !.step = s, !.middleware = 1])
    /\ loop' = None

(* TimeoutError on the loop: 500.                                          *)
DispatchTimeout(r) ==
    /\ req[r].step \in {"lookup", "reload"} /\ free = 0
    /\ Becomes(r, Idle)
    /\ loop' = None
    /\ UNCHANGED free

-----------------------------------------------------------------------------
(* The endpoint, in a thread                                               *)

NoQuery(r) ==
    /\ req[r].step = "plain"
    /\ Becomes(r, [req[r] EXCEPT !.step = "return"])
    /\ UNCHANGED <<free, loop>>

Query(r) ==
    /\ req[r].step = "begin"
    /\ CheckOut
    /\ Becomes(r, [req[r] EXCEPT !.step = "query", !.endpoint = 1])
    /\ UNCHANGED loop

(* A read is done, or the endpoint refuses.                                *)
Return(r) ==
    /\ req[r].step = "query"
    /\ Becomes(r, [req[r] EXCEPT !.step = "return"])
    /\ UNCHANGED <<free, loop>>

(* commit() gives the connection back, whether it succeeds or raises; a    *)
(* refresh, or the reload of an attribute, follows unless the row is gone. *)
Commit(r) ==
    /\ req[r].step = "query"
    /\ CheckIn(1)
    /\ \E s \in {"refresh", "return"} :
        Becomes(r, [req[r] EXCEPT !.step = s, !.endpoint = 0])
    /\ UNCHANGED loop

Refresh(r) ==
    /\ req[r].step = "refresh"
    /\ CheckOut
    /\ Becomes(r, [req[r] EXCEPT !.step = "return", !.endpoint = 1])
    /\ UNCHANGED loop

(* Mutant of EndpointTimeout: the pool waits for ever.                     *)
EndpointWaits(r) ==
    /\ req[r].step \in {"begin", "refresh"} /\ free = 0
    /\ UNCHANGED vars

(* TimeoutError in the endpoint.                                           *)
EndpointTimeout(r) ==
    /\ req[r].step \in {"begin", "refresh"} /\ free = 0
    /\ Becomes(r, [req[r] EXCEPT !.step = "return"])
    /\ UNCHANGED <<free, loop>>

-----------------------------------------------------------------------------
(* Resumed by the loop, in an order that the framework chooses             *)

(* upload_images is a coroutine: it reads and writes its files on the      *)
(* loop, and needs no Session.                                             *)
UploadImages(r) ==
    /\ req[r].step = "upload" /\ loop = None
    /\ Becomes(r, [req[r] EXCEPT !.step = "return"])
    /\ UNCHANGED <<free, loop>>

(* get_db: the finally clause.                                             *)
CloseEndpoint(r) ==
    /\ req[r].step = "return" /\ req[r].endpoint = 1 /\ loop = None
    /\ CheckIn(1)
    /\ Becomes(r, [req[r] EXCEPT !.endpoint = 0])
    /\ UNCHANGED loop

(* Mutant of CloseMiddleware: the Session is dropped without close().      *)
CloseMiddlewareForgets(r) ==
    /\ req[r].step = "return" /\ req[r].middleware = 1 /\ loop = None
    /\ Becomes(r, [req[r] EXCEPT !.middleware = 0])
    /\ UNCHANGED <<free, loop>>

(* dispatch: the finally clause.                                           *)
CloseMiddleware(r) ==
    /\ req[r].step = "return" /\ req[r].middleware = 1 /\ loop = None
    /\ CheckIn(1)
    /\ Becomes(r, [req[r] EXCEPT !.middleware = 0])
    /\ UNCHANGED loop

Answer(r) ==
    /\ req[r].step = "return" /\ loop = None
    /\ req[r].middleware = 0 /\ req[r].endpoint = 0
    /\ Becomes(r, Idle)
    /\ UNCHANGED <<free, loop>>

-----------------------------------------------------------------------------
(* What the loop does for r between two awaits, while dispatch has it.     *)
HoldsLoop(r) ==
    \/ Lookup(r) \/ Unauthorized(r) \/ CallNext(r) \/ Rotate(r) \/ Reload(r)
    \/ DispatchTimeout(r)

InThread(r) ==
    \/ NoQuery(r) \/ Query(r) \/ Return(r) \/ Commit(r) \/ Refresh(r)
    \/ EndpointTimeout(r)

(* What the loop does for r when its turn comes.                           *)
OnLoop(r) ==
    \/ Dispatch(r) \/ UploadImages(r)
    \/ CloseEndpoint(r) \/ CloseMiddleware(r) \/ Answer(r)

Next == \E r \in Requests : Arrive(r) \/ OnLoop(r) \/ HoldsLoop(r) \/ InThread(r)

Spec == Init /\ [][Next]_vars

(* Threads are scheduled and a wait for a connection ends, with one or     *)
(* with the timeout.  The loop runs what is ready in turn, so whoever is   *)
(* ready again and again has its turn.                                     *)
FairSpec ==
    /\ Spec
    /\ \A r \in Requests : /\ WF_vars(HoldsLoop(r))
                           /\ WF_vars(InThread(r))
                           /\ SF_vars(OnLoop(r))

-----------------------------------------------------------------------------
(* Properties                                                              *)

Active == {r \in Requests : req[r].step # "idle"}

(* r waits for a connection and there is none.                             *)
Blocked(r) ==
    free = 0 /\ req[r].step \in {"lookup", "reload", "begin", "refresh"}

Held == Cardinality({r \in Requests : req[r].middleware = 1})
          + Cardinality({r \in Requests : req[r].endpoint = 1})

(* Types, and the loop is held by the request that is inside dispatch.     *)
TypeOK ==
    /\ free \in 0..Size
    /\ req \in [Requests -> Request]
    /\ loop \in Requests \cup {None}
    /\ \A r \in Requests :
        loop = r <=> req[r].step \in {"lookup", "found", "reload"}

(* No connection is lost or given back twice on any path, refusals and     *)
(* timeouts included: what is not free is held by a request under way      *)
(* (the finally clauses of get_db and dispatch).                           *)
NoConnectionLost ==
    /\ free + Held = Size
    /\ \A r \in Requests \ Active : req[r] = Idle

(* While the requests under way are few enough to have two connections     *)
(* each, nobody waits for one, and the event loop never stands still: up   *)
(* to seven at a time with the fifteen connections of the engine.          *)
NoWaitUnderCapacity ==
    2 * Cardinality(Active) <= Size => \A r \in Requests : ~ Blocked(r)

(* Every request is answered, although requests that hold a connection     *)
(* wait for another one and the loop that should release some may wait     *)
(* with them: the timeout of the pool ends every such standstill.          *)
EveryRequestEnds ==
    \A r \in Requests : req[r].step = "arrived" ~> req[r].step = "idle"
=============================================================================
