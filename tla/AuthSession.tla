---------------------------- MODULE AuthSession ----------------------------
(***************************************************************************)
(* One account and its session: registration, login and logout             *)
(* (router/auth.py) and the middleware that authenticates every protected  *)
(* request (middleware/auth_middleware.py), with a browser that has        *)
(* several requests under way.                                             *)
(*                                                                         *)
(* The middleware is a coroutine: from the cookie check to call_next it    *)
(* never awaits, so it holds the event loop and no two dispatches overlap. *)
(* The endpoints run in threads and overlap with everything.  Passwords,   *)
(* signatures and CSRF tokens are taken to be right.                       *)
(***************************************************************************)
EXTENDS Integers, FiniteSets

CONSTANTS
    Requests,       \* requests the browser may have under way at a time
    Ops,            \* Ops[r]: what request r may be
    ACCESS,         \* ACCESS_TOKEN_EXPIRE_MINUTES, in clock ticks
    REFRESH,        \* REFRESH_TOKEN_EXPIRE_DAYS
    GRACE,          \* SESSION_ROTATION_GRACE_SECONDS
    MaxFlight,      \* bound: ticks from sending a request to its answer
    MaxTime,        \* bound: last value of the clock
    MaxSession,     \* bound: session ids in use at a time
    Failures,       \* whether endpoints raise and the process restarts
    None            \* no session, no cookie, no rotation

(* An ordinary protected request (get_me and update_me are such),          *)
(* registration, login and logout.                                         *)
AllOps == {"call", "register", "login", "logout"}

(* The routes that the middleware does not protect.                        *)
OpenOps == {"register", "login"}

ASSUME AuthAssumption ==
    /\ Ops \in [Requests -> SUBSET AllOps]
    /\ ACCESS \in Nat /\ REFRESH \in Nat /\ GRACE \in Nat
    /\ MaxFlight \in Nat /\ MaxTime \in Nat /\ MaxSession \in Nat
    /\ Failures \in BOOLEAN
    /\ None \notin Requests /\ None \notin 1..MaxSession

(* There is always a session id that nobody holds: the account, its last   *)
(* rotation and the browser hold four, a request under way two.            *)
ASSUME EnoughSessions ==
    /\ IsFiniteSet(Requests) /\ Requests # {}
    /\ MaxSession > 4 + 2 * Cardinality(Requests)

VARIABLES
    accounts,   \* how many rows of customers have the email of the account
    session,    \* customers.session_id in the database
    rotation,   \* _recent_rotations: the last rotation of the account
    jar,        \* the auth_token cookie the browser holds
    req,        \* req[r]: a request under way
    loop,       \* the request whose dispatch holds the event loop
    now         \* the clock

vars == <<accounts, session, rotation, jar, req, loop, now>>

SessionId == 1..MaxSession

(* Access and refresh token are made together, from the same session id.   *)
Cookie == [session : SessionId \cup {None}, issued : 0..MaxTime]

(* _recent_rotations[(role, user_id)]                                      *)
Rotation == [current : SessionId, previous : SessionId, at : 0..MaxTime]

ASSUME NoneAssumption == None \notin Cookie /\ None \notin Rotation

Steps == {"idle", "sent", "rotate", "record", "handle", "insert", "reload",
          "answered"}

Request == [step    : Steps,
            op      : AllOps,
            cookie  : Cookie \cup {None},       \* the one it was sent with
            sent    : 0..MaxTime,
            refresh : BOOLEAN,                  \* used_refresh
            user    : SessionId \cup {None},    \* user.session_id as loaded
            code    : {"none", "ok", "refused", "unauthorized", "error"},
            set     : SUBSET (Cookie \cup {None})]  \* Set-Cookie, if any

Idle == [step |-> "idle", op |-> "call", cookie |-> None, sent |-> 0,
         refresh |-> FALSE, user |-> None, code |-> "none", set |-> {}]

(* The account has just logged in, or nobody has registered yet.           *)
Init ==
    /\ \/ /\ accounts = 1
          /\ session = 1
          /\ jar = [session |-> 1, issued |-> 0]
       \/ /\ accounts = 0
          /\ session = None
          /\ jar = None
    /\ rotation = None
    /\ req = [r \in Requests |-> Idle]
    /\ loop = None
    /\ now = 0

Becomes(r, q) == req' = [req EXCEPT ![r] = q]

(* What is left of a request once it is answered: a Set-Cookie that is     *)
(* absent, clears the cookie or replaces it, and the cookie it was refused *)
(* with.                                                                   *)
Answered(r, code, set) ==
    [Idle EXCEPT !.step = "answered", !.sent = req[r].sent,
                 !.code = code, !.set = set,
                 !.cookie = IF code = "unauthorized" THEN req[r].cookie ELSE None]

Answer(r, code, set) == Becomes(r, Answered(r, code, set))

NewCookie(s) == [session |-> s, issued |-> now]

AccessValid(c)  == now < c.issued + ACCESS
RefreshValid(c) == now < c.issued + REFRESH

(* secrets.token_urlsafe(32): a session id that nobody holds.              *)
InUse ==
    {session}
      \cup (IF rotation = None THEN {} ELSE {rotation.current, rotation.previous})
      \cup {c.session : c \in {jar} \ {None}}
      \cup {req[r].user : r \in Requests}
      \cup {c.session : c \in UNION {({req[r].cookie} \cup req[r].set) \ {None}
                                        : r \in Requests}}

FreshSession == CHOOSE s \in SessionId : s \notin InUse

-----------------------------------------------------------------------------
(* The browser                                                             *)

Send(r) ==
    /\ req[r].step = "idle"
    /\ \E op \in Ops[r] : Becomes(r, [Idle EXCEPT !.step = "sent", !.op = op,
                                               !.cookie = jar, !.sent = now])
    /\ UNCHANGED <<accounts, session, rotation, jar, loop, now>>

(* An answer arrives; answers may overtake each other.                     *)
Deliver(r) ==
    /\ req[r].step = "answered"
    /\ jar' = IF req[r].set = {} THEN jar ELSE CHOOSE c \in req[r].set : TRUE
    /\ Becomes(r, Idle)
    /\ UNCHANGED <<accounts, session, rotation, loop, now>>

-----------------------------------------------------------------------------
(* AuthMiddleware.dispatch up to call_next                                 *)

(* Mutant of InGrace: current and previous session are swapped.            *)
InGraceOfCurrent(s) ==
    /\ rotation # None
    /\ now - rotation.at <= GRACE
    /\ rotation.current = s
    /\ rotation.previous = session

(* _grace_user: the session was replaced by a rotation within the grace    *)
(* window, and the account still has the session it was replaced by.       *)
InGrace(s) ==
    /\ rotation # None
    /\ now - rotation.at <= GRACE
    /\ rotation.previous = s
    /\ rotation.current = session

(* The session id in the cookie is that of the account, or was until just  *)
(* now; the latter is looked at only after the refresh fallback.           *)
Accepts(c) ==
    /\ AccessValid(c) \/ RefreshValid(c)
    /\ c.session # None
    /\ c.session = session \/ (~ AccessValid(c) /\ InGrace(c.session))

Dispatch(r) ==
    LET q == req[r]
        c == q.cookie
        rotates == /\ ~ AccessValid(c)
                   /\ c.session = session
                   /\ q.op # "logout"
    IN /\ q.step = "sent" /\ q.op \notin OpenOps
       /\ loop = None
       /\ \/ /\ c = None
             /\ Answer(r, "unauthorized", {})
             /\ UNCHANGED loop
          \/ /\ c # None /\ ~ Accepts(c)
             /\ Answer(r, "unauthorized", {None})
             /\ UNCHANGED loop
          \/ /\ c # None /\ Accepts(c)
             /\ Becomes(r, [q EXCEPT !.refresh = ~ AccessValid(c),
                                     !.user = session,
                                     !.step = IF rotates THEN "rotate" ELSE "handle"])
             /\ loop' = IF rotates THEN r ELSE None
       /\ UNCHANGED <<accounts, session, rotation, jar, now>>

(* The new session id is committed to the row of the user, whatever        *)
(* session id that row has by now.                                         *)
Rotate(r) ==
    /\ req[r].step = "rotate"
    /\ session' = FreshSession
    /\ Becomes(r, [req[r] EXCEPT !.user = FreshSession, !.step = "record"])
    /\ UNCHANGED <<accounts, rotation, jar, loop, now>>

(* Mutant of RecordRotation: dispatch never gets to call_next.             *)
RecordRotationHangs(r) ==
    /\ req[r].step = "record"
    /\ rotation' = [current  |-> req[r].user,
                    previous |-> req[r].cookie.session,
                    at       |-> now]
    /\ Becomes(r, [req[r] EXCEPT !.user = session, !.step = "handle"])
    /\ UNCHANGED <<accounts, session, jar, loop, now>>

(* _record_rotation: reading user.id after the commit loads the row again, *)
(* so user.session_id is from here on what the database says now.          *)
RecordRotation(r) ==
    /\ req[r].step = "record"
    /\ rotation' = [current  |-> req[r].user,
                    previous |-> req[r].cookie.session,
                    at       |-> now]
    /\ Becomes(r, [req[r] EXCEPT !.user = session, !.step = "handle"])
    /\ loop' = None
    /\ UNCHANGED <<accounts, session, jar, now>>

-----------------------------------------------------------------------------
(* The endpoint, and dispatch after call_next                              *)

(* Mutant of Respond: the cookie is made from the claims of the old one.   *)
RespondWithClaims(r) ==
    /\ req[r].step = "handle" /\ req[r].op = "call"
    /\ Answer(r, "ok", IF req[r].refresh THEN {NewCookie(req[r].cookie.session)}
                                         ELSE {})
    /\ UNCHANGED <<accounts, session, rotation, jar, loop, now>>

(* A cookie is issued again only after the refresh fallback.               *)
Respond(r) ==
    /\ req[r].step = "handle" /\ req[r].op = "call"
    /\ Answer(r, "ok", IF req[r].refresh THEN {NewCookie(req[r].user)} ELSE {})
    /\ UNCHANGED <<accounts, session, rotation, jar, loop, now>>

Logout(r) ==
    /\ req[r].step = "handle" /\ req[r].op = "logout"
    /\ session' = None
    /\ Answer(r, "ok", {None})
    /\ UNCHANGED <<accounts, rotation, jar, loop, now>>

(* _register_user: no cookie is looked at and none is set.  The email is   *)
(* found free ...                                                          *)
Register(r) ==
    /\ req[r].step = "sent" /\ req[r].op = "register"
    /\ IF accounts > 0
       THEN Answer(r, "refused", {})
       ELSE Becomes(r, [req[r] EXCEPT !.step = "insert"])
    /\ UNCHANGED <<accounts, session, rotation, jar, loop, now>>

(* Mutant of RegisterInsert: no unique column.                             *)
RegisterInsertAnyway(r) ==
    /\ req[r].step = "insert"
    /\ accounts' = accounts + 1
    /\ Answer(r, "ok", {})
    /\ UNCHANGED <<session, rotation, jar, loop, now>>

(* ... but only the unique column of the table says whether it still is.   *)
RegisterInsert(r) ==
    /\ req[r].step = "insert"
    /\ IF accounts > 0
       THEN Answer(r, "error", {}) /\ UNCHANGED accounts
       ELSE Answer(r, "ok", {}) /\ accounts' = 1
    /\ UNCHANGED <<session, rotation, jar, loop, now>>

(* _login_user: an unknown email is refused.                               *)
Login(r) ==
    /\ req[r].step = "sent" /\ req[r].op = "login"
    /\ IF accounts = 0
       THEN Answer(r, "refused", {}) /\ UNCHANGED session
       ELSE /\ session' = FreshSession
            /\ Becomes(r, [req[r] EXCEPT !.step = "reload"])
    /\ UNCHANGED <<accounts, rotation, jar, loop, now>>

(* Mutant of LoginReload: the cookie is made from what was loaded before   *)
(* the new session id was assigned.                                        *)
LoginReloadsNothing(r) ==
    /\ req[r].step = "reload"
    /\ Answer(r, "ok", {NewCookie(req[r].user)})
    /\ UNCHANGED <<accounts, session, rotation, jar, loop, now>>

(* user.session_id is loaded again after the commit.                       *)
LoginReload(r) ==
    /\ req[r].step = "reload"
    /\ Answer(r, "ok", {NewCookie(session)})
    /\ UNCHANGED <<accounts, session, rotation, jar, loop, now>>

(* An exception in an endpoint, in the commit of the rotation or in the    *)
(* reload after a commit goes past the middleware: the answer carries no   *)
(* cookie, and what was committed stays.                                   *)
Fail(r) ==
    /\ Failures
    /\ req[r].step \in {"rotate", "record", "handle", "insert", "reload"}
    /\ Answer(r, "error", {})
    /\ loop' = IF loop = r THEN None ELSE loop
    /\ UNCHANGED <<accounts, session, rotation, jar, now>>

(* _recent_rotations lives in the process; a request it was serving gets   *)
(* no answer.                                                              *)
Restart ==
    /\ Failures
    /\ rotation' = None
    /\ loop' = None
    /\ req' = [r \in Requests |->
                IF req[r].step \in {"idle", "answered"} THEN req[r]
                ELSE Answered(r, "error", {})]
    /\ UNCHANGED <<accounts, session, jar, now>>

(* Time passes, but no request is under way for more than MaxFlight.       *)
Tick ==
    /\ now < MaxTime
    /\ \A r \in Requests : req[r].step # "idle" => now < req[r].sent + MaxFlight
    /\ now' = now + 1
    /\ UNCHANGED <<accounts, session, rotation, jar, req, loop>>

Serve(r) == \/ Rotate(r) \/ RecordRotation(r)
            \/ Respond(r) \/ Logout(r)
            \/ Register(r) \/ RegisterInsert(r)
            \/ Login(r) \/ LoginReload(r)

Next ==
    \/ \E r \in Requests : Send(r) \/ Dispatch(r) \/ Serve(r) \/ Fail(r) \/ Deliver(r)
    \/ Restart
    \/ Tick

Spec == Init /\ [][Next]_vars

(* Threads and the network go on; the event loop runs what is ready in     *)
(* turn, so a dispatch that is ready again and again has its turn.  An     *)
(* exception or a restart may end a request, but need not.                 *)
FairSpec ==
    /\ Spec
    /\ \A r \in Requests : /\ SF_vars(Dispatch(r))
                           /\ WF_vars(Serve(r))
                           /\ WF_vars(Deliver(r))

-----------------------------------------------------------------------------
(* Properties                                                              *)

(* Types, and the event loop is held by a request that is in dispatch.     *)
TypeOK ==
    /\ accounts \in 0..Cardinality(Requests)
    /\ session \in SessionId \cup {None}
    /\ rotation \in Rotation \cup {None}
    /\ jar \in Cookie \cup {None}
    /\ req \in [Requests -> Request]
    /\ now \in 0..MaxTime
    /\ loop \in Requests \cup {None}
    /\ \A r \in Requests : loop = r <=> req[r].step \in {"rotate", "record"}

(* A browser that only makes ordinary requests, however they overlap, is   *)
(* never told to log in again before its refresh token has expired:        *)
(* parallel requests do not race into a 401.                               *)
NoSpuriousLogout ==
    \A r \in Requests :
        req[r].code = "unauthorized" /\ req[r].cookie # None
            => ~ RefreshValid(req[r].cookie)

(* Once all answers have arrived, in whatever order, the cookie in the     *)
(* browser names the session in the database.                              *)
BrowserKeepsUp ==
    (\A r \in Requests : req[r].step = "idle") /\ jar # None
        => jar.session = session

(* After a logout the account has no session until somebody logs in.       *)
SessionsStartAtLogin ==
    [][session = None /\ session' # None =>
        \E r \in Requests : req[r].op = "login" /\ req[r].step = "sent"
                                                /\ req'[r].step = "reload"]_session

(* However many registrations with one email overlap, there is at most one *)
(* account, and nobody has a session before there is one (_register_user,  *)
(* _login_user).                                                           *)
OneAccount ==
    /\ accounts <= 1
    /\ session # None => accounts = 1

(* Every request is answered: the event loop is never held for good.       *)
EveryRequestEnds == \A r \in Requests : req[r].step = "sent" ~> req[r].step = "idle"
=============================================================================
