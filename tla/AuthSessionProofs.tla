------------------------- MODULE AuthSessionProofs -------------------------
(***************************************************************************)
(* What AuthSession guarantees whatever requests overlap and whatever      *)
(* fails: at most one account, no session without an account, one dispatch *)
(* at a time, and a new session id is one that nobody holds.  A session    *)
(* starts at a login only, as long as no logout comes between the check of *)
(* a refresh and its commit (LogoutWaits).                                 *)
(***************************************************************************)
EXTENDS AuthSession, FiniteSetTheorems, TLAPS

(* What a request holds at each of its steps.  An answer that sets a       *)
(* cookie is all that is left of its request, so a request never holds     *)
(* more than two session ids; a dispatch rotates only for an account that  *)
(* has a session, so there is an account.                                  *)
RequestOK(q) ==
    /\ q.set = {} \/ \E c \in Cookie \cup {None} : q.set = {c}
    /\ q.step # "answered" => q.set = {}
    /\ q.set # {} => q.user = None /\ (q.cookie = None \/ q.set = {None})
    /\ q.step \in {"rotate", "record"} =>
            /\ q.cookie \in Cookie /\ q.cookie # None
            /\ q.cookie.session \in SessionId
    /\ q.step = "rotate" => accounts = 1
    /\ q.step = "record" => q.user \in SessionId

RequestsOK == \A r \in Requests : RequestOK(req[r])

AInv == TypeOK /\ OneAccount /\ RequestsOK


-----------------------------------------------------------------------------
(* A new session id                                                        *)

(* The session ids that request q holds                                    *)
UserOf(q) == q.user

CookieOf(q) ==
    IF q.cookie # None THEN q.cookie.session
    ELSE IF q.set \ {None} = {} THEN None
    ELSE (CHOOSE c \in q.set : TRUE).session

(* ... are all that is in use besides those of the account, its rotation   *)
(* and the browser.                                                        *)
LEMMA InUseIsHeld ==
    ASSUME AInv, NEW s \in SessionId, s \in InUse
    PROVE  \/ s = session
           \/ rotation # None /\ (s = rotation.current \/ s = rotation.previous)
           \/ jar # None /\ s = jar.session
           \/ \E r \in Requests : s = UserOf(req[r]) \/ s = CookieOf(req[r])
<1>1. CASE \E r \in Requests : \E c \in ({req[r].cookie} \cup req[r].set) \ {None} :
                s = c.session
  <2>1. PICK r \in Requests : \E c \in ({req[r].cookie} \cup req[r].set) \ {None} :
                s = c.session
    BY <1>1
  <2> PICK q : q = req[r]
    OBVIOUS
  <2>2. PICK c \in ({q.cookie} \cup q.set) \ {None} : s = c.session
    BY <2>1
  <2>3. RequestOK(q)
    BY DEF AInv, RequestsOK
  <2>4. CASE c = q.cookie
    BY <2>2, <2>4 DEF CookieOf
  <2>5. CASE c # q.cookie
    <3>1. q.set = {c} /\ q.cookie = None
      BY <2>2, <2>3, <2>5 DEF RequestOK
    <3>2. (CHOOSE x \in q.set : TRUE) = c /\ q.set \ {None} # {}
      BY <2>2, <3>1
    <3>3. CookieOf(q) = s
      BY <2>2, <3>1, <3>2 DEF CookieOf
    <3> QED
      BY <3>3
  <2> QED
    BY <2>4, <2>5
<1>2. CASE ~ (\E r \in Requests : \E c \in ({req[r].cookie} \cup req[r].set) \ {None} :
                s = c.session)
  <2>1. s \notin {c.session : c \in UNION {({req[r].cookie} \cup req[r].set) \ {None}
                                        : r \in Requests}}
    BY <1>2
  <2> QED
    BY <2>1 DEF InUse, UserOf
<1> QED
  BY <1>1, <1>2

(* The bound EnoughSessions is enough: there is a session id that neither  *)
(* the account nor its rotation, the browser or a request holds.           *)
LEMMA FreshIsFree ==
    ASSUME AInv
    PROVE  FreshSession \in SessionId /\ FreshSession \notin InUse
<1> DEFINE n == Cardinality(Requests)
<1>1. n \in Nat /\ MaxSession \in Nat /\ MaxSession > 4 + 2 * n
  BY EnoughSessions, AuthAssumption, FS_CardinalityType
<1>2. PICK g : g \in Surjection(1..n, Requests)
  BY EnoughSessions, FS_CardinalityType DEF ExistsBijection, Bijection
<1> HIDE DEF n
<1> DEFINE I == 1..(4 + 2 * n)
           h == [i \in I |->
                    IF i = 1 THEN session
                    ELSE IF i = 2 THEN rotation.current
                    ELSE IF i = 3 THEN rotation.previous
                    ELSE IF i = 4 THEN jar.session
                    ELSE IF i <= 4 + n THEN UserOf(req[g[i - 4]])
                    ELSE CookieOf(req[g[i - 4 - n]])]
           T == {h[i] : i \in I}
<1>3. IsFiniteSet(T) /\ Cardinality(T) <= 4 + 2 * n
  <2>1. 4 + 2 * n \in Nat
    BY <1>1
  <2>2. h \in Surjection(I, T)
    BY DEF Surjection
  <2>3. IsFiniteSet(I) /\ Cardinality(I) = 4 + 2 * n
    BY <1>1, <2>1, FS_Interval
  <2> HIDE DEF h, I, T
  <2> QED
    BY <2>2, <2>3, FS_Surjection
<1>4. SessionId \cap InUse \subseteq T
  <2> SUFFICES ASSUME NEW s \in SessionId, s \in InUse PROVE \E i \in I : s = h[i]
    OBVIOUS
  <2>1. CASE s = session
    <3>1. 1 \in I /\ h[1] = session
      BY <1>1
    <3> QED
      BY <2>1, <3>1
  <2>2. CASE s = rotation.current
    <3>1. 2 \in I /\ h[2] = rotation.current
      BY <1>1
    <3> QED
      BY <2>2, <3>1
  <2>3. CASE s = rotation.previous
    <3>1. 3 \in I /\ h[3] = rotation.previous
      BY <1>1
    <3> QED
      BY <2>3, <3>1
  <2>4. CASE s = jar.session
    <3>1. 4 \in I /\ h[4] = jar.session
      BY <1>1
    <3> QED
      BY <2>4, <3>1
  <2>5. ASSUME NEW r \in Requests PROVE \E j \in 1..n : g[j] = r
    BY <1>2 DEF Surjection
  <2>6. ASSUME NEW j \in 1..n
        PROVE  /\ j + 4 \in I /\ h[j + 4] = UserOf(req[g[j]])
               /\ j + 4 + n \in I /\ h[j + 4 + n] = CookieOf(req[g[j]])
    <3>1. (j + 4) - 4 = j /\ (j + 4 + n) - 4 - n = j
      BY <1>1
    <3>2. /\ j + 4 \in I /\ j + 4 \notin {1, 2, 3, 4} /\ j + 4 <= 4 + n
          /\ j + 4 + n \in I /\ j + 4 + n \notin {1, 2, 3, 4}
          /\ ~ (j + 4 + n <= 4 + n)
      BY <1>1
    <3> QED
      BY <3>1, <3>2
  <2> HIDE DEF h, I
  <2> QED
    BY <2>1, <2>2, <2>3, <2>4, <2>5, <2>6, InUseIsHeld
<1>5. \E s \in SessionId : s \notin InUse
  <2> SUFFICES ASSUME SessionId \subseteq InUse PROVE FALSE
    OBVIOUS
  <2>1. IsFiniteSet(SessionId) /\ Cardinality(SessionId) = MaxSession
    BY <1>1, FS_Interval DEF SessionId
  <2> HIDE DEF T
  <2>2. Cardinality(SessionId) <= Cardinality(T)
    BY <1>3, <1>4, FS_Subset
  <2>3. Cardinality(T) \in Nat
    BY <1>3, FS_CardinalityType
  <2> QED
    BY <1>1, <1>3, <2>1, <2>2, <2>3
<1> QED
  BY <1>5 DEF FreshSession


-----------------------------------------------------------------------------
(* Requests                                                                *)

LEMMA IdleIsRequest == Idle \in Request /\ RequestOK(Idle) /\ RequestOK(Idle)'
<1>1. Idle \in Request
  BY AuthAssumption DEF Idle, Request, Steps, AllOps
<1> QED
  BY <1>1 DEF Idle, RequestOK

(* What an answer leaves                                                   *)
LEMMA AnsweredIsRequest ==
    ASSUME AInv, NEW r \in Requests, NEW c \in Cookie \cup {None},
           NEW code \in {"ok", "refused", "unauthorized", "error"},
           NEW set \in {{}, {c}}, code = "unauthorized" => set \subseteq {None},
           NEW q, q = Answered(r, code, set)
    PROVE  q \in Request /\ q.step = "answered" /\ RequestOK(q) /\ RequestOK(q)'
<1>1. /\ req[r].sent \in 0..MaxTime
      /\ req[r].cookie \in Cookie \cup {None}
  BY DEF AInv, TypeOK, Request
<1>2. set \in SUBSET (Cookie \cup {None})
  OBVIOUS
<1> DEFINE k == IF code = "unauthorized" THEN req[r].cookie ELSE None
<1>3. q = [step |-> "answered", op |-> "call", cookie |-> k, sent |-> req[r].sent,
           refresh |-> FALSE, user |-> None, code |-> code, set |-> set]
  BY DEF Answered, Idle
<1>4. k \in Cookie \cup {None} /\ (k = None \/ code = "unauthorized")
  BY <1>1
<1> HIDE DEF k
<1>5. q \in Request
  BY <1>1, <1>2, <1>3, <1>4 DEF Request, Steps, AllOps
<1>6. /\ q.step = "answered" /\ q.set = set /\ q.user = None /\ q.cookie = k
  BY <1>3
<1>7. k = None \/ set = {} \/ set = {None}
  BY <1>4
<1>8. set = {} \/ \E x \in Cookie \cup {None} : set = {x}
  OBVIOUS
<1> QED
  BY <1>5, <1>6, <1>7, <1>8 DEF RequestOK

(* A step that leaves request r as q and the others as they are            *)
LEMMA BecomesKeepsRequests ==
    ASSUME AInv, NEW r \in Requests, NEW q \in Request, RequestOK(q)',
           Becomes(r, q), accounts' \in {accounts, 1}
    PROVE  /\ req' \in [Requests -> Request]
           /\ req'[r] = q
           /\ \A u \in Requests : u # r => req'[u] = req[u]
           /\ RequestsOK'
<1>1. /\ req' \in [Requests -> Request]
      /\ req'[r] = q
      /\ \A u \in Requests : u # r => req'[u] = req[u]
  BY DEF Becomes, AInv, TypeOK
<1>2. ASSUME NEW u \in Requests PROVE RequestOK(req[u])'
  <2>1. CASE u = r
    <3> PICK p : p = req'[u]
      OBVIOUS
    <3>1. RequestOK(p)'
      BY <1>1, <2>1
    <3> QED
      BY <3>1 DEF RequestOK
  <2>2. CASE u # r
    BY <1>1, <2>2 DEF AInv, RequestsOK, RequestOK
  <2> QED
    BY <2>1, <2>2
<1> QED
  BY <1>1, <1>2 DEF RequestsOK

(* ... keeps the invariant if it keeps the account and the event loop in   *)
(* order.                                                                  *)
LEMMA BecomesKeepsAInv ==
    ASSUME AInv, NEW r \in Requests, NEW q \in Request, RequestOK(q)',
           Becomes(r, q),
           accounts' \in {accounts, 1},
           session' \in SessionId \cup {None}, session' # None => accounts' = 1,
           rotation' \in Rotation \cup {None},
           jar' \in Cookie \cup {None},
           now' = now,
           loop' \in Requests \cup {None},
           loop' = r <=> q.step \in {"rotate", "record"},
           \A u \in Requests : u # r => (loop' = u <=> loop = u)
    PROVE  AInv'
<1>1. /\ req' \in [Requests -> Request]
      /\ req'[r] = q
      /\ \A u \in Requests : u # r => req'[u] = req[u]
      /\ RequestsOK'
  BY BecomesKeepsRequests
<1>2. \A u \in Requests : loop' = u <=> req'[u].step \in {"rotate", "record"}
  BY <1>1 DEF AInv, TypeOK
<1>3. accounts' \in 0..Cardinality(Requests) /\ accounts' <= 1
  <2>1. Cardinality(Requests) \in Nat /\ Cardinality(Requests) # 0
    BY EnoughSessions, FS_CardinalityType, FS_EmptySet
  <2> QED
    BY <2>1 DEF AInv, TypeOK, OneAccount
<1> QED
  BY <1>1, <1>2, <1>3 DEF AInv, TypeOK, OneAccount

(* Answering ends a request that does not hold the loop, or gives it up.   *)
LEMMA AnswerKeepsAInv ==
    ASSUME AInv, NEW r \in Requests, NEW c \in Cookie \cup {None},
           NEW code \in {"ok", "refused", "unauthorized", "error"},
           NEW set \in {{}, {c}}, code = "unauthorized" => set \subseteq {None},
           Answer(r, code, set),
           accounts' \in {accounts, 1},
           session' \in SessionId \cup {None}, session' # None => accounts' = 1,
           UNCHANGED <<rotation, jar, now>>,
           loop' = IF loop = r THEN None ELSE loop
    PROVE  AInv'
<1>1. PICK q : q = Answered(r, code, set)
  OBVIOUS
<1>2. q \in Request /\ q.step = "answered" /\ RequestOK(q)'
  BY <1>1, AnsweredIsRequest
<1>3. Becomes(r, q)
  BY <1>1 DEF Answer
<1>4. /\ loop' \in Requests \cup {None} /\ loop' # r
      /\ \A u \in Requests : u # r => (loop' = u <=> loop = u)
  BY AuthAssumption DEF AInv, TypeOK
<1> QED
  BY <1>2, <1>3, <1>4, BecomesKeepsAInv DEF AInv, TypeOK


-----------------------------------------------------------------------------
(* The steps                                                               *)

LEMMA BrowserKeepsAInv ==
    ASSUME AInv, NEW r \in Requests, Send(r) \/ Deliver(r)
    PROVE  AInv'
<1>1. CASE Send(r)
  <2>1. PICK op \in Ops[r] :
            Becomes(r, [Idle EXCEPT !.step = "sent", !.op = op,
                                    !.cookie = jar, !.sent = now])
    BY <1>1 DEF Send
  <2> PICK q : q = [Idle EXCEPT !.step = "sent", !.op = op,
                                !.cookie = jar, !.sent = now]
    OBVIOUS
  <2>2. /\ Becomes(r, q)
        /\ q \in [step : {"sent"}, op : {op}, cookie : {jar}, sent : {now},
                 refresh : {FALSE}, user : {None}, code : {"none"}, set : {{}}]
    BY <2>1 DEF Idle
  <2>3. op \in AllOps
    BY AuthAssumption
  <2>4. q \in Request
    BY <2>2, <2>3 DEF Request, Steps, AInv, TypeOK
  <2>5. RequestOK(q)' /\ q.step = "sent"
    BY <2>2 DEF RequestOK
  <2>6. loop' # r /\ loop' = loop
    BY <1>1 DEF Send, AInv, TypeOK
  <2> QED
    BY <1>1, <2>2, <2>4, <2>5, <2>6, BecomesKeepsAInv DEF Send, AInv, TypeOK, OneAccount
<1>2. CASE Deliver(r)
  <2>1. jar' \in Cookie \cup {None}
    <3>1. req[r].set \subseteq Cookie \cup {None}
      BY DEF AInv, TypeOK, Request
    <3> QED
      BY <1>2, <3>1 DEF Deliver, AInv, TypeOK
  <2>2. loop' # r /\ loop' = loop
    BY <1>2 DEF Deliver, AInv, TypeOK
  <2>3. Idle.step = "idle"
    BY DEF Idle
  <2> QED
    BY <1>2, <2>1, <2>2, <2>3, IdleIsRequest, BecomesKeepsAInv
       DEF Deliver, AInv, TypeOK, OneAccount
<1> QED
  BY <1>1, <1>2

(* The cookie check of AuthMiddleware.dispatch                             *)
LEMMA DispatchKeepsAInv ==
    ASSUME AInv, NEW r \in Requests, Dispatch(r)
    PROVE  AInv'
<1> DEFINE c == req[r].cookie
           rotates == /\ ~ AccessValid(c)
                      /\ c.session = session
                      /\ req[r].op # "logout"
<1>1. /\ req[r] \in Request /\ loop = None
      /\ UNCHANGED <<accounts, session, rotation, jar, now>>
  BY DEF Dispatch, AInv, TypeOK
<1>2. loop # r
  BY <1>1, AuthAssumption
<1>3. CASE Answer(r, "unauthorized", {}) /\ UNCHANGED loop
  BY <1>1, <1>2, <1>3, AnswerKeepsAInv DEF AInv, TypeOK, OneAccount
<1>4. CASE Answer(r, "unauthorized", {None}) /\ UNCHANGED loop
  BY <1>1, <1>2, <1>4, AnswerKeepsAInv DEF AInv, TypeOK, OneAccount
<1>5. CASE /\ c # None /\ Accepts(c)
           /\ Becomes(r, [req[r] EXCEPT !.refresh = ~ AccessValid(c),
                                        !.user = session,
                                        !.step = IF rotates THEN "rotate" ELSE "handle"])
           /\ loop' = IF rotates THEN r ELSE None
  <2> PICK q : q = [req[r] EXCEPT !.refresh = ~ AccessValid(c),
                                  !.user = session,
                                  !.step = IF rotates THEN "rotate" ELSE "handle"]
    OBVIOUS
  <2>1. /\ q.step = IF rotates THEN "rotate" ELSE "handle"
        /\ q.cookie = c /\ q.user = session /\ q.set = req[r].set
    BY <1>1 DEF Request
  <2>2. (~ AccessValid(c)) \in BOOLEAN /\ session \in SessionId \cup {None}
    BY DEF AInv, TypeOK
  <2>3. q \in Request
    BY <1>1, <2>2 DEF Request, Steps
  <2>4. c \in Cookie /\ c.session \in SessionId
    BY <1>1, <1>5 DEF Request, Accepts, Cookie
  <2>5. req[r].set = {}
    BY <1>5 DEF Dispatch, AInv, RequestsOK, RequestOK
  <2>6. rotates => accounts = 1
    BY <2>4, AuthAssumption DEF AInv, OneAccount, SessionId
  <2>7. RequestOK(q)'
    BY <1>1, <1>5, <2>1, <2>4, <2>5, <2>6 DEF RequestOK
  <2>8. /\ loop' = r <=> q.step \in {"rotate", "record"}
        /\ loop' \in Requests \cup {None}
        /\ \A u \in Requests : u # r => (loop' = u <=> loop = u)
    BY <1>1, <1>5, <2>1, AuthAssumption
  <2>9. Becomes(r, q)
    BY <1>5
  <2> HIDE DEF c, rotates
  <2> QED
    BY <1>1, <2>3, <2>7, <2>8, <2>9, BecomesKeepsAInv DEF AInv, TypeOK, OneAccount
<1> QED
  BY <1>3, <1>4, <1>5 DEF Dispatch


(* The two steps of the refresh fallback, between which only the event     *)
(* loop keeps others out                                                   *)
LEMMA RotationKeepsAInv ==
    ASSUME AInv, NEW r \in Requests, Rotate(r) \/ RecordRotation(r)
    PROVE  AInv'
<1>1. req[r] \in Request /\ RequestOK(req[r]) /\ loop = r
  BY DEF Rotate, RecordRotation, AInv, TypeOK, RequestsOK
<1>2. CASE Rotate(r)
  <2> PICK s : s = FreshSession
    OBVIOUS
  <2>1. s \in SessionId
    BY FreshIsFree
  <2> PICK q : q = [req[r] EXCEPT !.user = s, !.step = "record"]
    OBVIOUS
  <2>2. /\ q.step = "record" /\ q.user = s
        /\ q.cookie = req[r].cookie /\ q.set = req[r].set
    BY <1>1 DEF Request
  <2>3. q \in Request
    BY <1>1, <2>1 DEF Request, Steps
  <2>4. RequestOK(q)'
    BY <1>1, <1>2, <2>1, <2>2 DEF Rotate, RequestOK
  <2>5. accounts = 1
    BY <1>1, <1>2 DEF Rotate, RequestOK
  <2> QED
    BY <1>1, <1>2, <2>1, <2>2, <2>3, <2>4, <2>5, BecomesKeepsAInv
       DEF Rotate, AInv, TypeOK, OneAccount
<1>3. CASE RecordRotation(r)
  <2> PICK q : q = [req[r] EXCEPT !.user = session, !.step = "handle"]
    OBVIOUS
  <2>1. /\ q.step = "handle" /\ q.user = session
        /\ q.cookie = req[r].cookie /\ q.set = req[r].set
    BY <1>1 DEF Request
  <2>2. q \in Request
    BY <1>1 DEF Request, Steps, AInv, TypeOK
  <2>3. RequestOK(q)'
    BY <1>1, <1>3, <2>1 DEF RecordRotation, RequestOK
  <2>4. rotation' \in Rotation
    BY <1>1, <1>3 DEF RecordRotation, RequestOK, Rotation, AInv, TypeOK
  <2>5. /\ Becomes(r, q) /\ loop' = None
        /\ UNCHANGED <<accounts, session, jar, now>>
    BY <1>3 DEF RecordRotation
  <2>6. /\ loop' \in Requests \cup {None} /\ loop' # r
        /\ \A u \in Requests : u # r => (loop' = u <=> loop = u)
    BY <1>1, <2>5, AuthAssumption
  <2> QED
    BY <2>1, <2>2, <2>3, <2>4, <2>5, <2>6, BecomesKeepsAInv
       DEF AInv, TypeOK, OneAccount
<1> QED
  BY <1>2, <1>3

(* The endpoints, and an exception in any of them                          *)
LEMMA EndpointsKeepAInv ==
    ASSUME AInv, NEW r \in Requests,
           \/ Respond(r) \/ Logout(r) \/ Register(r) \/ RegisterInsert(r)
           \/ Login(r) \/ LoginReload(r) \/ Fail(r)
    PROVE  AInv'
<1>1. req[r] \in Request /\ RequestOK(req[r])
  BY DEF AInv, TypeOK, RequestsOK
<1>2. ASSUME NEW s \in SessionId \cup {None} PROVE NewCookie(s) \in Cookie
  BY DEF NewCookie, Cookie, AInv, TypeOK
<1>3. loop = r <=> req[r].step \in {"rotate", "record"}
  BY DEF AInv, TypeOK
<1>4. CASE Respond(r)
  <2> PICK k : k = NewCookie(req[r].user)
    OBVIOUS
  <2>1. k \in Cookie
    BY <1>1, <1>2 DEF Request
  <2>2. PICK set \in {{}, {k}} : Answer(r, "ok", set)
    BY <1>4 DEF Respond
  <2> QED
    BY <1>3, <1>4, <2>1, <2>2, AnswerKeepsAInv DEF Respond, AInv, TypeOK, OneAccount
<1>5. CASE Logout(r)
  BY <1>3, <1>5, AnswerKeepsAInv DEF Logout, AInv, TypeOK, OneAccount
<1>6. CASE Register(r)
  <2>1. CASE accounts > 0
    <3>1. Answer(r, "refused", {})
      BY <1>6, <2>1 DEF Register
    <3> QED
      BY <1>3, <1>6, <3>1, AnswerKeepsAInv DEF Register, AInv, TypeOK, OneAccount
  <2>2. CASE ~ (accounts > 0)
    <3> PICK q : q = [req[r] EXCEPT !.step = "insert"]
      OBVIOUS
    <3>1. q \in Request /\ q.step = "insert" /\ q.cookie = req[r].cookie
          /\ q.set = req[r].set /\ q.user = req[r].user
      BY <1>1 DEF Request, Steps
    <3>2. RequestOK(q)'
      BY <1>1, <1>6, <3>1 DEF Register, RequestOK
    <3>3. Becomes(r, q)
      BY <1>6, <2>2 DEF Register
    <3> QED
      BY <1>3, <1>6, <3>1, <3>2, <3>3, BecomesKeepsAInv
         DEF Register, AInv, TypeOK, OneAccount
  <2> QED
    BY <2>1, <2>2
<1>7. CASE RegisterInsert(r)
  <2>1. PICK code \in {"ok", "error"} : Answer(r, code, {})
    BY <1>7 DEF RegisterInsert
  <2>2. accounts' \in {accounts, 1} /\ (session # None => accounts' = 1)
    BY <1>7 DEF RegisterInsert, AInv, TypeOK, OneAccount
  <2> QED
    BY <1>3, <1>7, <2>1, <2>2, AnswerKeepsAInv DEF RegisterInsert, AInv, TypeOK
<1>8. CASE Login(r)
  <2>1. CASE accounts = 0
    <3>1. Answer(r, "refused", {}) /\ session' = session
      BY <1>8, <2>1 DEF Login
    <3> QED
      BY <1>3, <1>8, <3>1, AnswerKeepsAInv DEF Login, AInv, TypeOK, OneAccount
  <2>2. CASE accounts # 0
    <3>1. accounts = 1
      BY <2>2 DEF AInv, TypeOK, OneAccount
    <3> PICK q : q = [req[r] EXCEPT !.step = "reload"]
      OBVIOUS
    <3>2. q \in Request /\ q.step = "reload" /\ q.cookie = req[r].cookie
          /\ q.set = req[r].set /\ q.user = req[r].user
      BY <1>1 DEF Request, Steps
    <3>3. RequestOK(q)'
      BY <1>1, <1>8, <3>2 DEF Login, RequestOK
    <3>4. Becomes(r, q) /\ session' \in SessionId
      BY <1>8, <2>2, FreshIsFree DEF Login
    <3> QED
      BY <1>3, <1>8, <3>1, <3>2, <3>3, <3>4, BecomesKeepsAInv
         DEF Login, AInv, TypeOK, OneAccount
  <2> QED
    BY <2>1, <2>2
<1>9. CASE LoginReload(r)
  <2> PICK k : k = NewCookie(session)
    OBVIOUS
  <2>1. k \in Cookie
    BY <1>2 DEF AInv, TypeOK
  <2>2. Answer(r, "ok", {k})
    BY <1>9 DEF LoginReload
  <2> QED
    BY <1>3, <1>9, <2>1, <2>2, AnswerKeepsAInv DEF LoginReload, AInv, TypeOK, OneAccount
<1>10. CASE Fail(r)
  BY <1>10, AnswerKeepsAInv DEF Fail, AInv, TypeOK, OneAccount
<1> QED
  BY <1>4, <1>5, <1>6, <1>7, <1>8, <1>9, <1>10

(* A restart forgets the rotation and ends what was being served.          *)
LEMMA RestartKeepsAInv ==
    ASSUME AInv, Restart
    PROVE  AInv'
<1>1. ASSUME NEW r \in Requests
      PROVE  /\ req'[r] \in Request
             /\ req'[r].step \notin {"rotate", "record"}
             /\ RequestOK(req[r])'
  <2>1. CASE req[r].step \in {"idle", "answered"}
    <3>1. req'[r] = req[r]
      BY <2>1 DEF Restart
    <3> QED
      BY <2>1, <3>1 DEF Restart, AInv, TypeOK, RequestsOK, RequestOK
  <2>2. CASE req[r].step \notin {"idle", "answered"}
    <3> PICK q : q = Answered(r, "error", {})
      OBVIOUS
    <3>1. req'[r] = q
      BY <2>2 DEF Restart
    <3>2. q \in Request /\ q.step = "answered" /\ RequestOK(q)'
      BY AnsweredIsRequest
    <3> QED
      BY <3>1, <3>2 DEF RequestOK
  <2> QED
    BY <2>1, <2>2
<1>2. req' \in [Requests -> Request]
  BY <1>1 DEF Restart
<1>3. RequestsOK'
  BY <1>1 DEF RequestsOK
<1> QED
  BY <1>1, <1>2, <1>3, AuthAssumption DEF Restart, AInv, TypeOK, OneAccount

(* The initial states                                                      *)
LEMMA InitAInv == Init => AInv
<1> SUFFICES ASSUME Init PROVE AInv
  OBVIOUS
<1>1. Cardinality(Requests) \in Nat /\ Cardinality(Requests) # 0
  BY EnoughSessions, FS_CardinalityType, FS_EmptySet
<1>2. 1 \in SessionId /\ 0 \in 0..MaxTime
  BY <1>1, AuthAssumption, EnoughSessions DEF SessionId
<1>3. jar \in Cookie \cup {None} /\ session \in SessionId \cup {None}
  BY <1>2 DEF Init, Cookie
<1>4. /\ req \in [Requests -> Request]
      /\ \A r \in Requests : req[r] = Idle
  BY IdleIsRequest DEF Init
<1>5. RequestsOK
  BY <1>4, IdleIsRequest DEF RequestsOK
<1>6. \A r \in Requests : loop = r <=> req[r].step \in {"rotate", "record"}
  BY <1>4, AuthAssumption DEF Init, Idle
<1>7. TypeOK
  BY <1>1, <1>2, <1>3, <1>4, <1>6 DEF Init, TypeOK
<1>8. OneAccount
  BY DEF Init, OneAccount
<1> QED
  BY <1>5, <1>7, <1>8 DEF AInv

(* Every step                                                              *)
LEMMA NextAInv == AInv /\ [Next]_vars => AInv'
<1> SUFFICES ASSUME AInv, [Next]_vars PROVE AInv'
  OBVIOUS
<1>1. ASSUME NEW r \in Requests,
             Send(r) \/ Dispatch(r) \/ Serve(r) \/ Fail(r) \/ Deliver(r)
      PROVE  AInv'
  BY <1>1, BrowserKeepsAInv, DispatchKeepsAInv, RotationKeepsAInv,
     EndpointsKeepAInv DEF Serve
<1>2. CASE Tick \/ UNCHANGED vars
  <2>1. now' \in 0..MaxTime
    BY <1>2, AuthAssumption DEF Tick, vars, AInv, TypeOK
  <2>2. UNCHANGED <<accounts, session, rotation, jar, req, loop>>
    BY <1>2 DEF Tick, vars
  <2>3. RequestsOK' /\ OneAccount'
    BY <2>2 DEF AInv, RequestsOK, RequestOK, OneAccount
  <2>4. TypeOK'
    BY <2>1, <2>2 DEF AInv, TypeOK
  <2> QED
    BY <2>3, <2>4 DEF AInv
<1> QED
  BY <1>1, <1>2, RestartKeepsAInv DEF Next

(* Accounts, sessions and what each request holds agree in every reachable *)
(* state, whatever overlaps and fails.                                     *)
THEOREM SessionInvariance == Spec => []AInv
BY InitAInv, NextAInv, PTL DEF Spec

(* Whatever overlaps and fails, sessions and cookies are well formed and   *)
(* no two dispatches of the middleware overlap: the one that rotates holds *)
(* the event loop until it has recorded the rotation (AuthMiddleware).     *)
THEOREM SessionTypeCorrectness == Spec => []TypeOK
BY SessionInvariance, PTL DEF AInv

(* However many registrations with one email overlap, there is at most one *)
(* account, and nobody has a session before there is one (_register_user,  *)
(* _login_user).                                                           *)
THEOREM AccountIsUnique == Spec => []OneAccount
BY SessionInvariance, PTL DEF AInv

-----------------------------------------------------------------------------
(* Sessions start at a login: only a logout that lands between the cookie  *)
(* check of a refresh and its commit breaks it.                            *)

(* No logout is served while a request is about to rotate the session.     *)
LogoutWaits ==
    \A r, u \in Requests :
        req[r].step = "rotate" => ~ (req[u].step = "handle" /\ req[u].op = "logout")

(* Who is about to rotate the session found one, and so there is one.      *)
RotatesSession == \A r \in Requests : req[r].step = "rotate" => session # None

(* Only three statements write the session id.                             *)
LEMMA WhoWritesSession ==
    ASSUME AInv, [Next]_vars
    PROVE  \/ session' = session
           \/ \E r \in Requests : Rotate(r) \/ Logout(r) \/ Login(r)
<1>1. ASSUME NEW r \in Requests, Serve(r)
      PROVE  session' = session \/ Rotate(r) \/ Logout(r) \/ Login(r)
  BY <1>1 DEF Serve, RecordRotation, Respond, Register, RegisterInsert, LoginReload
<1> QED
  BY <1>1 DEF Next, Send, Dispatch, Fail, Deliver, Restart, Tick, vars

(* A request gets to its rotation by the cookie check only.                *)
LEMMA WhoRotates ==
    ASSUME AInv, [Next]_vars, NEW u \in Requests, req'[u].step = "rotate"
    PROVE  req'[u] = req[u] \/ (Dispatch(u) /\ session # None)
<1>0. ASSUME NEW r \in Requests, NEW q, Becomes(r, q)
      PROVE  req'[u] = IF u = r THEN q ELSE req[u]
  BY <1>0 DEF Becomes, AInv, TypeOK
<1>1. ASSUME NEW r \in Requests, NEW code, NEW set, Answer(r, code, set)
      PROVE  u # r
  <2>1. PICK q : q = Answered(r, code, set)
    OBVIOUS
  <2>2. q.step = "answered"
    BY <2>1 DEF Answered, Idle
  <2> QED
    BY <1>0, <1>1, <2>1, <2>2 DEF Answer
<1>2. ASSUME NEW r \in Requests, Send(r) \/ Deliver(r)
      PROVE  u # r
  <2>1. Idle.step = "idle"
    BY DEF Idle
  <2>2. \A op : [Idle EXCEPT !.step = "sent", !.op = op,
                            !.cookie = jar, !.sent = now].step = "sent"
    BY DEF Idle
  <2> QED
    BY <1>0, <1>2, <2>1, <2>2 DEF Send, Deliver
<1>3. ASSUME NEW r \in Requests, Serve(r) \/ Fail(r)
      PROVE  u # r
  <2> SUFFICES ASSUME u = r PROVE FALSE
    OBVIOUS
  <2>1. req[r] \in Request
    BY DEF AInv, TypeOK
  <2>2. CASE Rotate(r) \/ RecordRotation(r)
    <3>1. /\ [req[r] EXCEPT !.user = FreshSession, !.step = "record"].step = "record"
          /\ [req[r] EXCEPT !.user = session, !.step = "handle"].step = "handle"
      BY <2>1 DEF Request
    <3> QED
      BY <1>0, <2>2, <3>1 DEF Rotate, RecordRotation
  <2>3. CASE Respond(r) \/ Logout(r) \/ RegisterInsert(r) \/ LoginReload(r) \/ Fail(r)
    BY <1>1, <2>3 DEF Respond, Logout, RegisterInsert, LoginReload, Fail
  <2>4. CASE Register(r) \/ Login(r)
    BY <1>0, <1>1, <2>1, <2>4 DEF Register, Login, Request
  <2> QED
    BY <1>3, <2>2, <2>3, <2>4 DEF Serve
<1>4. ASSUME Dispatch(u) PROVE session # None
  <2> DEFINE c == req[u].cookie
             rotates == /\ ~ AccessValid(c)
                        /\ c.session = session
                        /\ req[u].op # "logout"
             q == [req[u] EXCEPT !.refresh = ~ AccessValid(c), !.user = session,
                                 !.step = IF rotates THEN "rotate" ELSE "handle"]
  <2>0. q.step = IF rotates THEN "rotate" ELSE "handle"
    BY DEF AInv, TypeOK, Request
  <2>1. Accepts(c) /\ Becomes(u, q)
    BY <1>1, <1>4 DEF Dispatch
  <2>2. rotates
    <3> HIDE DEF rotates, q
    <3> QED
      BY <1>0, <2>0, <2>1
  <2> QED
    BY <2>1, <2>2 DEF Accepts
<1>5. ASSUME NEW r \in Requests,
             Send(r) \/ Dispatch(r) \/ Serve(r) \/ Fail(r) \/ Deliver(r), u # r
      PROVE  req'[u] = req[u]
  <2>1. \E q : Becomes(r, q)
    BY <1>5
    DEF Send, Dispatch, Serve, Deliver, Rotate, RecordRotation, Respond, Logout,
        Register, RegisterInsert, Login, LoginReload, Fail, Answer
  <2> QED
    BY <1>0, <1>5, <2>1
<1>6. CASE Restart
  BY <1>6 DEF Restart, Answered, Idle
<1>7. CASE Tick \/ UNCHANGED vars
  BY <1>7 DEF Tick, vars
<1> QED
  BY <1>2, <1>3, <1>4, <1>5, <1>6, <1>7 DEF Next

(* A new session id is a session.                                          *)
LEMMA FreshIsSession == AInv => FreshSession # None
  BY FreshIsFree, AuthAssumption DEF SessionId

LEMMA NextRotatesSession ==
    ASSUME AInv, RotatesSession, LogoutWaits, [Next]_vars
    PROVE  RotatesSession'
<1> SUFFICES ASSUME NEW u \in Requests, req'[u].step = "rotate"
             PROVE  session' # None
  BY DEF RotatesSession
<1>1. session # None
  BY WhoRotates DEF RotatesSession
<1>2. CASE session' = session
  BY <1>1, <1>2
<1>3. CASE \E r \in Requests : Rotate(r) \/ Login(r)
  BY <1>1, <1>3, FreshIsSession DEF Rotate, Login
<1>4. ASSUME NEW r \in Requests, Logout(r) PROVE FALSE
  <2>1. ~ Dispatch(u) \/ session' = session
    BY DEF Dispatch
  <2>2. session' = None
    BY <1>4 DEF Logout
  <2>3. req[u].step = "rotate"
    BY <1>1, <2>1, <2>2, WhoRotates
  <2> QED
    BY <1>4, <2>3 DEF Logout, LogoutWaits
<1> QED
  BY <1>2, <1>3, <1>4, WhoWritesSession

(* After a logout the account has no session until somebody logs in,       *)
(* whatever else overlaps and fails, as long as no logout is served        *)
(* between the cookie check of a refresh and the commit of the rotation    *)
(* (the middleware writes the new session id without looking whether the   *)
(* account still has the old one).                                         *)
THEOREM SessionsStartIfLogoutWaits ==
    Spec => ([]LogoutWaits => SessionsStartAtLogin)
<1> DEFINE Starts ==
        session = None /\ session' # None =>
            \E r \in Requests : req[r].op = "login" /\ req[r].step = "sent"
                                                    /\ req'[r].step = "reload"
<1>1. Init => RotatesSession
  BY DEF Init, RotatesSession, Idle
<1>2. AInv /\ RotatesSession /\ LogoutWaits /\ [Next]_vars => RotatesSession'
  BY NextRotatesSession
<1>3. AInv /\ RotatesSession /\ [Next]_vars => [Starts]_session
  <2> SUFFICES ASSUME AInv, RotatesSession, [Next]_vars,
                      session = None, session' # None
               PROVE  \E r \in Requests : /\ req[r].op = "login" /\ req[r].step = "sent"
                                          /\ req'[r].step = "reload"
    OBVIOUS
  <2>1. PICK r \in Requests : Rotate(r) \/ Logout(r) \/ Login(r)
    BY WhoWritesSession
  <2>2. ~ Rotate(r) /\ ~ Logout(r)
    BY DEF Rotate, Logout, RotatesSession
  <2>3. req[r] \in Request /\ req \in [Requests -> Request]
    BY DEF AInv, TypeOK
  <2>4. /\ req[r].step = "sent" /\ req[r].op = "login"
        /\ Becomes(r, [req[r] EXCEPT !.step = "reload"])
    BY <2>1, <2>2 DEF Login
  <2>5. req'[r].step = "reload"
    BY <2>3, <2>4 DEF Becomes, Request
  <2> QED
    BY <2>4, <2>5
<1> QED
  BY <1>1, <1>2, <1>3, SessionInvariance, PTL DEF Spec, SessionsStartAtLogin
=============================================================================
