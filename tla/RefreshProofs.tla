--------------------------- MODULE RefreshProofs ---------------------------
(***************************************************************************)
(* A browser that only makes ordinary requests, any number of them at a    *)
(* time, is not logged out by the rotation of its session, and ends up     *)
(* with the session that the database has, for every choice of the timing  *)
(* constants in which                                                      *)
(*   - the grace period is at least twice, and                             *)
(*   - the access token lives more than three times                        *)
(* as long as a request may be under way.                                  *)
(***************************************************************************)
EXTENDS AuthSessionProofs

Ordinary == ~ Failures /\ \A r \in Requests : Ops[r] \subseteq {"call"}

TimesFit == 2 * MaxFlight <= GRACE /\ 3 * MaxFlight < ACCESS

-----------------------------------------------------------------------------
(* Requests and cookies                                                    *)

(* The cookie of q is still to be looked at.                               *)
Carries(q) == q.step \in {"sent", "rotate"} /\ q.cookie # None

(* The answer to q sets, or will set, a new cookie.                        *)
Renews(q) == \/ q.step = "handle" /\ q.refresh
             \/ q.step = "answered" /\ q.code = "ok" /\ q.set # {}

(* The cookie names the session of the account and was made since that     *)
(* session began.                                                          *)
Current(c) ==
    /\ c.session \in SessionId /\ c.session = session
    /\ rotation # None => rotation.at <= c.issued

(* The cookie names the session before; its access token has expired.      *)
Replaced(c) ==
    rotation # None /\ c.session = rotation.previous /\ ~ AccessValid(c)

(* q was sent before the answer to the rotating request can have arrived,  *)
(* and before any answer that can still set a cookie.                      *)
Early(q) == rotation # None /\ q.sent <= rotation.at + MaxFlight

(* q was sent when all answers that set a cookie had arrived.              *)
Late(q) == rotation # None => q.sent > rotation.at + 2 * MaxFlight

(***************************************************************************)
(* The strengthening                                                       *)
(***************************************************************************)

(* What ordinary requests go through                                       *)
CallOK(q) ==
    /\ q.op = "call"
    /\ q.step \notin {"insert", "reload"}
    /\ q.step = "answered" => q.code \in {"ok", "unauthorized"}
    /\ q.step # "answered" => q.code = "none"
    /\ q.code = "unauthorized" => q.set \subseteq {None}
    /\ q.step \in {"rotate", "record"} => q.refresh /\ ~ AccessValid(q.cookie)

(* What concerns one request alone: it is not under way for more than      *)
(* MaxFlight, and it is not refused while its refresh token is valid.      *)
LocalOK(q) ==
    /\ q.step # "idle" => q.sent <= now /\ now <= q.sent + MaxFlight
    /\ CallOK(q)
    /\ q.code = "unauthorized" /\ q.cookie # None => ~ RefreshValid(q.cookie)

LocallyOK == \A r \in Requests : LocalOK(req[r])

(* r has committed the new session id and has not recorded the rotation.   *)
Swaps(r) == req[r].step = "record"

NoSwap == \A r \in Requests : ~ Swaps(r)

(* The request that rotated the session has not set the new cookie yet.    *)
RotatorUnderWay ==
    \E r \in Requests : Renews(req[r]) /\ req[r].sent <= rotation.at

JarOK == jar # None => Current(jar) \/ (Replaced(jar) /\ RotatorUnderWay)

CarriedOK ==
    \A r \in Requests : Carries(req[r]) =>
        \/ Current(req[r].cookie)
        \/ req[r].step = "sent" /\ Replaced(req[r].cookie) /\ Early(req[r])

RenewalsOK ==
    \A r \in Requests : Renews(req[r]) =>
        /\ Early(req[r])
        /\ req[r].step = "handle" => req[r].user = session
        /\ \A c \in req[r].set : Current(c)

RotationOK == rotation # None =>
    /\ rotation.current = session
    /\ rotation.previous # session
    /\ rotation.at <= now

(* Once the answers have settled there is only one cookie about.           *)
OneCookie ==
    \A r \in Requests : Carries(req[r]) /\ Late(req[r]) =>
        /\ jar # None => jar = req[r].cookie
        /\ \A u \in Requests : Carries(req[u]) /\ Late(req[u]) =>
                req[u].cookie = req[r].cookie

Settled == JarOK /\ CarriedOK /\ RenewalsOK /\ RotationOK /\ OneCookie

(* The new session id is in the database and not in _recent_rotations: all *)
(* cookies about are the one that is being replaced.                       *)
SwappedBy(r) ==
    /\ req[r].user = session
    /\ req[r].cookie.session # session
    /\ jar \in {None, req[r].cookie}
    /\ \A u \in Requests : /\ Carries(req[u]) => req[u].cookie = req[r].cookie
                           /\ ~ Renews(req[u])

Progress ==
    \/ NoSwap /\ Settled
    \/ \E r \in Requests : Swaps(r) /\ SwappedBy(r)

TInv == AInv /\ LocallyOK /\ Progress

-----------------------------------------------------------------------------
(* Lemmas                                                                  *)

LEMMA Types ==
    ASSUME AInv
    PROVE  /\ now \in Int /\ MaxFlight \in Nat /\ ACCESS \in Nat
           /\ GRACE \in Nat /\ REFRESH \in Nat
           /\ rotation # None => /\ rotation.at \in Int
                                 /\ rotation.current \in SessionId
                                 /\ rotation.previous \in SessionId
           /\ jar # None => jar \in Cookie
           /\ \A c \in Cookie : c.issued \in Int
           /\ \A r \in Requests :
                /\ req[r] \in Request
                /\ req[r].sent \in Int
                /\ req[r].cookie # None => req[r].cookie \in Cookie
  BY AuthAssumption DEF AInv, TypeOK, Rotation, Request, Cookie

(* Who swaps holds the event loop, so no other request is in dispatch.     *)
LEMMA OneDispatch ==
    ASSUME AInv, NEW r \in Requests, req[r].step \in {"rotate", "record"},
           NEW u \in Requests, req[u].step \in {"rotate", "record"}
    PROVE  u = r
  BY DEF AInv, TypeOK

(* Time makes nothing current, and nothing valid again.                    *)
LEMMA CookiesAge ==
    ASSUME AInv, UNCHANGED <<session, rotation>>, now' \in Int, now <= now',
           NEW c \in Cookie
    PROVE  /\ Current(c)' <=> Current(c)
           /\ Replaced(c) => Replaced(c)'
           /\ ~ AccessValid(c) => ~ AccessValid(c)'
           /\ ~ RefreshValid(c) => ~ RefreshValid(c)'
<1>1. /\ ~ AccessValid(c) => ~ AccessValid(c)'
      /\ ~ RefreshValid(c) => ~ RefreshValid(c)'
  BY Types DEF AccessValid, RefreshValid
<1> QED
  BY <1>1 DEF Current, Replaced

(* A step of one request leaves the others as they are.                    *)
LEMMA BecomesKeepsLocal ==
    ASSUME AInv, LocallyOK, NEW r \in Requests, NEW q, Becomes(r, q), LocalOK(q),
           now' = now
    PROVE  LocallyOK'
<1>1. /\ req'[r] = q
      /\ \A u \in Requests : u # r => req'[u] = req[u]
  BY DEF Becomes, AInv, TypeOK
<1>2. ASSUME NEW u \in Requests PROVE LocalOK(req[u])'
  <2> PICK p : p = req'[u]
    OBVIOUS
  <2>1. LocalOK(p)
    BY <1>1 DEF LocallyOK
  <2>2. LocalOK(p)'
    BY <2>1 DEF LocalOK, CallOK, AccessValid, RefreshValid
  <2> QED
    BY <2>2 DEF LocalOK
<1> QED
  BY <1>2 DEF LocallyOK

(* A step that leaves request r as q, with nothing else changed, keeps     *)
(* what is settled ...                                                     *)
LEMMA BecomesKeepsSettled ==
    ASSUME AInv, Settled, NEW r \in Requests, NEW q, Becomes(r, q),
           UNCHANGED <<session, rotation, jar, now>>,
           Carries(q) => \/ Current(q.cookie)
                         \/ q.step = "sent" /\ Replaced(q.cookie) /\ Early(q),
           Carries(q) => \/ q.cookie = jar
                         \/ /\ Carries(req[r])
                            /\ q.cookie = req[r].cookie /\ q.sent = req[r].sent,
           Renews(q) => /\ Early(q)
                        /\ q.step = "handle" => q.user = session
                        /\ \A c \in q.set : Current(c),
           Renews(req[r]) => Renews(q) /\ q.sent = req[r].sent
    PROVE  Settled'
<1>1. /\ req'[r] = q
      /\ \A u \in Requests : u # r => req'[u] = req[u]
  BY DEF Becomes, AInv, TypeOK
<1>2. \A c : /\ Current(c)' <=> Current(c)
             /\ Replaced(c)' <=> Replaced(c)
  BY DEF Current, Replaced, AccessValid
<1>3. \A p : (Early(p)' <=> Early(p)) /\ (Late(p)' <=> Late(p))
  BY DEF Early, Late
<1>4. RotationOK'
  BY DEF Settled, RotationOK
<1>5. JarOK'
  <2> SUFFICES ASSUME jar # None PROVE (Current(jar) \/ (Replaced(jar) /\ RotatorUnderWay))'
    BY DEF JarOK
  <2> PICK c : c = jar
    OBVIOUS
  <2>1. Current(c) \/ (Replaced(c) /\ RotatorUnderWay)
    BY DEF Settled, JarOK
  <2>2. RotatorUnderWay => RotatorUnderWay'
    <3> SUFFICES ASSUME RotatorUnderWay PROVE RotatorUnderWay'
      OBVIOUS
    <3>1. PICK u \in Requests : Renews(req[u]) /\ req[u].sent <= rotation.at
      BY DEF RotatorUnderWay
    <3>2. Renews(req'[u]) /\ req'[u].sent <= rotation.at
      BY <1>1, <3>1
    <3> QED
      BY <3>2 DEF RotatorUnderWay, Renews
  <2>3. Current(c)' \/ (Replaced(c)' /\ RotatorUnderWay')
    BY <1>2, <2>1, <2>2
  <2> QED
    BY <2>3
<1>6. ASSUME NEW u \in Requests, NEW p, p = req'[u]
      PROVE  /\ Carries(p) => \/ Current(p.cookie)
                              \/ p.step = "sent" /\ Replaced(p.cookie) /\ Early(p)
             /\ Renews(p) => /\ Early(p)
                             /\ p.step = "handle" => p.user = session
                             /\ \A c \in p.set : Current(c)
  BY <1>1, <1>6 DEF Settled, CarriedOK, RenewalsOK
<1>7. CarriedOK'
  <2> SUFFICES ASSUME NEW u \in Requests, Carries(req[u])'
               PROVE  \/ Current(req[u].cookie)'
                      \/ req'[u].step = "sent" /\ Replaced(req[u].cookie)' /\ Early(req[u])'
    BY DEF CarriedOK
  <2> PICK p, c : p = req'[u] /\ c = p.cookie
    OBVIOUS
  <2>1. Carries(p)
    BY DEF Carries
  <2>2. Current(c)' \/ (p.step = "sent" /\ Replaced(c)' /\ Early(p)')
    BY <1>2, <1>3, <1>6, <2>1
  <2> QED
    BY <2>2
<1>8. RenewalsOK'
  <2> SUFFICES ASSUME NEW u \in Requests, Renews(req[u])'
               PROVE  /\ Early(req[u])'
                      /\ req'[u].step = "handle" => req'[u].user = session'
                      /\ \A c \in req'[u].set : Current(c)'
    BY DEF RenewalsOK
  <2> PICK p : p = req'[u]
    OBVIOUS
  <2>1. Renews(p)
    BY DEF Renews
  <2>2. Early(p)' /\ (p.step = "handle" => p.user = session) /\ \A c \in p.set : Current(c)'
    BY <1>2, <1>3, <1>6, <2>1
  <2> QED
    BY <2>2
<1>9. OneCookie'
  <2> SUFFICES ASSUME NEW u \in Requests, NEW v \in Requests,
                      Carries(req[u])', Late(req[u])', Carries(req[v])', Late(req[v])'
               PROVE  /\ jar' # None => jar' = req'[u].cookie
                      /\ req'[v].cookie = req'[u].cookie
    BY DEF OneCookie
  <2>1. /\ Carries(req'[u]) /\ Late(req'[u])
        /\ Carries(req'[v]) /\ Late(req'[v])
    BY DEF Carries, Late
  <2>2. \A x \in Requests : Carries(req'[x]) /\ Late(req'[x]) =>
            \/ req'[x].cookie = jar /\ jar # None
            \/ /\ Carries(req[x]) /\ Late(req[x])
               /\ req'[x].cookie = req[x].cookie
    BY <1>1 DEF Late, Carries
  <2> QED
    BY <2>1, <2>2 DEF Settled, OneCookie
<1> QED
  BY <1>4, <1>5, <1>7, <1>8, <1>9 DEF Settled


(* ... and keeps what holds while another request swaps the session.       *)
LEMMA BecomesKeepsSwapped ==
    ASSUME AInv, NEW s \in Requests, Swaps(s), SwappedBy(s),
           NEW r \in Requests, r # s, NEW q, Becomes(r, q), session' = session,
           jar' \in {jar, None},
           Carries(q) => q.cookie = req[s].cookie,
           ~ Renews(q)
    PROVE  Swaps(s)' /\ SwappedBy(s)'
<1>1. /\ req'[r] = q
      /\ \A u \in Requests : u # r => req'[u] = req[u]
  BY DEF Becomes, AInv, TypeOK
<1>2. req'[s] = req[s]
  BY <1>1
<1>3. ASSUME NEW u \in Requests
      PROVE  /\ Carries(req[u])' => req'[u].cookie = req[s].cookie
             /\ ~ Renews(req[u])'
  <2> PICK p : p = req'[u]
    OBVIOUS
  <2>1. (Carries(p) => p.cookie = req[s].cookie) /\ ~ Renews(p)
    BY <1>1 DEF SwappedBy
  <2>2. (Carries(p)' <=> Carries(p)) /\ (Renews(p)' <=> Renews(p))
    BY DEF Carries, Renews
  <2> QED
    BY <2>1, <2>2
<1> QED
  BY <1>2, <1>3 DEF Swaps, SwappedBy

(* No request begins to swap sessions but by Rotate.                       *)
LEMMA BecomesKeepsNoSwap ==
    ASSUME AInv, NoSwap, NEW r \in Requests, NEW q, Becomes(r, q), q.step # "record"
    PROVE  NoSwap'
<1>1. /\ req'[r] = q
      /\ \A u \in Requests : u # r => req'[u] = req[u]
  BY DEF Becomes, AInv, TypeOK
<1> QED
  BY <1>1 DEF NoSwap, Swaps

-----------------------------------------------------------------------------
(* The browser                                                             *)

LEMMA SendKeeps ==
    ASSUME Ordinary, AInv, LocallyOK, Progress, NEW r \in Requests, Send(r)
    PROVE  LocallyOK' /\ Progress'
<1>0. UNCHANGED <<session, rotation, jar, now>> /\ req[r].step = "idle"
  BY DEF Send
<1>1. PICK op \in Ops[r] :
            Becomes(r, [Idle EXCEPT !.step = "sent", !.op = op,
                                    !.cookie = jar, !.sent = now])
  BY DEF Send
<1> PICK q : q = [Idle EXCEPT !.step = "sent", !.op = op,
                              !.cookie = jar, !.sent = now]
  OBVIOUS
<1>2. /\ Becomes(r, q)
      /\ q.step = "sent" /\ q.op = op /\ q.cookie = jar /\ q.sent = now
      /\ q.code = "none" /\ q.set = {} /\ ~ Renews(q)
  BY <1>1 DEF Idle, Renews
<1>3. op = "call"
  BY DEF Ordinary
<1>4. LocalOK(q)
  BY <1>2, <1>3, Types DEF LocalOK, CallOK
<1>5. LocallyOK'
  BY <1>0, <1>2, <1>4, BecomesKeepsLocal
<1>6. CASE NoSwap /\ Settled
  <2>1. Carries(q) => Current(q.cookie) \/ (Replaced(q.cookie) /\ Early(q))
    <3> SUFFICES ASSUME jar # None, Replaced(jar), RotatorUnderWay PROVE Early(q)
      BY <1>2, <1>6 DEF Carries, Settled, JarOK
    <3>1. PICK u \in Requests : Renews(req[u]) /\ req[u].sent <= rotation.at
      BY DEF RotatorUnderWay
    <3>2. now <= req[u].sent + MaxFlight
      BY <3>1 DEF LocallyOK, LocalOK, Renews
    <3>3. rotation # None
      BY DEF Replaced
    <3> QED
      BY <1>2, <3>1, <3>2, <3>3, Types DEF Early
  <2>2. ~ Renews(req[r])
    BY <1>0 DEF Renews
  <2>3. Settled'
    BY <1>0, <1>2, <1>6, <2>1, <2>2, BecomesKeepsSettled
  <2>4. NoSwap'
    BY <1>2, <1>6, BecomesKeepsNoSwap
  <2> QED
    BY <1>5, <2>3, <2>4 DEF Progress
<1>7. CASE \E s \in Requests : Swaps(s) /\ SwappedBy(s)
  <2>1. PICK s \in Requests : Swaps(s) /\ SwappedBy(s)
    BY <1>7
  <2>2. r # s
    BY <1>0, <2>1 DEF Swaps
  <2>3. Carries(q) => q.cookie = req[s].cookie
    BY <1>2, <2>1 DEF SwappedBy, Carries
  <2>4. Swaps(s)' /\ SwappedBy(s)'
    BY <1>0, <1>2, <2>1, <2>2, <2>3, BecomesKeepsSwapped
  <2> QED
    BY <1>5, <2>4 DEF Progress
<1> QED
  BY <1>6, <1>7 DEF Progress

(* Answers settle within two flights after the rotation.                   *)
LEMMA RenewalsAreRecent ==
    ASSUME AInv, LocallyOK, Settled, NEW r \in Requests, Renews(req[r])
    PROVE  rotation # None /\ now <= rotation.at + 2 * MaxFlight
<1>1. Early(req[r]) /\ now <= req[r].sent + MaxFlight
  BY DEF Settled, RenewalsOK, LocallyOK, LocalOK, Renews
<1> QED
  BY <1>1, Types DEF Early

(* An answer that sets a cookie brings the session of the account; one     *)
(* that clears it was given when the refresh token had expired.            *)
LEMMA DeliverKeeps ==
    ASSUME AInv, LocallyOK, Progress, NEW r \in Requests, Deliver(r)
    PROVE  LocallyOK' /\ Progress'
<1>0. /\ UNCHANGED <<session, rotation, now>> /\ req[r].step = "answered"
      /\ Becomes(r, Idle)
  BY DEF Deliver
<1>1. /\ Idle.step = "idle" /\ Idle.code = "none" /\ Idle.op = "call"
      /\ Idle.set = {} /\ ~ Carries(Idle) /\ ~ Renews(Idle)
  BY DEF Idle, Carries, Renews
<1>2. LocallyOK'
  <2>1. LocalOK(Idle)
    BY <1>1 DEF LocalOK, CallOK
  <2> QED
    BY <1>0, <2>1, BecomesKeepsLocal
<1>3. /\ req'[r] = Idle
      /\ \A u \in Requests : u # r => req'[u] = req[u]
  BY <1>0 DEF Becomes, AInv, TypeOK
<1>4. ~ Renews(req[r]) => jar' \in {jar, None}
  <2>1. req[r].set \subseteq {None} \/ Renews(req[r])
    BY <1>0 DEF LocallyOK, LocalOK, CallOK, Renews
  <2>2. CASE req[r].set = {}
    BY <2>2 DEF Deliver
  <2>3. CASE req[r].set = {None}
    BY <2>3 DEF Deliver
  <2> QED
    BY <2>1, <2>2, <2>3
<1>5. CASE \E s \in Requests : Swaps(s) /\ SwappedBy(s)
  <2>1. PICK s \in Requests : Swaps(s) /\ SwappedBy(s)
    BY <1>5
  <2>2. r # s /\ ~ Renews(req[r])
    BY <1>0, <2>1 DEF Swaps, SwappedBy
  <2>3. Swaps(s)' /\ SwappedBy(s)'
    BY <1>0, <1>1, <1>4, <2>1, <2>2, BecomesKeepsSwapped
  <2> QED
    BY <1>2, <2>3 DEF Progress
<1>6. CASE NoSwap /\ Settled
  <2>1. NoSwap'
    BY <1>0, <1>1, <1>6, BecomesKeepsNoSwap
  <2>2. \A c : /\ Current(c)' <=> Current(c)
               /\ Replaced(c)' <=> Replaced(c)
    BY <1>0 DEF Current, Replaced, AccessValid
  <2>3. \A u \in Requests : Carries(req'[u]) \/ Renews(req'[u]) => u # r
    BY <1>1, <1>3
  <2>4. CarriedOK'
    <3> SUFFICES ASSUME NEW u \in Requests, Carries(req[u])'
                 PROVE  \/ Current(req[u].cookie)'
                        \/ req'[u].step = "sent" /\ Replaced(req[u].cookie)' /\ Early(req[u])'
      BY DEF CarriedOK
    <3> PICK p, c : p = req'[u] /\ c = p.cookie
      OBVIOUS
    <3>1. Carries(p) /\ p = req[u]
      BY <1>3, <2>3 DEF Carries
    <3>2. Current(c)' \/ (p.step = "sent" /\ Replaced(c)' /\ Early(p)')
      BY <1>0, <1>6, <2>2, <3>1 DEF Settled, CarriedOK, Early
    <3> QED
      BY <3>2
  <2>5. RenewalsOK'
    <3> SUFFICES ASSUME NEW u \in Requests, Renews(req[u])'
                 PROVE  /\ Early(req[u])'
                        /\ req'[u].step = "handle" => req'[u].user = session'
                        /\ \A c \in req'[u].set : Current(c)'
      BY DEF RenewalsOK
    <3> PICK p : p = req'[u]
      OBVIOUS
    <3>1. Renews(p) /\ p = req[u]
      BY <1>3, <2>3 DEF Renews
    <3>2. Early(p)' /\ (p.step = "handle" => p.user = session) /\ \A c \in p.set : Current(c)'
      BY <1>0, <1>6, <2>2, <3>1 DEF Settled, RenewalsOK, Early
    <3> QED
      BY <1>0, <3>2
  <2>6. RotationOK'
    BY <1>0, <1>6 DEF Settled, RotationOK
  <2>7. CASE Renews(req[r])
    <3>1. \E c \in req[r].set : jar' = c
      BY <1>0, <2>7 DEF Deliver, Renews
    <3>2. Current(jar')
      BY <1>6, <2>7, <3>1 DEF Settled, RenewalsOK
    <3>3. JarOK'
      <4> PICK c : c = jar'
        OBVIOUS
      <4>1. Current(c)'
        BY <2>2, <3>2
      <4>2. Current(jar)'
        BY <4>1
      <4> QED
        BY <4>2 DEF JarOK
    <3>4. rotation # None /\ now <= rotation.at + 2 * MaxFlight
      BY <1>6, <2>7, RenewalsAreRecent
    <3>5. \A u \in Requests : ~ (Carries(req[u])' /\ Late(req[u])')
      <4> SUFFICES ASSUME NEW u \in Requests, Carries(req[u])', Late(req[u])'
                   PROVE  FALSE
        OBVIOUS
      <4>1. req'[u] = req[u] /\ req[u].step # "idle"
        BY <1>3, <2>3 DEF Carries
      <4>2. req[u].sent <= now /\ req[u].sent > rotation.at + 2 * MaxFlight
        BY <1>0, <3>4, <4>1 DEF LocallyOK, LocalOK, Late
      <4> QED
        BY <3>4, <4>2, Types
    <3> QED
      BY <1>2, <2>1, <2>4, <2>5, <2>6, <3>3, <3>5 DEF Settled, OneCookie, Progress
  <2>8. CASE ~ Renews(req[r])
    <3>1. jar' \in {jar, None}
      BY <1>4, <2>8
    <3>2. JarOK'
      <4> SUFFICES ASSUME jar' # None, jar' = jar
                   PROVE  Current(jar)' \/ (Replaced(jar)' /\ RotatorUnderWay')
        BY <3>1 DEF JarOK
      <4> PICK c : c = jar
        OBVIOUS
      <4>1. Current(c) \/ (Replaced(c) /\ RotatorUnderWay)
        BY <1>6 DEF Settled, JarOK
      <4>2. ASSUME RotatorUnderWay PROVE RotatorUnderWay'
        <5>1. PICK u \in Requests : Renews(req[u]) /\ req[u].sent <= rotation.at
          BY <4>2 DEF RotatorUnderWay
        <5>2. Renews(req'[u]) /\ req'[u].sent <= rotation.at
          BY <1>3, <2>8, <5>1
        <5> QED
          BY <1>0, <5>2 DEF RotatorUnderWay, Renews
      <4>3. Current(c)' \/ (Replaced(c)' /\ RotatorUnderWay')
        BY <2>2, <4>1, <4>2
      <4> QED
        BY <4>3
    <3>3. OneCookie'
      <4> SUFFICES ASSUME NEW u \in Requests, NEW v \in Requests,
                          Carries(req[u])', Late(req[u])', Carries(req[v])', Late(req[v])'
                   PROVE  /\ jar' # None => jar' = req'[u].cookie
                          /\ req'[v].cookie = req'[u].cookie
        BY DEF OneCookie
      <4>1. req'[u] = req[u] /\ req'[v] = req[v]
        BY <1>3, <2>3 DEF Carries
      <4>2. /\ Carries(req[u]) /\ Late(req[u])
            /\ Carries(req[v]) /\ Late(req[v])
        BY <1>0, <4>1 DEF Carries, Late
      <4> QED
        BY <1>6, <3>1, <4>1, <4>2 DEF Settled, OneCookie
    <3> QED
      BY <1>2, <2>1, <2>4, <2>5, <2>6, <3>2, <3>3 DEF Settled, Progress
  <2> QED
    BY <2>7, <2>8
<1> QED
  BY <1>5, <1>6 DEF Progress

-----------------------------------------------------------------------------
(* The middleware                                                          *)

(* The cookie of a request that comes to its dispatch is accepted as long  *)
(* as its refresh token is valid: the session it names is the one in the   *)
(* database, or was replaced within the grace period.                      *)
LEMMA CarriedAreAccepted ==
    ASSUME TimesFit, AInv, LocallyOK, Settled, NEW r \in Requests,
           req[r].step = "sent", req[r].cookie # None, RefreshValid(req[r].cookie)
    PROVE  Accepts(req[r].cookie)
<1> PICK c : c = req[r].cookie
  OBVIOUS
<1>1. Current(c) \/ (Replaced(c) /\ Early(req[r]))
  BY DEF Settled, CarriedOK, Carries
<1>2. None \notin SessionId
  BY AuthAssumption DEF SessionId
<1>3. CASE Current(c)
  BY <1>2, <1>3 DEF Current, Accepts
<1>4. CASE Replaced(c) /\ Early(req[r])
  <2>1. now <= req[r].sent + MaxFlight
    BY DEF LocallyOK, LocalOK
  <2>2. now - rotation.at <= GRACE
    BY <1>4, <2>1, Types DEF Early, TimesFit, Replaced
  <2>3. InGrace(c.session)
    BY <1>4, <2>2 DEF Replaced, InGrace, Settled, RotationOK
  <2>4. c.session # None
    BY <1>2, <1>4, Types DEF Replaced
  <2> QED
    BY <1>4, <2>3, <2>4 DEF Accepts, Replaced
<1> QED
  BY <1>1, <1>3, <1>4

(* A dispatch begins when nobody holds the event loop, so none is between  *)
(* Rotate and RecordRotation.                                              *)
LEMMA DispatchKeeps ==
    ASSUME TimesFit, AInv, LocallyOK, Progress, NEW r \in Requests, Dispatch(r)
    PROVE  LocallyOK' /\ Progress'
<1>0. /\ UNCHANGED <<session, rotation, jar, now>>
      /\ req[r].step = "sent" /\ loop = None
  BY DEF Dispatch
<1>1. NoSwap /\ Settled
  <2>1. NoSwap
    BY <1>0, AuthAssumption DEF AInv, TypeOK, NoSwap, Swaps
  <2> QED
    BY <2>1 DEF Progress, NoSwap
<1> PICK p, c : p = req[r] /\ c = p.cookie
  OBVIOUS
<1>2. LocalOK(p) /\ p.op = "call" /\ p.set = {} /\ ~ Renews(p) /\ p.code = "none"
  <2>1. LocalOK(p) /\ RequestOK(p)
    BY DEF LocallyOK, AInv, RequestsOK
  <2> QED
    BY <1>0, <2>1 DEF LocalOK, CallOK, RequestOK, Renews
<1>3. ASSUME NEW q, Becomes(r, q), LocalOK(q), q.step # "record",
             Carries(q) => Current(q.cookie) /\ q.cookie = c /\ q.sent = p.sent
                           /\ c # None,
             Renews(q) => Early(q) /\ q.user = session /\ q.set = {}
      PROVE  LocallyOK' /\ Progress'
  <2>1. LocallyOK'
    BY <1>0, <1>3, BecomesKeepsLocal
  <2>2. Carries(q) => Carries(p)
    BY <1>0, <1>3 DEF Carries
  <2>3. Settled'
    BY <1>0, <1>1, <1>2, <1>3, <2>2, BecomesKeepsSettled
  <2>4. NoSwap'
    BY <1>1, <1>3, BecomesKeepsNoSwap
  <2> QED
    BY <2>1, <2>3, <2>4 DEF Progress
<1>4. p.sent <= now /\ now <= p.sent + MaxFlight
  BY <1>0, <1>2 DEF LocalOK
<1>5. ASSUME NEW set, Answer(r, "unauthorized", set), set \subseteq {None},
             c # None => ~ RefreshValid(c)
      PROVE  LocallyOK' /\ Progress'
  <2> PICK q : q = Answered(r, "unauthorized", set)
    OBVIOUS
  <2>1. /\ q.step = "answered" /\ q.op = "call" /\ q.sent = p.sent /\ q.set = set
        /\ q.code = "unauthorized" /\ q.cookie = c
    BY DEF Answered, Idle
  <2>2. LocalOK(q)
    BY <1>4, <1>5, <2>1 DEF LocalOK, CallOK
  <2>3. Becomes(r, q)
    BY <1>5 DEF Answer
  <2> QED
    BY <1>3, <2>1, <2>2, <2>3 DEF Carries, Renews
<1>6. CASE c = None /\ Answer(r, "unauthorized", {})
  BY <1>5, <1>6
<1>7. CASE c # None /\ ~ Accepts(c) /\ Answer(r, "unauthorized", {None})
  <2>1. ~ RefreshValid(c)
    BY <1>0, <1>1, <1>7, CarriedAreAccepted
  <2> QED
    BY <1>5, <1>7, <2>1
<1> DEFINE rotates == ~ AccessValid(c) /\ c.session = session /\ p.op # "logout"
           qa == [p EXCEPT !.refresh = ~ AccessValid(c), !.user = session,
                           !.step = IF rotates THEN "rotate" ELSE "handle"]
<1>8. CASE c # None /\ Accepts(c) /\ Becomes(r, qa)
  <2>1. Current(c) \/ (Replaced(c) /\ Early(p))
    BY <1>0, <1>1, <1>8 DEF Settled, CarriedOK, Carries
  <2>2. PICK q : q = qa
    OBVIOUS
  <2>3. p \in Request
    BY Types
  <2>4. /\ q.refresh = ~ AccessValid(c) /\ q.user = session /\ q.op = p.op
        /\ q.step = IF rotates THEN "rotate" ELSE "handle"
        /\ q.cookie = c /\ q.sent = p.sent /\ q.set = {} /\ q.code = "none"
    BY <1>2, <2>2, <2>3 DEF Request
  <2> HIDE DEF qa
  <2>5. Becomes(r, q)
    BY <1>8, <2>2
  <2>6. CASE rotates
    <3>1. q.step = "rotate" /\ q.refresh
      BY <2>4, <2>6
    <3>2. LocalOK(q)
      BY <1>2, <1>4, <2>4, <2>6, <3>1 DEF LocalOK, CallOK
    <3>3. Current(c)
      BY <1>1, <2>1, <2>6 DEF Replaced, Settled, RotationOK
    <3>4. ~ Renews(q)
      BY <3>1 DEF Renews
    <3> QED
      BY <1>3, <1>8, <2>4, <2>5, <3>1, <3>2, <3>3, <3>4
  <2>7. CASE ~ rotates
    <3>1. q.step = "handle" /\ ~ Carries(q)
      BY <2>4, <2>7 DEF Carries
    <3>2. LocalOK(q)
      BY <1>2, <1>4, <2>4, <3>1 DEF LocalOK, CallOK
    <3>3. Renews(q) => Early(q)
      <4> SUFFICES ASSUME ~ AccessValid(c) PROVE Early(q)
        BY <2>4, <3>1 DEF Renews
      <4>1. c.session # session
        BY <1>2, <2>7
      <4>2. Early(p)
        BY <2>1, <4>1 DEF Current
      <4> QED
        BY <2>4, <4>2 DEF Early
    <3> QED
      BY <1>3, <2>4, <2>5, <3>1, <3>2, <3>3
  <2> QED
    BY <2>6, <2>7
<1> QED
  BY <1>6, <1>7, <1>8 DEF Dispatch

(* When an access token expires, all answers of the rotation before have   *)
(* arrived: the cookie that is replaced is the only one about.             *)
LEMMA RotateKeeps ==
    ASSUME TimesFit, AInv, LocallyOK, Progress, NEW r \in Requests, Rotate(r)
    PROVE  LocallyOK' /\ Progress'
<1>0. /\ UNCHANGED <<rotation, jar, now>> /\ req[r].step = "rotate"
      /\ session' = FreshSession
  BY DEF Rotate
<1> PICK p, c : p = req[r] /\ c = p.cookie
  OBVIOUS
<1> PICK q : q = [p EXCEPT !.user = FreshSession, !.step = "record"]
  OBVIOUS
<1>1. /\ p \in Request /\ LocalOK(p) /\ p.step = "rotate"
      /\ c \in Cookie /\ c # None
  BY <1>0, Types DEF LocallyOK, AInv, RequestsOK, RequestOK
<1>2. Becomes(r, q) /\ q.user = FreshSession /\ q.step = "record"
      /\ q.op = p.op /\ q.sent = p.sent /\ q.cookie = c /\ q.set = p.set
      /\ q.code = p.code /\ q.refresh = p.refresh
  BY <1>1 DEF Rotate, Request
<1>3. LocallyOK'
  <2>1. LocalOK(q)
    BY <1>1, <1>2 DEF LocalOK, CallOK
  <2> QED
    BY <1>0, <1>2, <2>1, BecomesKeepsLocal
<1>4. Settled
  <2>1. \A s \in Requests : ~ Swaps(s)
    <3> SUFFICES ASSUME NEW s \in Requests, req[s].step = "record" PROVE FALSE
      BY DEF Swaps
    <3>1. s = r
      BY <1>0, OneDispatch
    <3> QED
      BY <1>0, <3>1
  <2> QED
    BY <2>1 DEF Progress
<1>5. Current(c) /\ ~ AccessValid(c)
  <2>1. Carries(p)
    BY <1>1 DEF Carries
  <2> QED
    BY <1>1, <1>4, <2>1 DEF Settled, CarriedOK, LocalOK, CallOK
<1>6. FreshSession # session
  BY FreshIsFree DEF InUse
<1>7. rotation # None => now > rotation.at + 3 * MaxFlight
  BY <1>1, <1>5, Types DEF Current, AccessValid, TimesFit
<1>8. \A u \in Requests : ~ Renews(req[u])
  <2> SUFFICES ASSUME NEW u \in Requests, Renews(req[u]) PROVE FALSE
    OBVIOUS
  <2>1. rotation # None /\ now <= rotation.at + 2 * MaxFlight
    BY <1>4, RenewalsAreRecent
  <2> QED
    BY <1>7, <2>1, Types
<1>9. \A u \in Requests : Carries(req[u]) => Late(req[u])
  <2> SUFFICES ASSUME NEW u \in Requests, Carries(req[u]), rotation # None
               PROVE  req[u].sent > rotation.at + 2 * MaxFlight
    BY DEF Late
  <2>1. now <= req[u].sent + MaxFlight
    BY DEF Carries, LocallyOK, LocalOK
  <2> QED
    BY <1>7, <2>1, Types
<1>10. /\ jar \in {None, c}
       /\ \A u \in Requests : Carries(req[u]) => req[u].cookie = c
  <2>1. Carries(req[r])
    BY <1>1 DEF Carries
  <2> QED
    BY <1>4, <1>9, <2>1 DEF Settled, OneCookie
<1>11. req'[r] = q /\ \A u \in Requests : u # r => req'[u] = req[u]
  BY <1>2 DEF Becomes, AInv, TypeOK
<1>12. ASSUME NEW u \in Requests
       PROVE  (Carries(req[u])' => req'[u].cookie = c) /\ ~ Renews(req[u])'
  <2> PICK x : x = req'[u]
    OBVIOUS
  <2>1. (Carries(x) => x.cookie = c) /\ ~ Renews(x)
    BY <1>2, <1>8, <1>10, <1>11 DEF Renews
  <2>2. (Carries(x)' <=> Carries(x)) /\ (Renews(x)' <=> Renews(x))
    BY DEF Carries, Renews
  <2> QED
    BY <2>1, <2>2
<1>13. Swaps(r)' /\ SwappedBy(r)'
  <2>1. /\ req'[r].user = session' /\ req'[r].cookie = c
        /\ c.session # session' /\ jar' \in {None, c}
    BY <1>0, <1>2, <1>5, <1>6, <1>10, <1>11 DEF Current
  <2> QED
    BY <1>2, <1>11, <1>12, <2>1 DEF Swaps, SwappedBy
<1> QED
  BY <1>3, <1>13 DEF Progress

(* With the rotation recorded, everything about is within its grace        *)
(* period, and the request that rotated is about to set the new cookie.    *)
LEMMA RecordRotationKeeps ==
    ASSUME AInv, LocallyOK, Progress, NEW r \in Requests, RecordRotation(r)
    PROVE  LocallyOK' /\ Progress'
<1>0. UNCHANGED <<session, jar, now>> /\ req[r].step = "record"
  BY DEF RecordRotation
<1> PICK p, c : p = req[r] /\ c = p.cookie
  OBVIOUS
<1>1. Swaps(r) /\ SwappedBy(r)
  <2>1. PICK s \in Requests : Swaps(s) /\ SwappedBy(s)
    BY <1>0 DEF Progress, NoSwap, Swaps
  <2>2. s = r
    BY <1>0, <2>1, OneDispatch DEF Swaps
  <2> QED
    BY <2>1, <2>2
<1> PICK q : q = [p EXCEPT !.user = session, !.step = "handle"]
  OBVIOUS
<1>2. /\ p \in Request /\ LocalOK(p) /\ p.step = "record"
      /\ c \in Cookie /\ c # None /\ c.session \in SessionId
      /\ p.user \in SessionId /\ p.set = {}
  BY <1>0, Types DEF LocallyOK, AInv, RequestsOK, RequestOK
<1>3. Becomes(r, q) /\ q.user = session /\ q.step = "handle"
      /\ q.op = p.op /\ q.sent = p.sent /\ q.cookie = c /\ q.set = {}
      /\ q.code = p.code /\ q.refresh = p.refresh
  BY <1>2 DEF RecordRotation, Request
<1>4. LocallyOK'
  <2>1. LocalOK(q)
    BY <1>2, <1>3 DEF LocalOK, CallOK
  <2> QED
    BY <1>0, <1>3, <2>1, BecomesKeepsLocal
<1>5. p.refresh /\ ~ AccessValid(c) /\ p.sent <= now /\ now <= p.sent + MaxFlight
  BY <1>2 DEF LocalOK, CallOK
<1>6. p.user = session /\ c.session # session /\ jar \in {None, c}
  BY <1>1 DEF SwappedBy
<1>7. req'[r] = q /\ \A u \in Requests : u # r => req'[u] = req[u]
  BY <1>3 DEF Becomes, AInv, TypeOK
<1>8. None \notin SessionId /\ session \in SessionId
  BY <1>2, <1>6, AuthAssumption DEF SessionId
<1>9. /\ rotation'.current = session /\ rotation'.previous = c.session
      /\ rotation'.at = now /\ rotation' # None
  <2>1. rotation' = [current |-> session, previous |-> c.session, at |-> now]
    BY <1>6 DEF RecordRotation
  <2>2. rotation' \in Rotation
    BY <1>2, <1>8, <2>1 DEF Rotation, AInv, TypeOK
  <2> QED
    BY <2>1, <2>2, NoneAssumption
<1>10. Replaced(c)'
  BY <1>0, <1>5, <1>9 DEF Replaced, AccessValid
<1>11. Renews(q)
  BY <1>3, <1>5 DEF Renews
<1>12. ASSUME NEW u \in Requests, u # r
       PROVE  /\ ~ Renews(req[u])
              /\ Carries(req[u]) =>
                    req[u].step = "sent" /\ req[u].cookie = c /\ req[u].sent <= now
  <2>1. req[u].step # "rotate"
    BY <1>0, <1>12, OneDispatch
  <2> QED
    BY <1>1, <2>1 DEF SwappedBy, Carries, LocallyOK, LocalOK
<1>13. NoSwap'
  <2>1. \A u \in Requests : u # r => req[u].step # "record"
    BY <1>0, OneDispatch
  <2> QED
    BY <1>3, <1>7, <2>1 DEF NoSwap, Swaps
<1>14. RotationOK'
  BY <1>0, <1>6, <1>9, Types DEF RotationOK
<1>15. JarOK'
  <2>1. RotatorUnderWay'
    <3>1. Renews(req'[r]) /\ req'[r].sent <= rotation'.at
      BY <1>3, <1>5, <1>7, <1>9, <1>11
    <3> QED
      BY <3>1 DEF RotatorUnderWay, Renews
  <2>2. jar' # None => Replaced(jar)'
    <3> SUFFICES ASSUME jar' # None PROVE Replaced(jar)'
      OBVIOUS
    <3>1. jar' = c
      BY <1>0, <1>6
    <3> QED
      BY <1>10, <3>1 DEF Replaced, AccessValid
  <2> QED
    BY <2>1, <2>2 DEF JarOK
<1>16. CarriedOK'
  <2> SUFFICES ASSUME NEW u \in Requests, Carries(req[u])'
               PROVE  req'[u].step = "sent" /\ Replaced(req[u].cookie)' /\ Early(req[u])'
    BY DEF CarriedOK
  <2>1. u # r
    BY <1>3, <1>7 DEF Carries
  <2>2. Carries(req[u]) /\ req'[u] = req[u]
    BY <1>7, <2>1 DEF Carries
  <2>3. req[u].step = "sent" /\ req'[u].cookie = c /\ req[u].sent <= now
    BY <1>12, <2>1, <2>2
  <2>4. Early(req[u])'
    BY <1>9, <2>2, <2>3, Types DEF Early
  <2>5. Replaced(req[u].cookie)'
    BY <1>10, <2>3 DEF Replaced, AccessValid
  <2> QED
    BY <2>2, <2>3, <2>4, <2>5
<1>17. RenewalsOK'
  <2> SUFFICES ASSUME NEW u \in Requests, Renews(req[u])'
               PROVE  /\ Early(req[u])'
                      /\ req'[u].step = "handle" => req'[u].user = session'
                      /\ \A x \in req'[u].set : Current(x)'
    BY DEF RenewalsOK
  <2>1. u = r
    BY <1>7, <1>12 DEF Renews
  <2>2. req'[u] = q
    BY <1>7, <2>1
  <2>3. Early(req[u])'
    BY <1>3, <1>5, <1>9, <2>2, Types DEF Early
  <2> QED
    BY <1>0, <1>3, <2>2, <2>3
<1>18. OneCookie'
  <2> SUFFICES ASSUME NEW u \in Requests, Carries(req[u])', Late(req[u])'
               PROVE  FALSE
    BY DEF OneCookie
  <2>1. u # r
    BY <1>3, <1>7 DEF Carries
  <2>2. Carries(req[u]) /\ req'[u] = req[u]
    BY <1>7, <2>1 DEF Carries
  <2>3. req[u].sent <= now /\ req[u].sent > now + 2 * MaxFlight
    BY <1>9, <1>12, <2>1, <2>2 DEF Late
  <2> QED
    BY <2>3, Types
<1> QED
  BY <1>4, <1>13, <1>14, <1>15, <1>16, <1>17, <1>18 DEF Settled, Progress

-----------------------------------------------------------------------------
(* The endpoint, and time                                                  *)

LEMMA RespondKeeps ==
    ASSUME AInv, LocallyOK, Progress, NEW r \in Requests, Respond(r)
    PROVE  LocallyOK' /\ Progress'
<1>0. UNCHANGED <<session, rotation, jar, now>> /\ req[r].step = "handle"
  BY DEF Respond
<1> PICK p : p = req[r]
  OBVIOUS
<1> PICK set : set = IF p.refresh THEN {NewCookie(p.user)} ELSE {}
  OBVIOUS
<1> PICK q : q = Answered(r, "ok", set)
  OBVIOUS
<1>1. LocalOK(p) /\ (Renews(p) <=> p.refresh) /\ p.step = "handle"
  BY <1>0 DEF LocallyOK, Renews
<1>2. /\ Becomes(r, q)
      /\ q.step = "answered" /\ q.op = "call" /\ q.sent = p.sent /\ q.set = set
      /\ q.code = "ok" /\ q.cookie = None /\ ~ Carries(q)
  BY DEF Respond, Answer, Answered, Idle, Carries
<1>3. Renews(q) <=> Renews(p)
  BY <1>1, <1>2 DEF Renews
<1>4. LocallyOK'
  <2>1. LocalOK(q)
    BY <1>1, <1>2 DEF LocalOK, CallOK
  <2> QED
    BY <1>0, <1>2, <2>1, BecomesKeepsLocal
<1>5. CASE \E s \in Requests : Swaps(s) /\ SwappedBy(s)
  <2>1. PICK s \in Requests : Swaps(s) /\ SwappedBy(s)
    BY <1>5
  <2>2. r # s /\ ~ Renews(q)
    BY <1>0, <1>3, <2>1 DEF Swaps, SwappedBy
  <2>3. Swaps(s)' /\ SwappedBy(s)'
    BY <1>0, <1>2, <2>1, <2>2, BecomesKeepsSwapped
  <2> QED
    BY <1>4, <2>3 DEF Progress
<1>6. CASE NoSwap /\ Settled
  <2>1. Renews(q) => Early(q) /\ \A c \in q.set : Current(c)
    <3> SUFFICES ASSUME Renews(p), p.refresh PROVE Early(q) /\ \A c \in q.set : Current(c)
      BY <1>1, <1>3
    <3>1. Early(p) /\ p.user = session
      BY <1>1, <1>6 DEF Settled, RenewalsOK
    <3>2. Early(q) /\ rotation # None
      BY <1>2, <3>1 DEF Early
    <3>3. session \in SessionId /\ rotation.at <= now
      BY <1>6, <3>2, Types DEF Settled, RotationOK
    <3>4. Current(NewCookie(session))
      BY <3>3 DEF Current, NewCookie
    <3> QED
      BY <1>2, <3>1, <3>2, <3>4
  <2>2. Settled'
    BY <1>0, <1>2, <1>3, <1>6, <2>1, BecomesKeepsSettled
  <2>3. NoSwap'
    BY <1>2, <1>6, BecomesKeepsNoSwap
  <2> QED
    BY <1>4, <2>2, <2>3 DEF Progress
<1> QED
  BY <1>5, <1>6 DEF Progress

(* Time passes.                                                            *)
LEMMA TickKeeps ==
    ASSUME AInv, LocallyOK, Progress, Tick
    PROVE  LocallyOK' /\ Progress'
<1>0. /\ UNCHANGED <<session, rotation, jar, req>> /\ now' = now + 1
      /\ now' \in Int /\ now <= now'
  BY Types DEF Tick
<1>1. LocallyOK'
  <2>1. ASSUME NEW u \in Requests PROVE LocalOK(req[u])'
    <3> PICK p, c : p = req[u] /\ c = p.cookie
      OBVIOUS
    <3>1. LocalOK(p) /\ RequestOK(p) /\ (c # None => c \in Cookie) /\ p.sent \in Int
      BY Types DEF LocallyOK, AInv, RequestsOK
    <3>2. p.step # "idle" => now < p.sent + MaxFlight
      BY DEF Tick
    <3>3. p.step # "idle" => p.sent <= now' /\ now' <= p.sent + MaxFlight
      BY <1>0, <3>1, <3>2, Types DEF LocalOK
    <3>4. CallOK(p)'
      <4>1. p.step \in {"rotate", "record"} => c \in Cookie /\ ~ AccessValid(c)
        BY <3>1 DEF LocalOK, CallOK, RequestOK
      <4>2. p.step \in {"rotate", "record"} => ~ AccessValid(c)'
        BY <1>0, <4>1, CookiesAge
      <4> QED
        BY <3>1, <4>2 DEF LocalOK, CallOK, AccessValid
    <3>5. p.code = "unauthorized" /\ c # None => ~ RefreshValid(c)'
      BY <1>0, <3>1, CookiesAge DEF LocalOK
    <3>6. LocalOK(p)'
      BY <3>3, <3>4, <3>5 DEF LocalOK, RefreshValid
    <3>7. p = req'[u]
      BY <1>0
    <3> QED
      BY <3>6, <3>7 DEF LocalOK, CallOK, AccessValid, RefreshValid
  <2> QED
    BY <2>1 DEF LocallyOK
<1>2. CASE \E s \in Requests : Swaps(s) /\ SwappedBy(s)
  BY <1>0, <1>1, <1>2 DEF Progress, Swaps, SwappedBy, Carries, Renews
<1>3. CASE NoSwap /\ Settled
  <2>1. \A c \in Cookie : /\ Current(c)' <=> Current(c)
                          /\ Replaced(c) => Replaced(c)'
    BY <1>0, CookiesAge
  <2>2. /\ NoSwap' /\ OneCookie' /\ (RotatorUnderWay' <=> RotatorUnderWay)
    BY <1>0, <1>3 DEF NoSwap, Swaps, Settled, OneCookie, RotatorUnderWay,
                      Carries, Renews, Late
  <2>3. RotationOK'
    BY <1>0, <1>3, Types DEF Settled, RotationOK
  <2>4. JarOK'
    <3> SUFFICES ASSUME jar # None
                 PROVE  Current(jar)' \/ (Replaced(jar)' /\ RotatorUnderWay')
      BY <1>0 DEF JarOK
    <3> PICK c : c = jar
      OBVIOUS
    <3>1. Current(c)' \/ (Replaced(c)' /\ RotatorUnderWay')
      BY <1>3, <2>1, <2>2, Types DEF Settled, JarOK
    <3>2. c = jar'
      BY <1>0
    <3> QED
      BY <3>1, <3>2 DEF Current, Replaced, AccessValid
  <2>5. CarriedOK'
    <3> SUFFICES ASSUME NEW u \in Requests, Carries(req[u])'
                 PROVE  \/ Current(req[u].cookie)'
                        \/ req'[u].step = "sent" /\ Replaced(req[u].cookie)' /\ Early(req[u])'
      BY DEF CarriedOK
    <3> PICK p, c : p = req'[u] /\ c = p.cookie
      OBVIOUS
    <3>1. Carries(p) /\ p = req[u]
      BY <1>0 DEF Carries
    <3>2. c \in Cookie
      BY <3>1, Types DEF Carries
    <3>3. Current(c)' \/ (p.step = "sent" /\ Replaced(c)' /\ Early(p)')
      BY <1>0, <1>3, <2>1, <3>1, <3>2 DEF Settled, CarriedOK, Early
    <3> QED
      BY <3>3
  <2>6. RenewalsOK'
    <3> SUFFICES ASSUME NEW u \in Requests, Renews(req[u])'
                 PROVE  /\ Early(req[u])'
                        /\ req'[u].step = "handle" => req'[u].user = session'
                        /\ \A c \in req'[u].set : Current(c)'
      BY DEF RenewalsOK
    <3>1. Renews(req[u]) /\ req'[u] = req[u]
      BY <1>0 DEF Renews
    <3>2. /\ Early(req[u])
          /\ req[u].step = "handle" => req[u].user = session
          /\ \A c \in req[u].set : Current(c)
      BY <1>3, <3>1 DEF Settled, RenewalsOK
    <3>3. \A c : Current(c) => Current(c)'
      BY <1>0 DEF Current
    <3> QED
      BY <1>0, <3>1, <3>2, <3>3 DEF Early
  <2> QED
    BY <1>1, <2>2, <2>3, <2>4, <2>5, <2>6 DEF Settled, Progress
<1> QED
  BY <1>2, <1>3 DEF Progress

-----------------------------------------------------------------------------
(* The initial states                                                      *)
LEMMA InitTInv == ASSUME Ordinary, Init PROVE TInv
<1>1. AInv
  BY InitAInv
<1>2. \A r \in Requests : req[r] = Idle
  BY DEF Init
<1>3. /\ Idle.step = "idle" /\ Idle.code = "none" /\ Idle.op = "call"
      /\ ~ Carries(Idle) /\ ~ Renews(Idle)
  BY DEF Idle, Carries, Renews
<1>4. LocallyOK
  BY <1>2, <1>3 DEF LocallyOK, LocalOK, CallOK
<1>5. NoSwap
  BY <1>2, <1>3 DEF NoSwap, Swaps
<1>6. JarOK
  <2>1. jar # None => jar = [session |-> 1, issued |-> 0] /\ session = 1
    BY DEF Init
  <2>2. rotation = None /\ 1 \in SessionId
    BY <1>1, FreshIsFree, AuthAssumption DEF Init, SessionId
  <2> QED
    BY <2>1, <2>2 DEF JarOK, Current
<1>7. CarriedOK /\ RenewalsOK /\ OneCookie
  BY <1>2, <1>3 DEF CarriedOK, RenewalsOK, OneCookie
<1>8. RotationOK
  BY DEF Init, RotationOK
<1> QED
  BY <1>1, <1>4, <1>5, <1>6, <1>7, <1>8 DEF TInv, Progress, Settled

(* Every step of a browser that makes ordinary requests                    *)
LEMMA NextTInv == ASSUME Ordinary, TimesFit, TInv, [Next]_vars PROVE TInv'
<1>1. AInv /\ LocallyOK /\ Progress
  BY DEF TInv
<1>2. AInv'
  BY <1>1, NextAInv
<1>3. ~ Failures
  BY DEF Ordinary
<1>4. ASSUME NEW r \in Requests
      PROVE  ~ (Logout(r) \/ Register(r) \/ RegisterInsert(r) \/ Login(r)
                \/ LoginReload(r) \/ Fail(r))
  <2>1. req[r].op = "call" /\ req[r].step \notin {"insert", "reload"}
    BY <1>1 DEF LocallyOK, LocalOK, CallOK
  <2> QED
    BY <1>3, <2>1 DEF Logout, Register, RegisterInsert, Login, LoginReload, Fail
<1>5. CASE \E r \in Requests : Send(r) \/ Dispatch(r) \/ Serve(r) \/ Fail(r) \/ Deliver(r)
  <2>1. PICK r \in Requests : Send(r) \/ Dispatch(r) \/ Serve(r) \/ Fail(r) \/ Deliver(r)
    BY <1>5
  <2>2. CASE Send(r)
    BY <1>1, <1>2, <2>2, SendKeeps DEF TInv
  <2>3. CASE Dispatch(r)
    BY <1>1, <1>2, <2>3, DispatchKeeps DEF TInv
  <2>4. CASE Serve(r)
    BY <1>1, <1>2, <1>4, <2>4, RotateKeeps, RecordRotationKeeps, RespondKeeps
       DEF Serve, TInv
  <2>5. CASE Deliver(r)
    BY <1>1, <1>2, <2>5, DeliverKeeps DEF TInv
  <2> QED
    BY <1>4, <2>1, <2>2, <2>3, <2>4, <2>5
<1>6. CASE Restart
  BY <1>3, <1>6 DEF Restart
<1>7. CASE Tick
  BY <1>1, <1>2, <1>7, TickKeeps DEF TInv
<1>8. CASE UNCHANGED vars
  <2>1. LocallyOK'
    BY <1>1, <1>8 DEF vars, LocallyOK, LocalOK, CallOK, AccessValid, RefreshValid
  <2>2. Progress'
    BY <1>1, <1>8 DEF vars, Progress, NoSwap, Settled, Swaps, SwappedBy,
       JarOK, CarriedOK, RenewalsOK, RotationOK, OneCookie, RotatorUnderWay,
       Carries, Renews, Current, Replaced, Early, Late, AccessValid
  <2> QED
    BY <1>2, <2>1, <2>2 DEF TInv
<1> QED
  BY <1>5, <1>6, <1>7, <1>8 DEF Next

(* Every reachable state of a browser that makes ordinary requests is      *)
(* settled, or a request is replacing the one session that is about.       *)
THEOREM RefreshInvariance == ASSUME Ordinary, TimesFit PROVE Spec => []TInv
<1>1. Init => TInv
  BY InitTInv
<1>2. TInv /\ [Next]_vars => TInv'
  BY NextTInv
<1> QED
  BY <1>1, <1>2, PTL DEF Spec

(* A browser whose ordinary requests overlap in any way is never told to   *)
(* log in again before its refresh token has expired (AuthMiddleware,      *)
(* _grace_user): a cookie that was replaced is only ever seen within the   *)
(* grace period.                                                           *)
THEOREM OrdinaryRequestsStayLoggedIn ==
    ASSUME Ordinary, TimesFit PROVE Spec => []NoSpuriousLogout
<1>1. TInv => NoSpuriousLogout
  BY DEF TInv, LocallyOK, LocalOK, NoSpuriousLogout
<1> QED
  BY <1>1, RefreshInvariance, PTL

(* Once all answers have arrived, in whatever order, the browser holds a   *)
(* cookie for the session in the database: no answer that overtakes        *)
(* another puts a replaced session back.                                   *)
THEOREM BrowserHasTheSession ==
    ASSUME Ordinary, TimesFit PROVE Spec => []BrowserKeepsUp
<1>1. TInv => BrowserKeepsUp
  <2> SUFFICES ASSUME TInv, \A r \in Requests : req[r].step = "idle", jar # None
               PROVE  jar.session = session
    BY DEF BrowserKeepsUp
  <2>1. ~ RotatorUnderWay
    BY DEF RotatorUnderWay, Renews
  <2>2. Settled
    BY DEF TInv, Progress, Swaps
  <2> QED
    BY <2>1, <2>2 DEF Settled, JarOK, Current
<1> QED
  BY <1>1, RefreshInvariance, PTL
=============================================================================
