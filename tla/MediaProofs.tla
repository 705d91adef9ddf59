----------------------------- MODULE MediaProofs -----------------------------
(***************************************************************************)
(* What Media guarantees for any number of requests, venues and files,     *)
(* however they overlap, share images, fail or are cut off: which files of *)
(* a row may be missing, and which files may be left behind.               *)
(***************************************************************************)
EXTENDS Media, TLAPS

(***************************************************************************)
(* The strengthening.  What a row names has been named, and a name that    *)
(* was not given out twice is in one row; ...                              *)
(***************************************************************************)
RowsOK ==
    /\ \A v \in DOMAIN rows : Files \cap rows[v].images \subseteq named
    /\ \A v, w \in DOMAIN rows : \A f \in Files \ reused :
            f \in rows[v].images /\ f \in rows[w].images => v = w

(* ... what a request has unlinked is not on disk any more, and only an    *)
(* upload writes files; ...                                                *)
FilesOK(r) ==
    /\ Files \cap req[r].images \subseteq 1..written
    /\ Files \cap req[r].loaded \subseteq named
    /\ req[r].gone \cap disk = {}
    /\ req[r].left # 0 => req[r].op = "upload"
    /\ req[r].op = "upload" => req[r].images \subseteq Files

(* what it unlinks are images that it has loaded, namely all those that    *)
(* its commit drops, ...                                                   *)
UnlinksOK(r) ==
    /\ req[r].todo \cup req[r].gone \subseteq Files \cap req[r].loaded
    /\ req[r].op \notin {"update", "delete"} => req[r].todo \cup req[r].gone = {}
    /\ req[r].op = "update" =>
          req[r].todo \cup req[r].gone
             = IF "images" \in req[r].write
               THEN Files \cap (req[r].loaded \ req[r].images) ELSE {}
    /\ req[r].op = "delete" =>
          req[r].todo \cup req[r].gone = Files \cap req[r].loaded

(* ... and no other row has it, unless the name was given out twice.       *)
LoadedOK(r) ==
    \A f \in (Files \cap req[r].loaded) \ reused : \A w \in DOMAIN rows :
        f \in rows[w].images => w = req[r].venue

RequestOK(r) == FilesOK(r) /\ UnlinksOK(r) /\ LoadedOK(r)

RequestsOK == \A r \in Requests : RequestOK(r)

IInv ==
    /\ TypeOK /\ RowsOK /\ RequestsOK
    /\ MissingOnlyIfTorn /\ OrphansWereLost /\ NewUploadsStay

(* What every step has in common: no history is forgotten, no file comes   *)
(* back, and what a row gains was not named before or is in reused.        *)
Gains ==
    /\ 1..written \subseteq 1..written'
    /\ named \subseteq named' /\ reused \subseteq reused'
    /\ disk' \cap (1..written) \subseteq disk
    /\ \A w \in DOMAIN rows' : \A f \in Files \cap rows'[w].images :
            \/ w \in DOMAIN rows /\ f \in rows[w].images
            \/ f \notin named
            \/ f \in reused'

-----------------------------------------------------------------------------
(* Lemmas about requests                                                   *)

(* The fields of a request                                                 *)
LEMMA TypesOfOne ==
    ASSUME TypeOK, NEW r \in Requests
    PROVE  /\ req[r] \in Request
           /\ req[r].op \in {"none", "upload", "create", "update", "delete"}
           /\ req[r].left \in 0..MaxImages /\ req[r].venue \in VenueIds \cup {0}
           /\ req[r].loaded \subseteq Names /\ req[r].images \subseteq Names
           /\ req[r].closed \in BOOLEAN /\ req[r].write \subseteq {"images", "closed"}
           /\ req[r].todo \subseteq Files /\ req[r].gone \subseteq Files
           /\ written \in Nat /\ 1..written \subseteq Files
  BY MediaAssumption DEF TypeOK, Request, Files

(* The request of nobody                                                   *)
LEMMA IdleIsRequest == Idle \in Request
  BY MediaAssumption DEF Idle, Request

(* A free slot satisfies what is required of requests.                     *)
LEMMA IdleIsOK ==
    ASSUME NEW r \in Requests, req'[r] = Idle
    PROVE  RequestOK(r)'
  BY DEF RequestOK, FilesOK, UnlinksOK, LoadedOK, Idle

(* No step of another request breaks what is required of this one.         *)
LEMMA OthersStayOK ==
    ASSUME TypeOK, Gains, NEW s \in Requests, RequestOK(s), req'[s] = req[s]
    PROVE  RequestOK(s)'
<1>1. FilesOK(s)'
  BY TypesOfOne DEF Gains, RequestOK, FilesOK, UnlinksOK, TypeOK
<1>2. UnlinksOK(s)'
  BY DEF RequestOK, UnlinksOK
<1>3. LoadedOK(s)'
  BY DEF RequestOK, FilesOK, LoadedOK, Gains
<1> QED
  BY <1>1, <1>2, <1>3 DEF RequestOK

(* A request that starts changes nothing else.                             *)
LEMMA StartKeepsInv ==
    ASSUME IInv, NEW r \in Requests, NEW q \in Request, Start(r, q),
           UNCHANGED <<rows, disk, written, given, history>>,
           RequestOK(r)'
    PROVE  IInv'
<1>1. /\ req' \in [Requests -> Request] /\ req'[r] = q
      /\ \A s \in Requests \ {r} : req'[s] = req[s]
      /\ UNCHANGED <<named, torn, lost, reused>>
  BY DEF IInv, TypeOK, Start, history
<1>2. TypeOK'
  BY <1>1 DEF IInv, TypeOK
<1>3. RequestsOK'
  <2>1. Gains
    BY DEF Gains, history
  <2> QED
    BY <1>1, <2>1, OthersStayOK DEF IInv, RequestsOK
<1>4. MissingOnlyIfTorn'
  <2>1. req[r].gone = {}
    BY DEF IInv, RequestsOK, RequestOK, UnlinksOK, Start, Free
  <2> QED
    BY <1>1, <2>1 DEF IInv, MissingOnlyIfTorn
<1> QED
  BY <1>1, <1>2, <1>3, <1>4
     DEF IInv, RowsOK, OrphansWereLost, NewUploadsStay, Named

-----------------------------------------------------------------------------
(* Uploads                                                                 *)

(* The beginning of an upload                                              *)
LEMMA StartUploadKeepsInv ==
    ASSUME IInv, NEW r \in Requests, StartUpload(r)
    PROVE  IInv'
<1>1. PICK n \in 1..MaxImages : Start(r, [Idle EXCEPT !.op = "upload", !.left = n])
  BY DEF StartUpload
<1> DEFINE q == [Idle EXCEPT !.op = "upload", !.left = n]
<1>2. q \in Request
  <2>1. n \in 0..MaxImages
    BY MediaAssumption
  <2> QED
    BY <2>1, IdleIsRequest DEF Request
<1>3. /\ q.op = "upload" /\ q.images = {} /\ q.loaded = {}
      /\ q.todo = {} /\ q.gone = {}
  BY DEF Idle
<1>5. req'[r] = q
  BY <1>1 DEF Start, IInv, TypeOK
<1>4. RequestOK(r)'
  <2> HIDE DEF q
  <2> QED
    BY <1>3, <1>5 DEF RequestOK, FilesOK, UnlinksOK, LoadedOK
<1> QED
  BY <1>1, <1>2, <1>4, StartKeepsInv DEF StartUpload

(* A file that is written has a name of its own.                           *)
LEMMA StoreImageKeepsInv ==
    ASSUME IInv, NEW r \in Requests, StoreImage(r)
    PROVE  IInv'
<1>1. /\ written \in Nat /\ written' = written + 1 /\ written' \in Files
      /\ 1..written' = (1..written) \cup {written'} /\ written' \notin 1..written
      /\ 1..written \subseteq Files /\ written' \in 0..MaxFiles
  BY MediaAssumption DEF IInv, TypeOK, StoreImage, Files
<1>2. /\ disk' = disk \cup {written'} /\ rows' = rows /\ given' = given
      /\ UNCHANGED <<named, torn, lost, reused>>
  BY DEF StoreImage, history
<1>3. /\ req' \in [Requests -> Request]
      /\ req'[r].images = req[r].images \cup {written'}
      /\ req'[r].op = req[r].op /\ req'[r].loaded = req[r].loaded
      /\ req'[r].todo = req[r].todo /\ req'[r].gone = req[r].gone
      /\ req'[r].write = req[r].write /\ req'[r].venue = req[r].venue
      /\ \A s \in Requests \ {r} : req'[s] = req[s]
  <2>1. /\ req[r] \in Request /\ req[r].left - 1 \in 0..MaxImages
        /\ req[r].images \cup {written'} \subseteq Names
    BY <1>1, TypesOfOne, MediaAssumption DEF StoreImage, IInv, Names
  <2>2. [req[r] EXCEPT !.left = @ - 1, !.images = @ \cup {written'}] \in Request
    BY <2>1 DEF Request
  <2>3. req' = [req EXCEPT ![r] = [req[r] EXCEPT !.left = @ - 1,
                                                !.images = @ \cup {written'}]]
    BY DEF StoreImage, IInv, TypeOK
  <2> QED
    BY <2>1, <2>2, <2>3 DEF IInv, TypeOK, Request
<1>4. TypeOK'
  BY <1>1, <1>2, <1>3 DEF IInv, TypeOK
<1>5. Gains
  BY <1>1, <1>2 DEF Gains
<1>6. RequestsOK'
  <2> SUFFICES RequestOK(r)'
    BY <1>3, <1>5, OthersStayOK DEF IInv, RequestsOK
  <2>1. RequestOK(r) /\ req[r].gone \subseteq 1..written
    BY DEF IInv, RequestsOK, RequestOK, UnlinksOK, FilesOK, TypeOK
  <2>2. FilesOK(r)'
    <3>1. req[r].op = "upload"
      BY <2>1, TypesOfOne, MediaAssumption DEF StoreImage, IInv, RequestOK, FilesOK
    <3> QED
      BY <1>1, <1>2, <1>3, <2>1, <3>1 DEF RequestOK, FilesOK
  <2>3. UnlinksOK(r)'
    <3>1. req[r].op = "upload"
      BY <2>1, TypesOfOne, MediaAssumption DEF StoreImage, IInv, RequestOK, FilesOK
    <3> QED
      BY <1>3, <2>1, <3>1 DEF RequestOK, UnlinksOK
  <2>4. LoadedOK(r)'
    BY <1>2, <1>3, <2>1 DEF RequestOK, LoadedOK
  <2> QED
    BY <2>2, <2>3, <2>4 DEF RequestOK
<1>7. RowsOK' /\ OrphansWereLost' /\ NewUploadsStay'
  BY <1>1, <1>2
     DEF IInv, TypeOK, RowsOK, OrphansWereLost, NewUploadsStay, Named
<1>8. MissingOnlyIfTorn'
  BY <1>1, <1>2, <1>3 DEF IInv, MissingOnlyIfTorn
<1> QED
  BY <1>4, <1>6, <1>7, <1>8 DEF IInv

(* A refused upload leaves its files where they are.                       *)
LEMMA RefuseImageKeepsInv ==
    ASSUME IInv, NEW r \in Requests, RefuseImage(r)
    PROVE  IInv'
<1>1. /\ UNCHANGED <<rows, disk, written, given, named, torn, lost, reused>>
      /\ req' \in [Requests -> Request] /\ req'[r] = Idle
      /\ \A s \in Requests \ {r} : req'[s] = req[s]
  BY IdleIsRequest DEF RefuseImage, End, history, IInv, TypeOK
<1>2. req[r].gone = {}
  BY TypesOfOne, MediaAssumption
     DEF RefuseImage, IInv, RequestsOK, RequestOK, FilesOK, UnlinksOK
<1>3. Gains
  BY <1>1 DEF Gains
<1>4. RequestsOK'
  BY <1>1, <1>3, IdleIsOK, OthersStayOK DEF IInv, RequestsOK
<1>5. MissingOnlyIfTorn'
  BY <1>1, <1>2 DEF IInv, MissingOnlyIfTorn
<1> QED
  BY <1>1, <1>4, <1>5
     DEF IInv, TypeOK, RowsOK, OrphansWereLost, NewUploadsStay, Named

(* The names of an upload's files are known from now on.                   *)
LEMMA ReturnUrlsKeepsInv ==
    ASSUME IInv, NEW r \in Requests, ReturnUrls(r)
    PROVE  IInv'
<1>1. /\ UNCHANGED <<rows, disk, written, named, torn, lost, reused>>
      /\ req' \in [Requests -> Request] /\ req'[r] = Idle
      /\ \A s \in Requests \ {r} : req'[s] = req[s]
      /\ given' = given \cup req[r].images
  BY IdleIsRequest DEF ReturnUrls, End, history, IInv, TypeOK
<1>2. req[r].gone = {} /\ req[r].images \subseteq 1..written
  BY DEF ReturnUrls, IInv, RequestsOK, RequestOK, FilesOK, UnlinksOK
<1>3. Gains
  BY <1>1 DEF Gains
<1>4. RequestsOK'
  BY <1>1, <1>3, IdleIsOK, OthersStayOK DEF IInv, RequestsOK
<1>5. MissingOnlyIfTorn'
  BY <1>1, <1>2 DEF IInv, MissingOnlyIfTorn
<1> QED
  BY <1>1, <1>2, <1>4, <1>5
     DEF IInv, TypeOK, RowsOK, OrphansWereLost, NewUploadsStay, Named

-----------------------------------------------------------------------------
(* Requests about venues, up to the commit                                 *)

(* A payload names files that uploads have returned.                       *)
LEMMA PayloadTypes ==
    ASSUME TypeOK, NEW images \in Payloads
    PROVE  images \subseteq Names /\ Files \cap images \subseteq 1..written
  BY MediaAssumption DEF TypeOK, Payloads, Names, Files

(* What loading a row yields                                               *)
LEMMA LoadedRow ==
    ASSUME TypeOK, NEW v \in DOMAIN rows, NEW op \in {"update", "delete"}
    PROVE  /\ Loaded(op, v) \in Request /\ v \in VenueIds
           /\ rows[v].images \subseteq Names /\ rows[v].closed \in BOOLEAN
           /\ Loaded(op, v).op = op /\ Loaded(op, v).venue = v
           /\ Loaded(op, v).loaded = rows[v].images
           /\ Loaded(op, v).images = rows[v].images
           /\ Loaded(op, v).left = 0 /\ Loaded(op, v).gone = {}
<1>1. v \in VenueIds /\ rows[v].images \subseteq Names /\ rows[v].closed \in BOOLEAN
  BY DEF TypeOK, Row
<1>2. Idle.left = 0 /\ Idle.gone = {}
  BY DEF Idle
<1>3. Loaded(op, v) \in Request
  BY <1>1, IdleIsRequest DEF Loaded, Request
<1> QED
  BY <1>1, <1>2, <1>3, IdleIsRequest DEF Loaded, Request

(* A loaded row has been named, and what it names is in no other row.      *)
LEMMA LoadedOKAtFirst ==
    ASSUME IInv, NEW r \in Requests, NEW v \in DOMAIN rows,
           req'[r].loaded = rows[v].images, req'[r].venue = v,
           UNCHANGED <<rows, named, reused>>
    PROVE  LoadedOK(r)' /\ Files \cap req'[r].loaded \subseteq named'
  BY DEF IInv, RowsOK, LoadedOK

(* create_venue as it is accepted                                          *)
LEMMA CreateVenueKeepsInv ==
    ASSUME IInv, NEW r \in Requests, CreateVenue(r)
    PROVE  IInv'
<1>1. PICK images \in Payloads, closed \in BOOLEAN :
        Start(r, [Idle EXCEPT !.op = "create", !.images = images,
                              !.closed = closed])
  BY DEF CreateVenue
<1> DEFINE q == [Idle EXCEPT !.op = "create", !.images = images,
                             !.closed = closed]
<1>2. images \subseteq Names /\ Files \cap images \subseteq 1..written
  BY PayloadTypes DEF IInv
<1>3. q \in Request
  BY <1>2, IdleIsRequest DEF Request
<1>4. /\ q.op = "create" /\ q.images = images /\ q.loaded = {}
      /\ q.todo = {} /\ q.gone = {} /\ q.left = 0
  BY DEF Idle
<1>5. req'[r] = q /\ written' = written
  BY <1>1 DEF Start, IInv, TypeOK, CreateVenue
<1>6. RequestOK(r)'
  <2> HIDE DEF q
  <2> QED
    BY <1>2, <1>4, <1>5 DEF RequestOK, FilesOK, UnlinksOK, LoadedOK
<1> QED
  BY <1>1, <1>3, <1>6, StartKeepsInv DEF CreateVenue

(* update_venue as it is accepted: it will unlink what is not in the       *)
(* payload                                                                 *)
LEMMA UpdateVenueKeepsInv ==
    ASSUME IInv, NEW r \in Requests, UpdateVenue(r)
    PROVE  IInv'
<1> DEFINE q(v, closed, write, images) ==
        [Loaded("update", v) EXCEPT
            !.images = images, !.closed = closed, !.write = write,
            !.todo = Files \cap (rows[v].images \ images)]
<1>1. PICK v \in DOMAIN rows, closed \in BOOLEAN,
           write \in SUBSET {"images", "closed"},
           images \in Payloads \cup {x.images : x \in Range(rows)} :
        /\ IF "images" \in write THEN images \in Payloads
                                 ELSE images = rows[v].images
        /\ Start(r, q(v, closed, write, images))
  BY DEF UpdateVenue
<1> DEFINE n == q(v, closed, write, images)
<1>2. images \subseteq Names /\ Files \cap images \subseteq 1..written
  <2>1. Files \cap rows[v].images \subseteq 1..written /\ rows[v].images \subseteq Names
    BY DEF IInv, RowsOK, TypeOK, Row
  <2> QED
    BY <1>1, <2>1, PayloadTypes DEF IInv
<1>3. /\ Loaded("update", v) \in Request
      /\ Loaded("update", v).op = "update" /\ Loaded("update", v).venue = v
      /\ Loaded("update", v).loaded = rows[v].images
      /\ Loaded("update", v).left = 0 /\ Loaded("update", v).gone = {}
  BY LoadedRow DEF IInv
<1>4. n \in Request
  BY <1>2, <1>3 DEF Request
<1>5. /\ n.op = "update" /\ n.venue = v /\ n.loaded = rows[v].images
      /\ n.images = images /\ n.write = write /\ n.left = 0 /\ n.gone = {}
      /\ n.todo = Files \cap (rows[v].images \ images)
  BY <1>3 DEF Request
<1>6. req'[r] = n /\ UNCHANGED <<rows, written, named, reused>>
  BY <1>1 DEF Start, IInv, TypeOK, UpdateVenue, history
<1>7. RequestOK(r)'
  <2> HIDE DEF n
  <2>1. LoadedOK(r)' /\ Files \cap req'[r].loaded \subseteq named'
    BY <1>5, <1>6, LoadedOKAtFirst
  <2>2. FilesOK(r)'
    BY <1>2, <1>5, <1>6, <2>1 DEF FilesOK
  <2>3. UnlinksOK(r)'
    <3>1. "images" \notin write => n.todo = {}
      BY <1>1, <1>5
    <3>2. n.todo \cup n.gone = n.todo /\ n.todo \subseteq Files \cap n.loaded
      BY <1>5
    <3> QED
      BY <1>5, <1>6, <3>1, <3>2 DEF UnlinksOK
  <2> QED
    BY <2>1, <2>2, <2>3 DEF RequestOK
<1>8. Start(r, n)
  BY <1>1
<1> QED
  BY <1>4, <1>7, <1>8, StartKeepsInv DEF UpdateVenue

(* delete_venue as it is accepted: it will unlink all that it has loaded   *)
LEMMA DeleteVenueKeepsInv ==
    ASSUME IInv, NEW r \in Requests, DeleteVenue(r)
    PROVE  IInv'
<1>1. PICK v \in DOMAIN rows :
        Start(r, [Loaded("delete", v) EXCEPT !.todo = Files \cap rows[v].images])
  BY DEF DeleteVenue
<1> DEFINE n == [Loaded("delete", v) EXCEPT !.todo = Files \cap rows[v].images]
<1>2. /\ Loaded("delete", v) \in Request
      /\ Loaded("delete", v).op = "delete" /\ Loaded("delete", v).venue = v
      /\ Loaded("delete", v).loaded = rows[v].images
      /\ Loaded("delete", v).images = rows[v].images
      /\ Loaded("delete", v).left = 0 /\ Loaded("delete", v).gone = {}
  BY LoadedRow DEF IInv
<1>3. n \in Request
  BY <1>2 DEF Request
<1>4. /\ n.op = "delete" /\ n.venue = v /\ n.loaded = rows[v].images
      /\ n.images = rows[v].images /\ n.left = 0 /\ n.gone = {}
      /\ n.todo = Files \cap rows[v].images
  BY <1>2 DEF Request
<1>5. req'[r] = n /\ UNCHANGED <<rows, written, named, reused>>
  BY <1>1 DEF Start, IInv, TypeOK, DeleteVenue, history
<1>6. Files \cap rows[v].images \subseteq 1..written
  BY DEF IInv, RowsOK, TypeOK
<1>7. RequestOK(r)'
  <2> HIDE DEF n
  <2>1. LoadedOK(r)' /\ Files \cap req'[r].loaded \subseteq named'
    BY <1>4, <1>5, LoadedOKAtFirst
  <2>2. FilesOK(r)'
    BY <1>4, <1>5, <1>6, <2>1 DEF FilesOK
  <2>3. UnlinksOK(r)'
    BY <1>4, <1>5 DEF UnlinksOK
  <2> QED
    BY <2>1, <2>2, <2>3 DEF RequestOK
<1>8. Start(r, n)
  BY <1>1
<1> QED
  BY <1>3, <1>7, <1>8, StartKeepsInv DEF DeleteVenue

(* A file goes that the request has loaded from its venue: only that row,  *)
(* or one that shares the name, misses it.                                 *)
LEMMA UnlinkKeepsInv ==
    ASSUME IInv, NEW r \in Requests, Unlink(r)
    PROVE  IInv'
<1>1. PICK f \in req[r].todo :
        /\ disk' = disk \ {f}
        /\ req' = [req EXCEPT ![r].todo = @ \ {f}, ![r].gone = @ \cup {f}]
  BY DEF Unlink
<1>2. UNCHANGED <<rows, written, given, named, torn, lost, reused>>
  BY DEF Unlink, history
<1>3. /\ req[r] \in Request /\ req[r].todo \subseteq Files /\ req[r].gone \subseteq Files
      /\ f \in Files \cap req[r].loaded /\ f \in named
      /\ f \notin reused => \A w \in DOMAIN rows :
                                f \in rows[w].images => w = req[r].venue
  BY TypesOfOne
     DEF IInv, RequestsOK, RequestOK, FilesOK, UnlinksOK, LoadedOK
<1>4. /\ req' \in [Requests -> Request]
      /\ req'[r].todo = req[r].todo \ {f} /\ req'[r].gone = req[r].gone \cup {f}
      /\ req'[r].op = req[r].op /\ req'[r].loaded = req[r].loaded
      /\ req'[r].images = req[r].images /\ req'[r].left = req[r].left
      /\ req'[r].write = req[r].write /\ req'[r].venue = req[r].venue
      /\ \A s \in Requests \ {r} : req'[s] = req[s]
  <2>1. [req[r] EXCEPT !.todo = @ \ {f}, !.gone = @ \cup {f}] \in Request
    BY <1>3 DEF Request
  <2>2. req' = [req EXCEPT ![r] = [req[r] EXCEPT !.todo = @ \ {f},
                                                !.gone = @ \cup {f}]]
    BY <1>1 DEF IInv, TypeOK
  <2> QED
    BY <1>3, <2>1, <2>2 DEF IInv, TypeOK, Request
<1>5. TypeOK'
  BY <1>1, <1>2, <1>4 DEF IInv, TypeOK
<1>6. Gains
  BY <1>1, <1>2 DEF Gains
<1>7. RequestsOK'
  <2> SUFFICES RequestOK(r)'
    BY <1>4, <1>6, OthersStayOK DEF IInv, RequestsOK
  <2>1. RequestOK(r)
    BY DEF IInv, RequestsOK
  <2>2. FilesOK(r)'
    BY <1>1, <1>2, <1>4, <2>1 DEF RequestOK, FilesOK
  <2>3. UnlinksOK(r)'
    <3>1. req'[r].todo \cup req'[r].gone = req[r].todo \cup req[r].gone
      BY <1>1, <1>4
    <3> QED
      BY <1>4, <2>1, <3>1 DEF RequestOK, UnlinksOK
  <2>4. LoadedOK(r)'
    BY <1>2, <1>4, <2>1 DEF RequestOK, LoadedOK
  <2> QED
    BY <2>2, <2>3, <2>4 DEF RequestOK
<1>8. MissingOnlyIfTorn'
  <2> SUFFICES ASSUME NEW v \in DOMAIN rows, NEW g \in rows[v].images \cap (1..written)
               PROVE  \/ g \in disk' \/ g \in torn \/ g \in reused
                      \/ \E s \in Requests : req'[s].venue = v /\ g \in req'[s].gone
    BY <1>2 DEF MissingOnlyIfTorn
  <2>1. CASE g = f
    BY <1>3, <1>4, <2>1
  <2>2. CASE g # f
    BY <1>1, <1>4, <2>2 DEF IInv, MissingOnlyIfTorn
  <2> QED
    BY <2>1, <2>2
<1>9. RowsOK' /\ OrphansWereLost' /\ NewUploadsStay'
  BY <1>1, <1>2, <1>3 DEF IInv, RowsOK, OrphansWereLost, NewUploadsStay, Named
<1> QED
  BY <1>5, <1>7, <1>8, <1>9 DEF IInv

-----------------------------------------------------------------------------
(* The end of a request                                                    *)

(* A request that ends leaves the others as they are.                      *)
LEMMA Ending ==
    ASSUME TypeOK, NEW r \in Requests, End(r)
    PROVE  /\ req' \in [Requests -> Request] /\ req'[r] = Idle
           /\ \A s \in Requests \ {r} : req'[s] = req[s]
  BY IdleIsRequest DEF TypeOK, End

(* With what Gains says, the requests are as they should be.               *)
LEMMA EndingKeepsRequestsOK ==
    ASSUME IInv, NEW r \in Requests, End(r), Gains
    PROVE  RequestsOK'
<1>1. /\ req'[r] = Idle
      /\ \A s \in Requests \ {r} : req'[s] = req[s]
  BY Ending DEF IInv
<1> QED
  BY <1>1, IdleIsOK, OthersStayOK DEF IInv, RequestsOK

(* A row that is new names files that are on disk, unless they were named  *)
(* before.                                                                 *)
LEMMA CommitCreateKeepsInv ==
    ASSUME IInv, NEW r \in Requests, Commit(r), CommitCreate(r)
    PROVE  IInv'
<1> DEFINE images == req[r].images
           new    == [images |-> images, closed |-> req[r].closed]
<1>1. PICK v \in VenueIds :
        /\ \A x \in DOMAIN rows : x < v
        /\ rows' = [x \in DOMAIN rows \cup {v} |-> IF x = v THEN new ELSE rows[x]]
  BY DEF CommitCreate
<1>2. /\ UNCHANGED <<disk, written, given, torn, lost>>
      /\ named' = named \cup (Files \cap images)
      /\ reused' = reused \cup (images \cap named)
      /\ End(r)
  BY DEF Commit, CommitCreate
<1>3. /\ v \notin DOMAIN rows /\ DOMAIN rows' = DOMAIN rows \cup {v}
      /\ rows'[v] = new /\ \A w \in DOMAIN rows : rows'[w] = rows[w]
  BY <1>1 DEF VenueIds, IInv, TypeOK
<1>4. Files \cap images \subseteq 1..written /\ req[r].gone = {}
  BY DEF IInv, RequestsOK, RequestOK, FilesOK, UnlinksOK, CommitCreate
<1>5. TypeOK'
  <2>1. new \in Row
    BY TypesOfOne DEF IInv, Row
  <2>2. rows' \in [DOMAIN rows' -> Row] /\ DOMAIN rows' \subseteq VenueIds
    BY <1>1, <1>3, <2>1 DEF IInv, TypeOK
  <2>3. /\ named' \subseteq 1..written' /\ reused' \subseteq 1..written'
    BY <1>2, <1>4 DEF IInv, TypeOK
  <2> QED
    BY <1>2, <2>2, <2>3, Ending DEF IInv, TypeOK
<1>6. Gains
  BY <1>2, <1>3 DEF Gains
<1>7. RequestsOK'
  BY <1>2, <1>6, EndingKeepsRequestsOK
<1>8. RowsOK'
  BY <1>2, <1>3 DEF IInv, RowsOK
<1>9. MissingOnlyIfTorn'
  <2> SUFFICES ASSUME NEW w \in DOMAIN rows', NEW f \in rows'[w].images \cap (1..written)
               PROVE  \/ f \in disk \/ f \in torn \/ f \in reused'
                      \/ \E s \in Requests : req'[s].venue = w /\ f \in req'[s].gone
    BY <1>2 DEF MissingOnlyIfTorn
  <2>1. CASE w = v
    <3>1. f \in named => f \in reused'
      BY <1>2, <1>3, <2>1
    <3> QED
      BY <3>1 DEF IInv, NewUploadsStay
  <2>2. CASE w # v
    BY <1>2, <1>3, <1>4, <2>2, Ending DEF IInv, MissingOnlyIfTorn
  <2> QED
    BY <2>1, <2>2
<1>10. OrphansWereLost' /\ NewUploadsStay'
  <2>1. Named' = Named \cup images
    BY <1>3 DEF Named
  <2> QED
    BY <1>2, <2>1 DEF IInv, OrphansWereLost, NewUploadsStay
<1> QED
  BY <1>5, <1>7, <1>8, <1>9, <1>10 DEF IInv

(* The images that stay are on disk, and those that go have been unlinked. *)
LEMMA CommitUpdateKeepsInv ==
    ASSUME IInv, NEW r \in Requests, Commit(r), CommitUpdate(r)
    PROVE  IInv'
<1> DEFINE v   == req[r].venue
           old == rows[v]
           new == RowAfter(r, old)
<1>1. v \in DOMAIN rows /\ rows' = [rows EXCEPT ![v] = new]
  BY DEF CommitUpdate
<1>2. /\ UNCHANGED <<disk, written, given, torn>>
      /\ named' = named \cup (Files \cap new.images)
      /\ reused' = reused \cup ((new.images \ old.images) \cap named)
      /\ lost' = lost \cup ((Files \cap old.images) \ (new.images \cup req[r].loaded))
      /\ End(r)
  BY DEF Commit, CommitUpdate
<1>3. /\ DOMAIN rows' = DOMAIN rows /\ rows'[v] = new
      /\ \A w \in DOMAIN rows \ {v} : rows'[w] = rows[w]
  BY <1>1 DEF IInv, TypeOK
<1>4. new.images = IF "images" \in req[r].write THEN req[r].images ELSE old.images
  BY DEF RowAfter
<1>5. /\ Files \cap new.images \subseteq 1..written
      /\ Files \cap old.images \subseteq named
  BY <1>1, <1>4 DEF IInv, RequestsOK, RequestOK, FilesOK, RowsOK, TypeOK
<1>6. /\ req[r].gone \cap disk = {}
      /\ req[r].gone = IF "images" \in req[r].write
                       THEN Files \cap (req[r].loaded \ req[r].images) ELSE {}
  BY DEF IInv, RequestsOK, RequestOK, FilesOK, UnlinksOK, CommitUpdate
<1> HIDE DEF new
<1>7. TypeOK'
  <2>1. new \in Row
    BY <1>1, TypesOfOne DEF new, RowAfter, IInv, TypeOK, Row
  <2>2. rows' \in [DOMAIN rows' -> Row] /\ DOMAIN rows' \subseteq VenueIds
    BY <1>1, <2>1 DEF IInv, TypeOK
  <2>3. /\ named' \subseteq 1..written' /\ reused' \subseteq 1..written'
        /\ lost' \subseteq 1..written'
    BY <1>2, <1>5 DEF IInv, TypeOK
  <2> QED
    BY <1>2, <2>2, <2>3, Ending DEF IInv, TypeOK
<1>8. Gains
  BY <1>2, <1>3 DEF Gains
<1>9. RequestsOK'
  BY <1>2, <1>8, EndingKeepsRequestsOK
<1>10. RowsOK'
  BY <1>1, <1>2, <1>3, <1>5 DEF IInv, RowsOK
<1>11. MissingOnlyIfTorn'
  <2> SUFFICES ASSUME NEW w \in DOMAIN rows, NEW f \in rows'[w].images \cap (1..written)
               PROVE  \/ f \in disk \/ f \in torn \/ f \in reused'
                      \/ \E s \in Requests : req'[s].venue = w /\ f \in req'[s].gone
    BY <1>2, <1>3 DEF MissingOnlyIfTorn
  <2>1. f \in Files
    BY TypesOfOne DEF IInv
  <2>2. CASE w = v /\ f \notin old.images
    <3>1. f \in named => f \in reused'
      BY <1>2, <1>3, <2>2
    <3> QED
      BY <3>1 DEF IInv, NewUploadsStay
  <2>3. CASE f \in rows[w].images
    <3>1. w = v => f \notin req[r].gone
      BY <1>3, <1>4, <1>6
    <3>2. \/ f \in disk \/ f \in torn \/ f \in reused
          \/ \E s \in Requests : req[s].venue = w /\ f \in req[s].gone
      BY <2>3 DEF IInv, MissingOnlyIfTorn
    <3>3. \A s \in Requests : req[s].venue = w /\ f \in req[s].gone =>
                req'[s] = req[s]
      BY <1>2, <3>1, Ending DEF IInv
    <3> QED
      BY <1>2, <3>2, <3>3
  <2> QED
    BY <1>3, <2>2, <2>3
<1>12. OrphansWereLost'
  <2> SUFFICES ASSUME NEW f \in disk, f \in named', f \notin Named', f \notin lost'
               PROVE  FALSE
    BY <1>2 DEF OrphansWereLost
  <2>1. \A w \in DOMAIN rows : f \notin rows'[w].images
    BY <1>3 DEF Named
  <2>2. f \in Files /\ f \in named
    BY <1>1, <1>2, <1>3, <2>1, TypesOfOne DEF IInv, TypeOK
  <2>3. f \in old.images /\ f \notin new.images
    BY <1>1, <1>2, <1>3, <2>1, <2>2 DEF IInv, OrphansWereLost, Named
  <2>4. f \in req[r].loaded
    BY <1>2, <2>2, <2>3
  <2> QED
    BY <1>4, <1>6, <2>2, <2>3, <2>4
<1>13. NewUploadsStay'
  BY <1>2 DEF IInv, NewUploadsStay
<1> QED
  BY <1>7, <1>9, <1>10, <1>11, <1>12, <1>13 DEF IInv

(* All that a deleted row had when it was loaded has been unlinked.        *)
LEMMA CommitDeleteKeepsInv ==
    ASSUME IInv, NEW r \in Requests, Commit(r), CommitDelete(r)
    PROVE  IInv'
<1> DEFINE v == req[r].venue
<1>1. /\ DOMAIN rows' = DOMAIN rows \ {v}
      /\ \A w \in DOMAIN rows' : rows'[w] = rows[w]
      /\ rows' = [w \in DOMAIN rows' |-> rows[w]]
  BY DEF CommitDelete, Restrict
<1>2. /\ UNCHANGED <<disk, written, given, named, torn, reused>>
      /\ lost' = lost \cup {f \in Files \ req[r].loaded :
                                v \in DOMAIN rows /\ f \in rows[v].images}
      /\ End(r)
  BY DEF Commit, CommitDelete
<1>3. Files \cap req[r].loaded = req[r].gone /\ req[r].gone \cap disk = {}
  BY DEF IInv, RequestsOK, RequestOK, FilesOK, UnlinksOK, CommitDelete
<1>4. TypeOK'
  <2>1. rows' \in [DOMAIN rows' -> Row] /\ DOMAIN rows' \subseteq VenueIds
    BY <1>1 DEF IInv, TypeOK
  <2>2. lost' \subseteq 1..written'
    BY <1>2 DEF IInv, TypeOK, RowsOK
  <2> QED
    BY <1>2, <2>1, <2>2, Ending DEF IInv, TypeOK
<1>5. Gains
  BY <1>1, <1>2 DEF Gains
<1>6. RequestsOK'
  BY <1>2, <1>5, EndingKeepsRequestsOK
<1>7. RowsOK'
  BY <1>1, <1>2 DEF IInv, RowsOK
<1>8. MissingOnlyIfTorn'
  <2> SUFFICES ASSUME NEW w \in DOMAIN rows \ {v}, NEW f \in rows[w].images \cap (1..written)
               PROVE  \/ f \in disk \/ f \in torn \/ f \in reused
                      \/ \E s \in Requests : req'[s].venue = w /\ f \in req'[s].gone
    BY <1>1, <1>2 DEF MissingOnlyIfTorn
  <2>1. \A s \in Requests : req[s].venue = w => req'[s] = req[s]
    BY <1>2, Ending DEF IInv
  <2> QED
    BY <2>1 DEF IInv, MissingOnlyIfTorn
<1>9. OrphansWereLost'
  <2> SUFFICES ASSUME NEW f \in disk, f \in named, f \notin Named', f \notin lost'
               PROVE  FALSE
    BY <1>2 DEF OrphansWereLost
  <2>1. \A w \in DOMAIN rows \ {v} : f \notin rows[w].images
    BY <1>1 DEF Named
  <2>2. f \in Files
    BY TypesOfOne DEF IInv, TypeOK
  <2>3. v \in DOMAIN rows /\ f \in rows[v].images
    BY <1>2, <2>1 DEF IInv, OrphansWereLost, Named
  <2> QED
    BY <1>2, <1>3, <2>2, <2>3
<1>10. NewUploadsStay'
  BY <1>2 DEF IInv, NewUploadsStay
<1> QED
  BY <1>4, <1>6, <1>7, <1>8, <1>9, <1>10 DEF IInv

(* What a request that fails has unlinked is torn.                         *)
LEMMA FailKeepsInv ==
    ASSUME IInv, NEW r \in Requests, Fail(r)
    PROVE  IInv'
<1>1. /\ UNCHANGED <<rows, disk, written, given, named, lost, reused>>
      /\ torn' = torn \cup req[r].gone /\ End(r)
  BY DEF Fail
<1>2. req[r].gone \subseteq named
  BY DEF IInv, RequestsOK, RequestOK, FilesOK, UnlinksOK
<1>3. TypeOK'
  BY <1>1, <1>2, Ending DEF IInv, TypeOK
<1>4. Gains
  BY <1>1 DEF Gains
<1>5. RequestsOK'
  BY <1>1, <1>4, EndingKeepsRequestsOK
<1>6. MissingOnlyIfTorn'
  BY <1>1, Ending DEF IInv, MissingOnlyIfTorn
<1> QED
  BY <1>1, <1>3, <1>5, <1>6 DEF IInv, RowsOK, OrphansWereLost, NewUploadsStay, Named

(* So is what the requests have that a restart cuts off.                   *)
LEMMA RestartKeepsInv ==
    ASSUME IInv, Restart
    PROVE  IInv'
<1>1. /\ UNCHANGED <<rows, disk, written, given, named, lost, reused>>
      /\ torn' = torn \cup UNION {req[r].gone : r \in Requests}
      /\ req' = [r \in Requests |-> Idle]
  BY DEF Restart
<1>2. \A r \in Requests : req[r].gone \subseteq named
  BY DEF IInv, RequestsOK, RequestOK, FilesOK, UnlinksOK
<1>3. TypeOK'
  BY <1>1, <1>2, IdleIsRequest DEF IInv, TypeOK
<1>4. RequestsOK'
  BY <1>1, IdleIsOK DEF RequestsOK
<1>5. MissingOnlyIfTorn'
  BY <1>1 DEF IInv, MissingOnlyIfTorn
<1> QED
  BY <1>1, <1>3, <1>4, <1>5 DEF IInv, RowsOK, OrphansWereLost, NewUploadsStay, Named

-----------------------------------------------------------------------------
(* Theorems                                                                *)

(* The strengthened invariant is one.                                      *)
THEOREM Invariance == Spec => []IInv
<1>1. Init => IInv
  BY IdleIsRequest, MediaAssumption
     DEF Init, IInv, TypeOK, RowsOK, RequestsOK, RequestOK, FilesOK, UnlinksOK,
         LoadedOK, Idle, MissingOnlyIfTorn, OrphansWereLost, NewUploadsStay
<1>2. IInv /\ [Next]_vars => IInv'
  <2> SUFFICES ASSUME IInv, [Next]_vars PROVE IInv'
    OBVIOUS
  <2>1. CASE UNCHANGED vars
    BY <2>1
       DEF vars, history, IInv, TypeOK, RowsOK, RequestsOK, RequestOK, FilesOK,
           UnlinksOK, LoadedOK, MissingOnlyIfTorn, OrphansWereLost,
           NewUploadsStay, Named
  <2>2. CASE Restart
    BY <2>2, RestartKeepsInv
  <2>3. ASSUME NEW r \in Requests,
               \/ StartUpload(r) \/ StoreImage(r)
               \/ RefuseImage(r) \/ ReturnUrls(r)
        PROVE  IInv'
    BY <2>3, StartUploadKeepsInv, StoreImageKeepsInv, RefuseImageKeepsInv,
       ReturnUrlsKeepsInv
  <2>4. ASSUME NEW r \in Requests,
               \/ CreateVenue(r) \/ UpdateVenue(r) \/ DeleteVenue(r) \/ Unlink(r)
        PROVE  IInv'
    BY <2>4, CreateVenueKeepsInv, UpdateVenueKeepsInv, DeleteVenueKeepsInv,
       UnlinkKeepsInv
  <2>5. ASSUME NEW r \in Requests, Commit(r)
        PROVE  IInv'
    BY <2>5, CommitCreateKeepsInv, CommitUpdateKeepsInv, CommitDeleteKeepsInv
       DEF Commit
  <2>6. ASSUME NEW r \in Requests, Fail(r)
        PROVE  IInv'
    BY <2>6, FailKeepsInv
  <2> QED
    BY <2>1, <2>2, <2>3, <2>4, <2>5, <2>6 DEF Next
<1> QED
  BY <1>1, <1>2, PTL DEF Spec

(* Type correctness                                                        *)
THEOREM TypeCorrectness == Spec => []TypeOK
  BY Invariance, PTL DEF IInv

(* Whatever requests overlap, share images, fail or are cut off: a file    *)
(* that a venue names is missing only if a request that did not commit, or *)
(* one about the venue that is still to commit, has unlinked it, or if its *)
(* name was given out twice.                                               *)
THEOREM FilesThatMayBeMissing == Spec => []MissingOnlyIfTorn
  BY Invariance, PTL DEF IInv

(* Likewise, a file that has been named and is named no more is on disk    *)
(* only if a commit took it from a row that was loaded without it.         *)
THEOREM FilesThatMayBeLeft == Spec => []OrphansWereLost
  BY Invariance, PTL DEF IInv

(* An upload is safe until a venue has named it.                           *)
THEOREM UploadsWaitForAVenue == Spec => []NewUploadsStay
  BY Invariance, PTL DEF IInv

-----------------------------------------------------------------------------
(* Requests that do not overlap on a venue                                 *)

(* The hypothesis: no two requests to change or delete one venue are under *)
(* way at once.                                                            *)
AboutARow(r) == req[r].op \in {"update", "delete"}

VenueRequestsApart ==
    \A r, s \in Requests :
        r # s /\ AboutARow(r) /\ AboutARow(s) => req[r].venue # req[s].venue

(* Then the row is as the request has loaded it when the request commits.  *)
ApartInv ==
    /\ TypeOK
    /\ \A r \in Requests : AboutARow(r) =>
            /\ req[r].venue \in DOMAIN rows
            /\ rows[req[r].venue].images = req[r].loaded
    /\ lost = {}

(* Every step but a commit leaves the rows and the loaded objects alone.   *)
LEMMA LoadingKeepsApart ==
    ASSUME ApartInv, TypeOK', NEW r \in Requests,
           \/ StartUpload(r) \/ StoreImage(r) \/ RefuseImage(r) \/ ReturnUrls(r)
           \/ CreateVenue(r) \/ UpdateVenue(r) \/ DeleteVenue(r)
           \/ Unlink(r) \/ Fail(r)
    PROVE  ApartInv'
<1>1. rows' = rows /\ lost' = lost
  BY DEF StartUpload, StoreImage, RefuseImage, ReturnUrls, CreateVenue,
         UpdateVenue, DeleteVenue, Unlink, Fail, history
<1>2. \A s \in Requests \ {r} : req'[s] = req[s]
  BY DEF ApartInv, TypeOK, StartUpload, StoreImage, RefuseImage, ReturnUrls,
         CreateVenue, UpdateVenue, DeleteVenue, Unlink, Fail, Start, End
<1>3. AboutARow(r)' => /\ req'[r].venue \in DOMAIN rows
                       /\ rows[req'[r].venue].images = req'[r].loaded
  <2>1. CASE StartUpload(r) \/ CreateVenue(r) \/ RefuseImage(r) \/ ReturnUrls(r) \/ Fail(r)
    <3>1. req'[r].op \in {"upload", "create", "none"}
      <4>1. CASE StartUpload(r)
        BY <4>1 DEF StartUpload, Start, Idle, ApartInv, TypeOK
      <4>2. CASE CreateVenue(r)
        BY <4>2 DEF CreateVenue, Start, Idle, ApartInv, TypeOK
      <4>3. CASE RefuseImage(r) \/ ReturnUrls(r) \/ Fail(r)
        BY <4>3 DEF RefuseImage, ReturnUrls, Fail, End, Idle, ApartInv, TypeOK
      <4> QED
        BY <2>1, <4>1, <4>2, <4>3
    <3> QED
      BY <3>1 DEF AboutARow
  <2>2. CASE StoreImage(r) \/ Unlink(r)
    <3>1. /\ req[r] \in Request /\ req'[r].op = req[r].op
          /\ req'[r].venue = req[r].venue /\ req'[r].loaded = req[r].loaded
      <4>1. req[r] \in Request
        BY DEF ApartInv, TypeOK
      <4>2. CASE StoreImage(r)
        BY <4>1, <4>2 DEF StoreImage, ApartInv, TypeOK, Request
      <4>3. CASE Unlink(r)
        <5>1. PICK f \in req[r].todo :
                req' = [req EXCEPT ![r].todo = @ \ {f}, ![r].gone = @ \cup {f}]
          BY <4>3 DEF Unlink
        <5> QED
          BY <4>1, <5>1 DEF ApartInv, TypeOK, Request
      <4> QED
        BY <2>2, <4>1, <4>2, <4>3
    <3> QED
      BY <3>1 DEF ApartInv, AboutARow
  <2>3. CASE UpdateVenue(r)
    <3>1. PICK v \in DOMAIN rows, closed \in BOOLEAN, write \in SUBSET {"images", "closed"},
               images \in Payloads \cup {x.images : x \in Range(rows)} :
            Start(r, [Loaded("update", v) EXCEPT
                        !.images = images, !.closed = closed, !.write = write,
                        !.todo = Files \cap (rows[v].images \ images)])
      BY <2>3 DEF UpdateVenue
    <3>2. req'[r].venue = v /\ req'[r].loaded = rows[v].images
      BY <3>1 DEF Start, Loaded, Idle, ApartInv, TypeOK
    <3> QED
      BY <3>2
  <2>4. CASE DeleteVenue(r)
    <3>1. PICK v \in DOMAIN rows :
            Start(r, [Loaded("delete", v) EXCEPT !.todo = Files \cap rows[v].images])
      BY <2>4 DEF DeleteVenue
    <3>2. req'[r].venue = v /\ req'[r].loaded = rows[v].images
      BY <3>1 DEF Start, Loaded, Idle, ApartInv, TypeOK
    <3> QED
      BY <3>2
  <2> QED
    BY <2>1, <2>2, <2>3, <2>4
<1> QED
  BY <1>1, <1>2, <1>3 DEF ApartInv, AboutARow

(* A commit changes the row of its own request, or adds one.               *)
LEMMA CommitKeepsApart ==
    ASSUME ApartInv, TypeOK', VenueRequestsApart, NEW r \in Requests, Commit(r)
    PROVE  ApartInv'
<1>1. /\ req'[r] = Idle /\ ~ AboutARow(r)'
      /\ \A s \in Requests \ {r} : req'[s] = req[s]
  BY Ending DEF Commit, ApartInv, AboutARow, Idle
<1>2. /\ \A s \in Requests \ {r} : AboutARow(s) =>
            /\ req[s].venue \in DOMAIN rows'
            /\ rows'[req[s].venue] = rows[req[s].venue]
      /\ lost' = {}
  <2>1. CASE CommitCreate(r)
    <3>1. PICK v \in VenueIds :
            /\ \A x \in DOMAIN rows : x < v
            /\ rows' = [x \in DOMAIN rows \cup {v} |->
                            IF x = v THEN [images |-> req[r].images,
                                           closed |-> req[r].closed]
                                     ELSE rows[x]]
      BY <2>1 DEF CommitCreate
    <3>2. v \notin DOMAIN rows
      BY <3>1 DEF VenueIds
    <3> QED
      BY <2>1, <3>1, <3>2 DEF ApartInv, CommitCreate
  <2>2. CASE CommitUpdate(r)
    <3>1. AboutARow(r)
      BY <2>2 DEF CommitUpdate, AboutARow
    <3> QED
      BY <2>2, <3>1 DEF CommitUpdate, VenueRequestsApart, ApartInv, TypeOK
  <2>3. CASE CommitDelete(r)
    <3>1. AboutARow(r)
      BY <2>3 DEF CommitDelete, AboutARow
    <3> QED
      BY <2>3, <3>1 DEF CommitDelete, VenueRequestsApart, ApartInv, Restrict
  <2> QED
    BY <2>1, <2>2, <2>3 DEF Commit
<1> QED
  BY <1>1, <1>2 DEF ApartInv, AboutARow

(* While no two requests to change or delete one venue overlap, no image   *)
(* that a venue has had outlives its last mention, over failed commits and *)
(* restarts.                                                               *)
THEOREM NamedFilesAreCollected ==
    Spec /\ []VenueRequestsApart => []OrphansWereNeverNamed
<1>1. Init /\ TypeOK => ApartInv
  BY DEF Init, ApartInv, AboutARow, Idle
<1>2. ApartInv /\ TypeOK' /\ VenueRequestsApart /\ [Next]_vars => ApartInv'
  <2> SUFFICES ASSUME ApartInv, TypeOK', VenueRequestsApart, [Next]_vars
               PROVE  ApartInv'
    OBVIOUS
  <2>1. CASE UNCHANGED vars
    BY <2>1 DEF vars, history, ApartInv, AboutARow
  <2>2. CASE Restart
    BY <2>2 DEF Restart, ApartInv, AboutARow, Idle
  <2>3. ASSUME NEW r \in Requests, Commit(r)
        PROVE  ApartInv'
    BY <2>3, CommitKeepsApart
  <2> QED
    BY <2>1, <2>2, <2>3, LoadingKeepsApart DEF Next
<1>3. OrphansWereLost /\ ApartInv => OrphansWereNeverNamed
  BY DEF OrphansWereLost, ApartInv, OrphansWereNeverNamed
<1> QED
  BY <1>1, <1>2, <1>3, TypeCorrectness, FilesThatMayBeLeft, PTL DEF Spec
=============================================================================
