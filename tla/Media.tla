-------------------------------- MODULE Media --------------------------------
(***************************************************************************)
(* The image files of venues (router/static.py) and the rows that name     *)
(* them (create_venue, update_venue and delete_venue of router/venue.py).  *)
(*                                                                         *)
(* A handler loads the row, unlinks files one after the other and commits  *)
(* afterwards; other requests, about the same venue too, run in between,   *)
(* the commit may fail, and the process may die anywhere.  An image is its *)
(* file name, which the code cuts off the URL: any URL is accepted, so a   *)
(* payload names files that uploads have returned, whether other venues    *)
(* name them, have named them or not, and names that were never on disk.   *)
(*                                                                         *)
(* Only requests that pass the checks of owner and status are followed:    *)
(* the others change nothing.                                              *)
(***************************************************************************)
EXTENDS Integers, Functions, FiniteSets

CONSTANTS
    Requests,       \* bound: requests under way at once
    External,       \* names in payloads that are no file of MEDIA_DIR
    MaxVenues,      \* bound: largest venue id
    MaxFiles,       \* bound: files ever written
    MinImages,      \* images of a venue, at least and ...
    MaxImages       \* ... at most, and of an upload

VenueIds == 1..MaxVenues
Files    == 1..MaxFiles
Names    == Files \cup External

ASSUME MediaAssumption ==
    /\ MaxVenues \in Nat /\ MaxFiles \in Nat
    /\ MinImages \in Nat /\ MaxImages \in Nat
    /\ External \cap Files = {}

VARIABLES
    rows,       \* table venues: images, and whether the status is closed
    disk,       \* the files in MEDIA_DIR
    written,    \* how many files have ever been written; uuid4 is a counter
    given,      \* the file names that uploads have returned
    req,        \* req[r]: upload or venue request under way
    named,      \* history: files that a row has ever named
    torn,       \* history: files unlinked by requests that did not commit
    lost,       \* history: files that a commit dropped from a row that did
                \* not name them when the request loaded it
    reused      \* history: files that a commit gave to a row although they
                \* had been named before, and not by that row just now

history == <<named, torn, lost, reused>>
vars    == <<rows, disk, written, given, req, history>>

Row == [images : SUBSET Names, closed : BOOLEAN]

(* left: images of an upload not looked at yet; images: image_urls of an   *)
(* upload, or the payload; write: the columns that the commit will set;    *)
(* loaded: the images the row had; todo and gone: files to unlink and      *)
(* files unlinked.                                                         *)
Request == [op     : {"none", "upload", "create", "update", "delete"},
            left   : 0..MaxImages,
            venue  : VenueIds \cup {0},
            loaded : SUBSET Names,
            images : SUBSET Names,
            closed : BOOLEAN,
            write  : SUBSET {"images", "closed"},
            todo   : SUBSET Files,
            gone   : SUBSET Files]

Idle == [op |-> "none", left |-> 0, venue |-> 0, loaded |-> {}, images |-> {},
         closed |-> FALSE, write |-> {}, todo |-> {}, gone |-> {}]

Init ==
    /\ rows = <<>>
    /\ disk = {}
    /\ written = 0
    /\ given = {}
    /\ req = [r \in Requests |-> Idle]
    /\ named = {} /\ torn = {} /\ lost = {} /\ reused = {}

Free(r) == req[r].op = "none"

Start(r, q) == Free(r) /\ req' = [req EXCEPT ![r] = q]

End(r) == req' = [req EXCEPT ![r] = Idle]

(* The images of a payload that check_image_urls accepts.                  *)
Payloads == {images \in SUBSET (given \cup External) :
                /\ Cardinality(images) >= MinImages
                /\ Cardinality(images) <= MaxImages}

-----------------------------------------------------------------------------
(* upload_images                                                           *)

(* Mutant of StartUpload: any number of images is accepted.                *)
StartUploadUnlimited(r) ==
    /\ \E n \in 1..(MaxImages + 1) :
        Start(r, [Idle EXCEPT !.op = "upload", !.left = n])
    /\ UNCHANGED <<rows, disk, written, given, history>>

(* More than MAX_IMAGES images are refused before anything is written.     *)
StartUpload(r) ==
    /\ \E n \in 1..MaxImages :
        Start(r, [Idle EXCEPT !.op = "upload", !.left = n])
    /\ UNCHANGED <<rows, disk, written, given, history>>

(* The next image is read and written under a name of its own.             *)
StoreImage(r) ==
    /\ req[r].left > 0
    /\ written < MaxFiles
    /\ written' = written + 1
    /\ disk' = disk \cup {written'}
    /\ req' = [req EXCEPT ![r].left = @ - 1, ![r].images = @ \cup {written'}]
    /\ UNCHANGED <<rows, given, history>>

(* The next image has the wrong extension or is empty: 400 for the whole   *)
(* upload, the images before it stay.                                      *)
RefuseImage(r) ==
    /\ req[r].left > 0
    /\ End(r)
    /\ UNCHANGED <<rows, disk, written, given, history>>

ReturnUrls(r) ==
    /\ req[r].op = "upload" /\ req[r].left = 0
    /\ given' = given \cup req[r].images
    /\ End(r)
    /\ UNCHANGED <<rows, disk, written, history>>

-----------------------------------------------------------------------------
(* create_venue, update_venue and delete_venue: up to the last change of   *)
(* the loaded object                                                       *)

CreateVenue(r) ==
    /\ \E images \in Payloads, closed \in BOOLEAN :
        Start(r, [Idle EXCEPT !.op = "create", !.images = images,
                              !.closed = closed])
    /\ UNCHANGED <<rows, disk, written, given, history>>

(* The request with row v loaded.                                          *)
Loaded(op, v) ==
    [Idle EXCEPT !.op = op, !.venue = v, !.loaded = rows[v].images,
                 !.images = rows[v].images, !.closed = rows[v].closed]

(* Mutant of UpdateVenue: every image of the row is unlinked.              *)
UpdateVenueUnlinksAll(r) ==
    /\ \E v \in DOMAIN rows, images \in Payloads :
        Start(r, [Loaded("update", v) EXCEPT
                    !.images = images, !.write = {"images"},
                    !.todo = Files \cap rows[v].images])
    /\ UNCHANGED <<rows, disk, written, given, history>>

(* Mutant of UpdateVenue: the difference is taken the other way around.    *)
UpdateVenueSwapped(r) ==
    /\ \E v \in DOMAIN rows, images \in Payloads :
        Start(r, [Loaded("update", v) EXCEPT
                    !.images = images, !.write = {"images"},
                    !.todo = Files \cap (images \ rows[v].images)])
    /\ UNCHANGED <<rows, disk, written, given, history>>

(* A list of images with the names of the row may be written too: their    *)
(* order or the rest of a URL is different.                                *)
UpdateVenue(r) ==
    /\ \E v \in DOMAIN rows, closed \in BOOLEAN, write \in SUBSET {"images", "closed"},
          images \in Payloads \cup {x.images : x \in Range(rows)} :
        /\ "closed" \in write <=> closed # rows[v].closed
        /\ IF "images" \in write THEN images \in Payloads
                                 ELSE images = rows[v].images
        /\ Start(r, [Loaded("update", v) EXCEPT
                        !.images = images, !.closed = closed, !.write = write,
                        !.todo = Files \cap (rows[v].images \ images)])
    /\ UNCHANGED <<rows, disk, written, given, history>>

(* Mutant of DeleteVenue: the files are left where they are.               *)
DeleteVenueOnly(r) ==
    /\ \E v \in DOMAIN rows :
        /\ rows[v].closed
        /\ Start(r, Loaded("delete", v))
    /\ UNCHANGED <<rows, disk, written, given, history>>

DeleteVenue(r) ==
    /\ \E v \in DOMAIN rows :
        /\ rows[v].closed
        /\ Start(r, [Loaded("delete", v) EXCEPT !.todo = Files \cap rows[v].images])
    /\ UNCHANGED <<rows, disk, written, given, history>>

(* unlink(missing_ok=True)                                                 *)
Unlink(r) ==
    /\ \E f \in req[r].todo :
        /\ disk' = disk \ {f}
        /\ req' = [req EXCEPT ![r].todo = @ \ {f}, ![r].gone = @ \cup {f}]
    /\ UNCHANGED <<rows, written, given, history>>

-----------------------------------------------------------------------------
(* The flush and the commit; a failing refresh changes nothing any more    *)

(* The id is one more than the largest in the table, as in Tables.         *)
CommitCreate(r) ==
    /\ req[r].op = "create"
    /\ \E v \in VenueIds :
        /\ \A x \in DOMAIN rows : x < v
        /\ v = 1 \/ v - 1 \in DOMAIN rows
        /\ rows' = [x \in DOMAIN rows \cup {v} |->
                        IF x = v THEN [images |-> req[r].images,
                                       closed |-> req[r].closed]
                                 ELSE rows[x]]
    /\ named' = named \cup (Files \cap req[r].images)
    /\ reused' = reused \cup (req[r].images \cap named)
    /\ UNCHANGED <<torn, lost>>

(* What UPDATE leaves of a row: the columns that are not set stay.         *)
RowAfter(r, row) ==
    [images |-> IF "images" \in req[r].write THEN req[r].images ELSE row.images,
     closed |-> IF "closed" \in req[r].write THEN req[r].closed ELSE row.closed]

(* An UPDATE that finds no row is an exception (Fail).                     *)
CommitUpdate(r) ==
    /\ req[r].op = "update" /\ req[r].todo = {}
    /\ req[r].venue \in DOMAIN rows
    /\ LET old == rows[req[r].venue]
           new == RowAfter(r, old)
       IN  /\ rows' = [rows EXCEPT ![req[r].venue] = new]
           /\ named' = named \cup (Files \cap new.images)
           /\ reused' = reused \cup ((new.images \ old.images) \cap named)
           /\ lost' = lost \cup ((Files \cap old.images) \ (new.images \cup req[r].loaded))
    /\ UNCHANGED torn

(* A DELETE that finds no row is only a warning.                           *)
CommitDelete(r) ==
    /\ req[r].op = "delete" /\ req[r].todo = {}
    /\ rows' = Restrict(rows, DOMAIN rows \ {req[r].venue})
    /\ lost' = lost \cup {f \in Files \ req[r].loaded :
                    /\ req[r].venue \in DOMAIN rows
                    /\ f \in rows[req[r].venue].images}
    /\ UNCHANGED <<named, torn, reused>>

Commit(r) ==
    /\ CommitCreate(r) \/ CommitUpdate(r) \/ CommitDelete(r)
    /\ End(r)
    /\ UNCHANGED <<disk, written, given>>

(* The commit, or the query for the events to reject, raises: the database *)
(* is locked or a row is gone.  The row stays as it was.                   *)
Fail(r) ==
    /\ req[r].op \in {"create", "update", "delete"} /\ req[r].todo = {}
    /\ torn' = torn \cup req[r].gone
    /\ End(r)
    /\ UNCHANGED <<rows, disk, written, given, named, lost, reused>>

(* The process dies and starts again.                                      *)
Restart ==
    /\ torn' = torn \cup UNION {req[r].gone : r \in Requests}
    /\ req' = [r \in Requests |-> Idle]
    /\ UNCHANGED <<rows, disk, written, given, named, lost, reused>>

Next ==
    \/ \E r \in Requests : \/ StartUpload(r) \/ StoreImage(r)
                           \/ RefuseImage(r) \/ ReturnUrls(r)
                           \/ CreateVenue(r) \/ UpdateVenue(r) \/ DeleteVenue(r)
                           \/ Unlink(r) \/ Commit(r) \/ Fail(r)
    \/ Restart

Spec == Init /\ [][Next]_vars

-----------------------------------------------------------------------------
(* Properties                                                              *)

(* Types of rows, files and requests.                                      *)
TypeOK ==
    /\ DOMAIN rows \subseteq VenueIds /\ rows \in [DOMAIN rows -> Row]
    /\ written \in 0..MaxFiles
    /\ disk \subseteq 1..written
    /\ given \subseteq 1..written
    /\ req \in [Requests -> Request]
    /\ named \subseteq 1..written /\ torn \subseteq 1..written
    /\ lost \subseteq 1..written /\ reused \subseteq 1..written

Named == UNION {rows[v].images : v \in DOMAIN rows}

(* A file that a venue names is missing from disk only if a request that   *)
(* did not commit has unlinked it, if a request about the venue has it     *)
(* unlinked and is still to commit, or if the name was given out twice     *)
(* (update_venue keeps the images of the payload).                         *)
MissingOnlyIfTorn ==
    \A v \in DOMAIN rows : \A f \in rows[v].images \cap (1..written) :
        \/ f \in disk
        \/ f \in torn
        \/ f \in reused
        \/ \E r \in Requests : req[r].venue = v /\ f \in req[r].gone

(* An image that a venue has had outlives its last mention, over failures, *)
(* restarts and whatever venues share it, only if a commit took it from a  *)
(* row that the request had loaded without it: update_venue and            *)
(* delete_venue unlink what they have loaded before they commit.           *)
OrphansWereLost == (disk \ Named) \cap named \subseteq lost

(* What an upload has written is unlinked only after a row has named it,   *)
(* never on account of a payload that is not committed yet.                *)
NewUploadsStay == (1..written) \ disk \subseteq named

(* "Replacing the image list deletes the previously uploaded media files   *)
(* that are no longer referenced" (the docstring of update_venue): none    *)
(* that a venue has had is left on disk, as long as requests about one     *)
(* venue do not overlap (module MediaProofs).                              *)
OrphansWereNeverNamed == (disk \ Named) \cap named = {}
=============================================================================
