---------------------------- MODULE Gallery ----------------------------
(* Enrolled students, their photos and encrypted face vectors, and the    *)
(* embedding indexes that pipelines build from them.  Request threads     *)
(* enroll, import, replace, clear, rename and delete; a script rotates    *)
(* the encryption key; pipelines reload when the version counter moves.   *)
(* Every step is one query, one commit, one change of a photo directory   *)
(* or one Redis command: others may come in between.                      *)
EXTENDS Matching, Sequences

CONSTANTS
    Requests,     \* request threads of the API
    Pipelines,    \* processes that hold an embedding index
    RegNos,       \* well-formed registration numbers
    Bad,          \* a registration number that is missing or malformed
    NoFace,       \* what a photo without a detectable face shows
    Legacy,       \* uploads of the students enrolled at the start
    PhotoSets,    \* the uploads considered: sequences of photos
    Imports,      \* the CSV imports considered
    MinPhotos, MaxPhotos,
    MaxStudents,  \* bound: ids the sequence hands out
    MaxRequests,  \* bound: requests made
    MaxKey        \* bound: encryption keys, numbered by age

(* A photo: the face that gets embedded, whether others are on it too, and *)
(* whether score, size and pose of the face are good enough.               *)
Photo == [face : Faces \cup {NoFace}, crowd : BOOLEAN, fit : BOOLEAN]
Passes(photo) == photo.face # NoFace /\ ~photo.crowd /\ photo.fit
Upload == [reg : RegNos \cup {Bad}, photos : Seq(Photo)]

FacesOf(photos) == {photos[i].face : i \in DOMAIN photos}

ASSUME GalleryAssumption ==
    /\ {MinPhotos, MaxPhotos, MaxStudents, MaxRequests, MaxKey} \subseteq Nat \ {0}
    /\ MinPhotos <= MaxPhotos
    /\ NoFace \notin Faces /\ Bad \notin RegNos
    /\ PhotoSets \subseteq Seq(Photo)
    /\ Legacy \in Seq(Upload) /\ Len(Legacy) <= MaxStudents
    /\ \A i \in DOMAIN Legacy : Legacy[i].reg # Bad /\ NoFace \notin FacesOf(Legacy[i].photos)
    /\ \A i, j \in DOMAIN Legacy : i # j =>   \* enrolled one after the other
        \A f \in FacesOf(Legacy[i].photos), g \in FacesOf(Legacy[j].photos) : Sim[<<f, g>>] < Threshold
    /\ Imports \subseteq [rows : Seq(Upload), dry : BOOLEAN, skip : BOOLEAN]

Ids == 1 .. MaxStudents
Keys == 1 .. MaxKey

VARIABLES
    students,     \* committed rows by id, Absent where there is none
    nextId,       \* the key sequence
    dir,          \* photos in the directory of an id, <<>> if it is missing
    version,      \* the counter in Redis, 0 if never written
    key,          \* the key the API and the workers were started with
    req,          \* what each request thread is doing
    begun,        \* requests made, for the bound
    index,        \* what each pipeline holds
    rotation,     \* the rotation script
    unannounced,  \* history: changed rows whose bump failed or was cut off, until the next
    tangled,      \* history: ids on which file work overlapped or was cut off
    spoiled,      \* history: ids whose files were rewritten by a request that failed, until repaired
    late          \* history: ids written by the API after a rotation read them

vars == <<students, nextId, dir, version, key, req, begun, index, rotation,
          unannounced, tangled, spoiled, late>>
rowVars == <<students, nextId, version, key, index, rotation, unannounced, late>>


Absent == [reg |-> Bad]
Rows == [reg : RegNos, key : Keys, faces : SUBSET Faces, photos : Seq(Photo),
         seen : SUBSET Ids, replaced : BOOLEAN]
Present(s) == students[s] # Absent

Idle == [pc |-> "idle"]
OnFiles == {"commit", "files", "update", "drop", "dropfiles"}
Untold(r) == req[r].pc \in {"bump", "dropfiles"}  \* committed, version not bumped yet
Busy(r, s) == req[r].pc \in OnFiles /\ req[r].sid = s

(* What a process that was started with the active key can decrypt.        *)
Readable == {s \in Ids : Present(s) /\ students[s].key = key}
Entries == {e \in Readable \X Faces : e[2] \in students[e[1]].faces}

EmptyIndex == [pc |-> "idle", entries |-> {}, version |-> 0, asked |-> 0]
NoRotation == [pc |-> "idle", to |-> 0, blobs |-> <<>>, failed |-> FALSE]

Row(upload, photos, k, seen) ==
    [reg |-> upload.reg, key |-> k, faces |-> FacesOf(photos), photos |-> photos,
     seen |-> seen, replaced |-> FALSE]

Init ==
    /\ students = [s \in Ids |-> IF s <= Len(Legacy)
                                 THEN Row(Legacy[s], Legacy[s].photos, 1, 1 .. s - 1) ELSE Absent]
    /\ nextId = Len(Legacy) + 1
    /\ dir = [s \in Ids |-> IF s <= Len(Legacy) THEN Legacy[s].photos ELSE <<>>]
    /\ version = 0
    /\ key = 1
    /\ req = [r \in Requests |-> Idle]
    /\ begun = 0
    /\ index = [p \in Pipelines |-> EmptyIndex]
    /\ rotation = NoRotation
    /\ unannounced = {}
    /\ tangled = {} /\ spoiled = {}
    /\ late = {}

-----------------------------------------------------------------------------
(* Enrolling: one student by form, or the rows of a CSV file in turn.      *)

InFlight == {r \in Requests : req[r] # Idle}
Begin(r, request) ==
    /\ req[r] = Idle
    /\ begun < MaxRequests
    /\ begun' = begun + 1
    /\ req' = [req EXCEPT ![r] = request]

(* The next row, or the end of the request.                                *)
NextRow(x) ==
    IF Len(x.rows) = 1 THEN Idle
    ELSE [x EXCEPT !.pc = "check", !.rows = Tail(x.rows), !.i = 1, !.seen = Ids, !.sid = 0]
RowDone(r) == req' = [req EXCEPT ![r] = NextRow(req[r])]

Request(rows, bulk, dry, skip) ==
    [pc |-> "check", rows |-> rows, bulk |-> bulk, dry |-> dry, skip |-> skip,
     i |-> 1, seen |-> Ids, sid |-> 0]

Enroll(r, upload) ==
    /\ Begin(r, Request(<<upload>>, FALSE, FALSE, FALSE))
    /\ UNCHANGED <<rowVars, dir, tangled, spoiled>>

Import(r, csv) ==
    /\ csv.rows # <<>>
    /\ Begin(r, Request(csv.rows, TRUE, csv.dry, csv.skip))
    /\ UNCHANGED <<rowVars, dir, tangled, spoiled>>

Upload1(r) == Head(req[r].rows)
Taken(reg) == \E s \in Ids : Present(s) /\ students[s].reg = reg

CheckRegNo(r) ==
    /\ req[r].pc = "check"
    /\ IF Upload1(r).reg = Bad \/ Taken(Upload1(r).reg)
       THEN RowDone(r)
       ELSE req' = [req EXCEPT ![r].pc = "photos"]
    /\ UNCHANGED <<begun, rowVars, dir, tangled, spoiled>>

(* A folder of too many photos is cut, a form of too many is refused.      *)
Used(r) ==
    LET photos == Upload1(r).photos IN
    IF req[r].bulk /\ Len(photos) > MaxPhotos THEN SubSeq(photos, 1, MaxPhotos) ELSE photos
CountOk(photos) == Len(photos) \in MinPhotos .. MaxPhotos

(* Quality check and embedding, both by the inference service, which may   *)
(* not answer: then the row is refused like a bad one.                     *)
Embed(r) ==
    /\ req[r].pc = "photos"
    /\ \E answered \in BOOLEAN :
        IF /\ answered
           /\ CountOk(Used(r))
           /\ req[r].skip \/ \A i \in DOMAIN Used(r) : Passes(Used(r)[i])
           /\ NoFace \notin FacesOf(Used(r))
        THEN req' = [req EXCEPT ![r].pc = "compare"]
        ELSE RowDone(r)
    /\ UNCHANGED <<begun, rowVars, dir, tangled, spoiled>>

Alike(f, g) == Sim[<<f, g>>] >= Threshold
Twins(s, f) == \E g \in students[s].faces : Alike(f, g)

(* Mutant: only the first photo is compared.                               *)
CompareOne(r) ==
    /\ req[r].pc = "compare"
    /\ IF \E s \in Readable : Twins(s, Used(r)[1].face)
       THEN RowDone(r)
       ELSE req' = [req EXCEPT ![r].pc = "insert", ![r].seen = @ \cap Readable]
    /\ UNCHANGED <<begun, rowVars, dir, tangled, spoiled>>

(* check_duplicate_face: a query of its own for each photo.                *)
Compare(r) ==
    /\ req[r].pc = "compare"
    /\ IF \E s \in Readable : Twins(s, Used(r)[req[r].i].face)
       THEN RowDone(r)
       ELSE req' = [req EXCEPT
                ![r].pc = IF req[r].i = Len(Used(r)) THEN "insert" ELSE "compare",
                ![r].i = @ + 1,
                ![r].seen = @ \cap Readable]
    /\ UNCHANGED <<begun, rowVars, dir, tangled, spoiled>>

(* flush() takes the id and, in the database, the number: a second insert  *)
(* of the same number waits for the first transaction and then fails.      *)
(* The photos are on disk before the commit.                               *)
Insert(r) ==
    /\ req[r].pc = "insert"
    /\ \A q \in Requests : req[q].pc = "commit" => Upload1(q).reg # Upload1(r).reg
    /\ IF req[r].dry \/ Taken(Upload1(r).reg)
       THEN RowDone(r) /\ UNCHANGED <<nextId, dir>>
       ELSE /\ nextId <= MaxStudents
            /\ nextId' = nextId + 1
            /\ dir' = [dir EXCEPT ![nextId] = Used(r)]
            /\ req' = [req EXCEPT ![r].pc = "commit", ![r].sid = nextId]
    /\ UNCHANGED <<begun, students, version, key, index, rotation, unannounced, tangled, spoiled, late>>

(* A row written with the active key while a rotation away from that key   *)
(* is under way.                                                           *)
Late(s) == IF rotation.to > key THEN late \cup {s} ELSE late

CommitRow(r) ==
    /\ req[r].pc = "commit"
    /\ students' = [students EXCEPT ![req[r].sid] = Row(Upload1(r), Used(r), key, req[r].seen)]
    /\ req' = [req EXCEPT ![r].pc = "bump"]
    /\ late' = Late(req[r].sid)
    /\ UNCHANGED <<begun, nextId, dir, version, key, index, rotation, unannounced, tangled, spoiled>>

(* Mutant: the rollback forgets the photos.                                *)
CommitFailsOnly(r) ==
    /\ req[r].pc = "commit"
    /\ RowDone(r)
    /\ UNCHANGED <<begun, rowVars, dir, tangled, spoiled>>

(* Saving or committing fails: rollback, and the directory is removed.     *)
CommitFails(r) ==
    /\ req[r].pc = "commit"
    /\ dir' = [dir EXCEPT ![req[r].sid] = <<>>]
    /\ RowDone(r)
    /\ UNCHANGED <<begun, rowVars, tangled, spoiled>>

(* bump_students_version, whose failure is swallowed.                      *)
Bump(r) ==
    /\ req[r].pc = "bump"
    /\ \/ version' = version + 1 /\ unannounced' = {}
       \/ version' = version /\ unannounced' = unannounced \cup {req[r].sid}
    /\ RowDone(r)
    /\ UNCHANGED <<begun, students, nextId, dir, key, index, rotation, tangled, spoiled, late>>

-----------------------------------------------------------------------------
(* Changes to a student.  The row is loaded first (404 if missing); an     *)
(* UPDATE of a row deleted since fails.                                    *)

Change(pc, s, photos, reg) ==
    [pc |-> pc, sid |-> s, photos |-> photos, rows |-> <<[reg |-> reg]>>]
Target(r, pc, s, photos, reg) ==
    /\ Present(s)
    /\ Begin(r, Change(pc, s, photos, reg))
    /\ tangled' = IF pc \in OnFiles /\ \E q \in Requests : Busy(q, s)
                  THEN tangled \cup {s} ELSE tangled
    /\ UNCHANGED <<rowVars, dir, spoiled>>

(* replace_face: neither quality check nor duplicate check.  Uploads that  *)
(* are refused change nothing.                                             *)
ReplaceFace(r, s, photos) ==
    /\ CountOk(photos) /\ NoFace \notin FacesOf(photos)
    /\ Target(r, "files", s, photos, Bad)

ClearFace(r, s) == Target(r, "files", s, <<>>, Bad)

(* Both rewrite the directory first and the row afterwards.                *)
RewriteFiles(r) ==
    /\ req[r].pc = "files"
    /\ dir' = [dir EXCEPT ![req[r].sid] = req[r].photos]
    /\ req' = [req EXCEPT ![r].pc = "update"]
    /\ UNCHANGED <<begun, rowVars, tangled, spoiled>>

(* A photo that cannot be written ends the request; the old ones are gone. *)
RewriteFails(r) ==
    /\ req[r].pc = "files"
    /\ \E n \in 0 .. Len(req[r].photos) - 1 :
        dir' = [dir EXCEPT ![req[r].sid] = SubSeq(req[r].photos, 1, n)]
    /\ spoiled' = spoiled \cup {req[r].sid}
    /\ RowDone(r)
    /\ UNCHANGED <<begun, rowVars, tangled>>

UpdateRow(r) ==
    /\ req[r].pc = "update"
    /\ IF Present(req[r].sid)
       THEN /\ students' = [students EXCEPT ![req[r].sid] =
                    [@ EXCEPT !.key = key, !.faces = FacesOf(req[r].photos),
                              !.photos = req[r].photos, !.replaced = TRUE]]
            /\ req' = [req EXCEPT ![r].pc = "bump"]
            /\ late' = Late(req[r].sid)
            /\ spoiled' = spoiled \ {req[r].sid}
       ELSE RowDone(r) /\ UNCHANGED <<students, spoiled, late>>
    /\ UNCHANGED <<begun, nextId, dir, version, key, index, rotation, unannounced, tangled>>

(* No change is made where its commit fails, and nothing is put back.      *)
ChangeFails(r) ==
    /\ req[r].pc \in {"update", "drop", "rename"}
    /\ spoiled' = IF req[r].pc = "update" THEN spoiled \cup {req[r].sid} ELSE spoiled
    /\ RowDone(r)
    /\ UNCHANGED <<begun, rowVars, dir, tangled>>

DeleteStudent(r, s) == Target(r, "drop", s, <<>>, Bad)

DeleteRow(r) ==
    /\ req[r].pc = "drop"
    /\ students' = [students EXCEPT ![req[r].sid] = Absent]
    /\ req' = [req EXCEPT ![r].pc = "dropfiles"]
    /\ UNCHANGED <<begun, nextId, dir, version, key, index, rotation, unannounced, tangled, spoiled, late>>

(* Mutant: a deletion is not announced.                                    *)
DropFilesOnly(r) ==
    /\ req[r].pc = "dropfiles"
    /\ dir' = [dir EXCEPT ![req[r].sid] = <<>>]
    /\ RowDone(r)
    /\ UNCHANGED <<begun, rowVars, tangled, spoiled>>

DropFiles(r) ==
    /\ req[r].pc = "dropfiles"
    /\ dir' = [dir EXCEPT ![req[r].sid] = <<>>]
    /\ spoiled' = spoiled \ {req[r].sid}
    /\ req' = [req EXCEPT ![r].pc = "bump"]
    /\ UNCHANGED <<begun, rowVars, tangled>>

(* update_student with a new number: looked up, then committed; the unique *)
(* constraint decides a race.                                              *)
Rename(r, s, reg) ==
    /\ ~Taken(reg)
    /\ Target(r, "rename", s, <<>>, reg)

RenameCommit(r) ==
    /\ req[r].pc = "rename"
    /\ \A q \in Requests : req[q].pc = "commit" => Upload1(q).reg # Upload1(r).reg
    /\ students' = IF Present(req[r].sid) /\ ~Taken(Upload1(r).reg)
                   THEN [students EXCEPT ![req[r].sid].reg = Upload1(r).reg]
                   ELSE students
    /\ RowDone(r)
    /\ UNCHANGED <<begun, nextId, dir, version, key, index, rotation, unannounced, tangled, spoiled, late>>

(* The API process dies and comes back: open transactions roll back, files *)
(* stay as they are.                                                       *)
Restart ==
    /\ InFlight # {}
    /\ req' = [r \in Requests |-> Idle]
    /\ tangled' = tangled \cup {s \in Ids : \E r \in Requests : Busy(r, s)}
    /\ unannounced' = unannounced \cup {req[r].sid : r \in {q \in Requests : Untold(q)}}
    /\ UNCHANGED <<begun, students, nextId, dir, version, key, index, rotation, spoiled, late>>

-----------------------------------------------------------------------------
(* The index of a pipeline: the version is asked first, the rows are read  *)
(* afterwards and filed under that version.                                *)

AskVersion(p) ==
    /\ index[p].pc = "idle"
    /\ \E asked \in {version, 0} :  \* 0: Redis did not answer
        /\ asked = 0 \/ asked # index[p].version \/ index[p].entries = {}
        /\ index' = [index EXCEPT ![p].pc = "load", ![p].asked = asked]
    /\ UNCHANGED <<begun, students, nextId, dir, version, key, req, rotation, unannounced, tangled, spoiled, late>>

Load(p) ==
    /\ index[p].pc = "load"
    /\ index' = [index EXCEPT ![p] =
            [pc |-> "idle", entries |-> Entries, asked |-> 0,
             version |-> IF @.asked = 0 THEN @.version ELSE @.asked]]
    /\ UNCHANGED <<begun, students, nextId, dir, version, key, req, rotation, unannounced, tangled, spoiled, late>>

NewPipeline(p) ==
    /\ index[p] # EmptyIndex
    /\ index' = [index EXCEPT ![p] = EmptyIndex]
    /\ UNCHANGED <<begun, students, nextId, dir, version, key, req, rotation, unannounced, tangled, spoiled, late>>

-----------------------------------------------------------------------------
(* scripts/rotate_encryption_key.py, from the active key to the next one.  *)

(* Mutant: students without faces are passed over.                         *)
RotateReadFaces ==
    /\ rotation.pc \in {"idle", "failed"}
    /\ key < MaxKey
    /\ rotation' =
        [pc |-> "read", to |-> key + 1, failed |-> FALSE,
         blobs |-> [s \in {t \in Readable : students[t].faces # {}} |-> students[s].faces]]
    /\ UNCHANGED <<begun, students, nextId, dir, version, key, req, index, unannounced, tangled, spoiled, late>>


RotateRead ==
    /\ rotation.pc \in {"idle", "failed"}  \* bound: run again only after a failure
    /\ key < MaxKey
    /\ rotation' =
        [pc |-> "read", to |-> key + 1,
         blobs |-> [s \in Readable |-> students[s].faces],
         failed |-> \E s \in Ids : Present(s) /\ students[s].key \notin {key, key + 1}]
    /\ UNCHANGED <<begun, students, nextId, dir, version, key, req, index, unannounced, tangled, spoiled, late>>

(* One commit for all rows.  Where a row was deleted meanwhile the update  *)
(* of no row is an error or goes unnoticed, as the driver counts rows.     *)
RotateCommit ==
    /\ rotation.pc = "read"
    /\ LET plan == DOMAIN rotation.blobs IN
       \/ /\ students' = [s \in Ids |->
                IF s \in plan /\ Present(s)
                THEN [students[s] EXCEPT !.key = rotation.to, !.faces = rotation.blobs[s]]
                ELSE students[s]]
          /\ unannounced' = unannounced \cup plan
          /\ rotation' = [rotation EXCEPT !.pc = IF rotation.failed THEN "failed" ELSE "done", !.blobs = <<>>]
       \/ /\ \E s \in plan : ~Present(s)
          /\ rotation' = [rotation EXCEPT !.pc = "failed", !.blobs = <<>>]
          /\ UNCHANGED <<students, unannounced>>
    /\ UNCHANGED <<begun, nextId, dir, version, key, req, index, tangled, spoiled, late>>

(* After exit code 0 the new key goes into .env, and the API and the       *)
(* workers are restarted, with no request in progress.                     *)
SwitchKey ==
    /\ rotation.pc = "done"
    /\ InFlight = {}
    /\ key' = rotation.to
    /\ rotation' = NoRotation
    /\ index' = [p \in Pipelines |-> EmptyIndex]
    /\ UNCHANGED <<begun, students, nextId, dir, version, req, unannounced, tangled, spoiled, late>>

-----------------------------------------------------------------------------
EnrollStep(r) ==
    \/ CheckRegNo(r) \/ Embed(r) \/ Compare(r) \/ Insert(r)
    \/ CommitRow(r) \/ CommitFails(r) \/ Bump(r)
ChangeStep(r) ==
    \/ RewriteFiles(r) \/ RewriteFails(r) \/ UpdateRow(r) \/ ChangeFails(r)
    \/ DeleteRow(r) \/ DropFiles(r) \/ RenameCommit(r)

Next ==
    \/ \E r \in Requests :
        \/ \E reg \in RegNos, photos \in PhotoSets : Enroll(r, [reg |-> reg, photos |-> photos])
        \/ \E csv \in Imports : Import(r, csv)
        \/ \E s \in Ids :
            \/ \E photos \in PhotoSets : ReplaceFace(r, s, photos)
            \/ \E reg \in RegNos : Rename(r, s, reg)
            \/ ClearFace(r, s)
            \/ DeleteStudent(r, s)
        \/ EnrollStep(r)
        \/ ChangeStep(r)
    \/ Restart
    \/ \E p \in Pipelines : AskVersion(p) \/ Load(p) \/ NewPipeline(p)
    \/ RotateRead \/ RotateCommit \/ SwitchKey

Spec == Init /\ [][Next]_vars

-----------------------------------------------------------------------------
TypeOK ==
    /\ students \in [Ids -> Rows \cup {Absent}]
    /\ nextId \in 1 .. MaxStudents + 1
    /\ dir \in [Ids -> Seq(Photo)]
    /\ version \in Nat /\ key \in Keys
    /\ \A r \in Requests :
        /\ req[r].pc \in {"idle", "check", "photos", "compare", "insert", "commit", "bump",
                          "files", "update", "drop", "dropfiles", "rename"}
        /\ req[r].pc \in OnFiles => req[r].sid \in Ids
    /\ \A p \in Pipelines :
        /\ index[p].pc \in {"idle", "load"}
        /\ index[p].entries \subseteq Ids \X Faces
        /\ index[p].version \in 0 .. version /\ index[p].asked \in 0 .. version
    /\ rotation.pc \in {"idle", "read", "done", "failed"}
    /\ unannounced \subseteq Ids /\ late \subseteq Ids
    /\ tangled \subseteq Ids /\ spoiled \subseteq Ids

(* An index filed under the current version holds exactly the current      *)
(* rows, unless a change is still to be announced, or never was: its bump  *)
(* was lost or cut off, or a key rotation made it.                         *)
IndexFresh ==
    \A p \in Pipelines :
        (/\ version > 0 /\ index[p].version = version /\ unannounced = {}
         /\ \A r \in Requests : ~Untold(r))
            => index[p].entries = Entries

(* Two students with the same face, neither of them changed by replace:    *)
(* each was enrolled while the other could not be seen, not committed yet  *)
(* or encrypted with a key the process did not have.                       *)
DuplicatesExplained ==
    \A s, t \in Ids :
        (/\ s # t /\ Present(s) /\ Present(t)
         /\ ~students[s].replaced /\ ~students[t].replaced
         /\ \E f \in students[s].faces : Twins(t, f))
            => s \notin students[t].seen

(* With no request on its files, a student's directory holds the photos of *)
(* the row, and nobody's directory is left behind; except where requests   *)
(* overlapped on one student or died, or replacing or clearing the face    *)
(* failed once the directory was rewritten, until the next replacement or  *)
(* clearing or the deletion makes it good.                                 *)
PhotosAgree ==
    \A s \in Ids \ (tangled \cup spoiled) :
        (\A r \in Requests : ~Busy(r, s))
            => dir[s] = IF Present(s) THEN students[s].photos ELSE <<>>

(* After a switch of keys the only rows out of reach are those the API     *)
(* wrote with the old key after the rotation had read the table.           *)
LeftBehind == \A s \in Ids : Present(s) /\ students[s].key < key => s \in late

(* Whoever is in an index is found by it: each enrolled face matches its   *)
(* student, or another row of the same human when one was enrolled twice.  *)
OwnFaceMatched ==
    \A p \in Pipelines : \A e \in index[p].entries :
        LET m == Match(index[p].entries, e[2]) IN
        m = e[1] \/ (m # NoMatch /\ SameHuman(index[p].entries, m, e[1]))
=============================================================================
