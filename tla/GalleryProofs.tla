-------------------------- MODULE GalleryProofs --------------------------
(* Proofs about Gallery, for every number of request threads, pipelines,   *)
(* ids and keys, every likeness of faces, and all uploads and imports.     *)
EXTENDS Gallery, SequenceTheorems, WellFoundedInduction, TLAPS

(* What a request in progress carries: one that enrolls, and one that      *)
(* changes a student.                                                      *)
PhotosOf(x) ==
    LET photos == Head(x.rows).photos IN
    IF x.bulk /\ Len(photos) > MaxPhotos THEN SubSeq(photos, 1, MaxPhotos) ELSE photos

Comparing == {"compare", "insert", "commit"}

Enrolls ==
    [pc : {"check", "photos", "bump"} \cup Comparing, rows : Seq(Upload) \ {<<>>},
     bulk : BOOLEAN, dry : BOOLEAN, skip : BOOLEAN,
     i : Nat \ {0}, seen : SUBSET Ids, sid : 0 .. MaxStudents]
EnrollsRight(x) ==
    /\ x.pc # "check" => Head(x.rows).reg # Bad
    /\ x.pc \in {"check", "photos"} => x.i = 1
    /\ x.pc \in Comparing =>
        NoFace \notin FacesOf(PhotosOf(x)) /\ Len(PhotosOf(x)) >= 1
    /\ x.pc = "compare" => x.i <= Len(PhotosOf(x))
    /\ x.pc \in {"insert", "commit"} => x.i = Len(PhotosOf(x)) + 1
    /\ x.pc \in {"commit", "bump"} => x.sid # 0
Enrolling == {x \in Enrolls : EnrollsRight(x)}

Changing ==
    {x \in [pc : {"files", "update", "drop", "dropfiles", "rename", "bump"}, sid : Ids,
            photos : Seq(Photo), rows : {<<[reg |-> reg]>> : reg \in RegNos \cup {Bad}}] :
        /\ NoFace \notin FacesOf(x.photos)
        /\ x.pc = "rename" => Head(x.rows).reg # Bad}

Typed ==
    /\ students \in [Ids -> Rows \cup {Absent}]
    /\ nextId \in 1 .. MaxStudents + 1
    /\ dir \in [Ids -> Seq(Photo)]
    /\ version \in Nat /\ key \in Keys
    /\ req \in [Requests -> {Idle} \cup Enrolling \cup Changing]
    /\ index \in [Pipelines -> [pc : {"idle", "load"}, entries : SUBSET (Ids \X Faces),
                                version : Nat, asked : Nat]]
    /\ \A p \in Pipelines : index[p].version <= version /\ index[p].asked <= version
    /\ rotation = [pc |-> rotation.pc, to |-> rotation.to,
                   blobs |-> rotation.blobs, failed |-> rotation.failed]
    /\ rotation.pc \in {"idle", "read", "done", "failed"}
    /\ unannounced \subseteq Ids /\ late \subseteq Ids
    /\ tangled \subseteq Ids /\ spoiled \subseteq Ids

(* The rotation goes from the active key to the next, and what it has read *)
(* of a student stands until a new photo replaces it.                      *)
RotationSound ==
    /\ rotation.pc = "idle" => rotation.to = 0
    /\ rotation.pc # "idle" => rotation.to = key + 1 /\ rotation.to \in Keys
    /\ rotation.pc = "read" =>
        /\ DOMAIN rotation.blobs \subseteq Ids
        /\ \A s \in DOMAIN rotation.blobs :
            /\ rotation.blobs[s] \in SUBSET Faces
            /\ Present(s) /\ ~students[s].replaced => rotation.blobs[s] = students[s].faces

(* Every row has the active key, or is on its way to the next, or is late. *)
KeysAccounted ==
    \A s \in Ids : Present(s) =>
        /\ s \in late \/ students[s].key \in {key, rotation.to}
        /\ rotation.pc = "read" /\ ~rotation.failed =>
            s \in late \cup DOMAIN rotation.blobs \/ students[s].key = rotation.to
        /\ rotation.pc = "done" => s \in late \/ students[s].key = rotation.to

(* An id is used once: nothing refers to one that is not enrolled yet.     *)
Unborn(s) == s >= nextId \/ \E r \in Requests : req[r].pc = "commit" /\ req[r].sid = s
IdsUsedOnce ==
    /\ \A s \in Ids : Unborn(s) =>
        /\ ~Present(s)
        /\ \A t \in Ids : Present(t) => s \notin students[t].seen
        /\ \A q \in Requests : req[q].pc \in Comparing /\ req[q].i > 1 => s \notin req[q].seen
        /\ rotation.pc = "read" => s \notin DOMAIN rotation.blobs
    /\ \A s \in Ids : s >= nextId => dir[s] = <<>>
    /\ \A r \in Requests : req[r].pc \in OnFiles => req[r].sid < nextId
    /\ \A r, q \in Requests :
        req[r].pc = "commit" /\ req[q].pc = "commit" /\ req[r].sid = req[q].sid => r = q

(* Where file work has not overlapped, one request is at it, and it finds  *)
(* the row and the directory as it left them.                              *)
AtWork(r, s) ==
    /\ req[r].pc = "commit" => dir[s] = PhotosOf(req[r])
    /\ req[r].pc \in {"files", "drop"} =>
        Present(s) /\ (s \in spoiled \/ dir[s] = students[s].photos)
    /\ req[r].pc = "update" => Present(s) /\ dir[s] = req[r].photos
    /\ req[r].pc = "dropfiles" => ~Present(s)
FilesUntangled ==
    \A s \in Ids \ tangled, r \in Requests : Busy(r, s) =>
        AtWork(r, s) /\ \A q \in Requests : Busy(q, s) => r = q

(* Those a request has seen do not look like the photos it has compared.   *)
SeenApart ==
    /\ \A s, t \in Ids :
        /\ Present(s) /\ Present(t) /\ s # t
        /\ ~students[s].replaced /\ ~students[t].replaced /\ s \in students[t].seen
        => \A f \in students[s].faces, g \in students[t].faces : ~Alike(f, g)
    /\ \A r \in Requests : req[r].pc \in Comparing =>
        \A k \in 1 .. req[r].i - 1, s \in req[r].seen :
            Present(s) /\ ~students[s].replaced => ~Twins(s, PhotosOf(req[r])[k].face)

GalleryInvariant ==
    /\ Typed /\ RotationSound /\ KeysAccounted /\ IdsUsedOnce
    /\ FilesUntangled /\ SeenApart
    /\ IndexFresh /\ PhotosAgree

-----------------------------------------------------------------------------
(* Steps of a request, by what they do.                                    *)

(* What r is doing becomes x.                                              *)
Now(r, x) ==
    /\ req' = [req EXCEPT ![r] = x]
    /\ x \in {Idle} \cup Enrolling \cup Changing

(* Nothing but the request itself moves, and it holds nothing.             *)
Quiet(r) ==
    /\ req[r].pc \in {"idle", "check", "photos", "compare", "insert"}
    /\ \E x : /\ Now(r, x)
              /\ \/ x.pc \in {"idle", "check", "photos", "rename"}
                 \/ x.pc = "compare" /\ x.i = 1
    /\ UNCHANGED <<rowVars, dir, tangled, spoiled>>

(* The bounds are numbers.                                                 *)
LEMMA Bounds ==
    /\ MinPhotos \in Nat \ {0} /\ MaxPhotos \in Nat \ {0} /\ MaxStudents \in Nat \ {0}
    /\ MinPhotos <= MaxPhotos
    /\ MaxKey \in Nat \ {0}
  BY GalleryAssumption

(* Requests have only the forms above, which say where they are.           *)
LEMMA Forms ==
    ASSUME Typed, NEW r \in Requests
    PROVE  /\ req[r].pc = "idle" => req[r] = Idle
           /\ req[r].pc \in {"check", "photos"} \cup Comparing => req[r] \in Enrolling
           /\ req[r].pc \in {"files", "update", "drop", "dropfiles", "rename"} => req[r] \in Changing
           /\ req[r].pc = "bump" => req[r] \in Enrolling \cup Changing
           /\ req[r].pc \in OnFiles \cup {"bump"} => req[r].sid \in Ids
           /\ req[r].pc \in {"idle", "check", "photos", "bump", "files", "update", "drop",
                             "dropfiles", "rename"} \cup Comparing
  <1>1. CASE req[r] = Idle
    BY <1>1 DEF Idle, Comparing, OnFiles
  <1>2. CASE req[r] \in Enrolling
    BY Bounds, <1>2 DEF Enrolling, Enrolls, EnrollsRight, Comparing, OnFiles, Ids
  <1>3. CASE req[r] \in Changing
    BY <1>3 DEF Changing, Comparing, OnFiles
  <1> QED BY <1>1, <1>2, <1>3 DEF Typed

(* The photos used are photos.                                             *)
LEMMA PhotosAre ==
    ASSUME NEW x \in Enrolling
    PROVE  /\ PhotosOf(x) \in Seq(Photo)
           /\ Head(x.rows) \in Upload
           /\ Tail(x.rows) \in Seq(Upload)
           /\ Len(x.rows) \in Nat \ {0}
           /\ Len(x.rows) # 1 => Tail(x.rows) # <<>>
  <1>1. x.rows \in Seq(Upload) /\ x.rows # <<>> /\ x.bulk \in BOOLEAN
    BY DEF Enrolling, Enrolls
  <1>2. Head(x.rows) \in Upload /\ Tail(x.rows) \in Seq(Upload)
    BY <1>1, HeadTailProperties
  <1>3. Len(x.rows) \in Nat \ {0} /\ (Len(x.rows) # 1 => Tail(x.rows) # <<>>)
    <2>1. Len(x.rows) \in Nat \ {0} /\ Len(Tail(x.rows)) = Len(x.rows) - 1
      BY <1>1, EmptySeq, HeadTailProperties
    <2>2. Len(<<>>) = 0
      BY EmptySeq
    <2>3. ASSUME Len(x.rows) # 1 PROVE Tail(x.rows) # <<>>
      <3>1. Len(Tail(x.rows)) # Len(<<>>)
        BY <2>1, <2>2, <2>3
      <3> QED BY <3>1
    <2> QED BY <2>1, <2>3
  <1>4. Head(x.rows).photos \in Seq(Photo)
    BY <1>2 DEF Upload
  <1>5. PhotosOf(x) \in Seq(Photo)
    <2> DEFINE photos == Head(x.rows).photos
    <2>1. CASE x.bulk /\ Len(photos) > MaxPhotos
      <3>1. MaxPhotos \in Int /\ \A i \in 1 .. MaxPhotos : photos[i] \in Photo
        BY GalleryAssumption, <1>4, <2>1
      <3>2. SubSeq(photos, 1, MaxPhotos) \in Seq(Photo)
        BY <3>1, SubSeqProperties
      <3> QED BY <2>1, <3>2 DEF PhotosOf
    <2>2. CASE ~(x.bulk /\ Len(photos) > MaxPhotos)
      BY <2>2, <1>4 DEF PhotosOf
    <2> QED BY <2>1, <2>2
  <1> QED BY <1>2, <1>3, <1>5

(* After a row the request is done or checks its next one.                 *)
LEMMA RowDoneMoves ==
    ASSUME Typed, NEW r \in Requests, req[r] # Idle, RowDone(r)
    PROVE  \E x : Now(r, x) /\ x.pc \in {"idle", "check"}
  <1>1. CASE Len(req[r].rows) = 1
    <2>1. Now(r, Idle)
      BY <1>1 DEF RowDone, NextRow, Now
    <2> QED BY <2>1 DEF Idle
  <1>2. CASE Len(req[r].rows) # 1
    <2>1. req[r] \in Enrolling
      <3>1. req[r] \notin Changing
        <4> SUFFICES ASSUME req[r] \in Changing PROVE FALSE
          OBVIOUS
        <4>1. PICK reg \in RegNos \cup {Bad} : req[r].rows = <<[reg |-> reg]>>
          BY DEF Changing
        <4> QED BY <4>1, <1>2
      <3> QED BY <3>1 DEF Typed
    <2> DEFINE x == [req[r] EXCEPT !.pc = "check", !.rows = Tail(req[r].rows), !.i = 1, !.seen = Ids, !.sid = 0]
    <2>2. Tail(req[r].rows) \in Seq(Upload) \ {<<>>}
      BY <2>1, <1>2, PhotosAre
    <2>3. x \in Enrolls
      <3>1. req[r] \in Enrolls
        BY <2>1 DEF Enrolling
      <3>2. 0 \in 0 .. MaxStudents /\ 1 \in Nat \ {0} /\ Ids \in SUBSET Ids
        BY Bounds
      <3> HIDE DEF Ids
      <3> QED BY <2>2, <3>1, <3>2 DEF Enrolls
    <2>5. x.pc = "check" /\ x.i = 1
      BY <2>1 DEF Enrolling, Enrolls
    <2>6. x \in Enrolling
      BY <2>3, <2>5 DEF Enrolling, EnrollsRight, Comparing
    <2>4. req' = [req EXCEPT ![r] = x]
      BY <1>2 DEF RowDone, NextRow
    <2> QED BY <2>4, <2>5, <2>6 DEF Now
  <1> QED BY <1>1, <1>2

(* The photos in use depend on the rows and the kind of request only.      *)
LEMMA SamePhotos ==
    ASSUME NEW x, NEW y, x.rows = y.rows, x.bulk = y.bulk
    PROVE  PhotosOf(x) = PhotosOf(y)
  BY DEF PhotosOf

(* A row that is given up.                                                 *)
LEMMA RowGivenUp ==
    ASSUME Typed, NEW r \in Requests, RowDone(r), UNCHANGED <<rowVars, dir, tangled, spoiled>>,
           req[r].pc \in {"check", "photos", "compare", "insert"}
    PROVE  Quiet(r)
  <1>1. req[r] # Idle
    BY DEF Idle
  <1> QED BY <1>1, RowDoneMoves DEF Quiet

(* Requests that begin to enroll.                                          *)
LEMMA EnrollBegins ==
    ASSUME Typed, NEW r \in Requests,
           \/ \E reg \in RegNos, photos \in PhotoSets : Enroll(r, [reg |-> reg, photos |-> photos])
           \/ \E csv \in Imports : Import(r, csv)
    PROVE  Quiet(r)
  <1>1. ASSUME NEW rows \in Seq(Upload), rows # <<>>,
               NEW bulk \in BOOLEAN, NEW dry \in BOOLEAN, NEW skip \in BOOLEAN,
               Begin(r, Request(rows, bulk, dry, skip)), UNCHANGED <<rowVars, dir, tangled, spoiled>>
        PROVE  Quiet(r)
    <2> DEFINE x == Request(rows, bulk, dry, skip)
    <2>1. 0 \in 0 .. MaxStudents /\ 1 \in Nat \ {0} /\ Ids \in SUBSET Ids
      BY Bounds
    <2>2. x \in Enrolls /\ x.pc = "check" /\ x.i = 1
      <3> HIDE DEF Ids
      <3> QED BY <1>1, <2>1 DEF Request, Enrolls
    <2>3. x \in Enrolling
      BY <2>2 DEF Enrolling, EnrollsRight, Comparing
    <2>4. req' = [req EXCEPT ![r] = x] /\ req[r].pc = "idle"
      BY <1>1 DEF Begin, Idle
    <2> QED BY <1>1, <2>2, <2>3, <2>4 DEF Quiet, Now
  <1>2. ASSUME NEW reg \in RegNos, NEW photos \in PhotoSets,
               Enroll(r, [reg |-> reg, photos |-> photos])
        PROVE  Quiet(r)
    <2>1. [reg |-> reg, photos |-> photos] \in Upload
      BY GalleryAssumption DEF Upload
    <2>2. <<[reg |-> reg, photos |-> photos]>> \in Seq(Upload)
      BY <2>1
    <2>3. <<[reg |-> reg, photos |-> photos]>> # <<>>
      OBVIOUS
    <2> QED BY <1>1, <1>2, <2>2, <2>3 DEF Enroll
  <1>3. ASSUME NEW csv \in Imports, Import(r, csv) PROVE Quiet(r)
    <2>1. csv.rows \in Seq(Upload) /\ csv.dry \in BOOLEAN /\ csv.skip \in BOOLEAN
      BY GalleryAssumption
    <2> QED BY <1>1, <1>3, <2>1 DEF Import
  <1> QED BY <1>2, <1>3

(* Looking a number up and checking photos.                                *)
LEMMA ChecksAreQuiet ==
    ASSUME Typed, NEW r \in Requests, CheckRegNo(r) \/ Embed(r)
    PROVE  Quiet(r)
  <1>1. UNCHANGED <<rowVars, dir, tangled, spoiled>> /\ req[r].pc \in {"check", "photos"}
    BY DEF CheckRegNo, Embed
  <1>2. CASE RowDone(r)
    BY <1>1, <1>2, RowGivenUp
  <1>3. req[r] \in Enrolling
    BY <1>1, Forms
  <1>4. CASE CheckRegNo(r) /\ ~RowDone(r)
    <2> DEFINE x == [req[r] EXCEPT !.pc = "photos"]
    <2>1. req' = [req EXCEPT ![r] = x] /\ req[r].pc = "check" /\ Upload1(r).reg # Bad
      BY <1>4 DEF CheckRegNo
    <2>2. x \in Enrolls /\ x.pc = "photos" /\ x.i = req[r].i /\ x.rows = req[r].rows
      BY <1>3 DEF Enrolling, Enrolls
    <2>3. x \in Enrolling
      BY <1>3, <2>1, <2>2 DEF Enrolling, EnrollsRight, Comparing, Upload1
    <2> QED BY <1>1, <2>1, <2>2, <2>3 DEF Quiet, Now
  <1>5. CASE Embed(r) /\ ~RowDone(r)
    <2> DEFINE x == [req[r] EXCEPT !.pc = "compare"]
    <2>1. /\ req' = [req EXCEPT ![r] = x] /\ req[r].pc = "photos"
          /\ CountOk(Used(r)) /\ NoFace \notin FacesOf(Used(r))
      BY <1>5 DEF Embed
    <2>2. /\ x \in Enrolls /\ x.pc = "compare" /\ x.i = req[r].i
          /\ x.rows = req[r].rows /\ x.bulk = req[r].bulk
      BY <1>3 DEF Enrolling, Enrolls, Comparing
    <2>3. PhotosOf(x) = PhotosOf(req[r]) /\ Used(r) = PhotosOf(req[r])
      BY <2>2, SamePhotos DEF Used, PhotosOf, Upload1
    <2>4. Len(PhotosOf(req[r])) >= 1
      <3>1. Len(PhotosOf(req[r])) \in Nat
        BY <1>3, PhotosAre, LenProperties
      <3> QED BY <2>1, <2>3, <3>1, Bounds DEF CountOk
    <2>5. x.i = 1 /\ Head(x.rows).reg # Bad
      BY <1>3, <2>1, <2>2 DEF Enrolling, EnrollsRight
    <2> HIDE DEF x
    <2>6. x \in Enrolling
      BY <2>1, <2>2, <2>3, <2>4, <2>5 DEF Enrolling, EnrollsRight, Comparing
    <2> QED BY <1>1, <2>1, <2>2, <2>5, <2>6 DEF Quiet, Now
  <1> QED BY <1>2, <1>4, <1>5

-----------------------------------------------------------------------------
(* What each kind of step leaves true.                                     *)

(* Only r moves.                                                           *)
LEMMA OnlyOneMoves ==
    ASSUME Typed, NEW r \in Requests, NEW x, Now(r, x)
    PROVE  /\ req' \in [Requests -> {Idle} \cup Enrolling \cup Changing]
           /\ req'[r] = x
           /\ \A q \in Requests \ {r} : req'[q] = req[q]
  BY DEF Typed, Now

LEMMA QuietKeeps ==
    ASSUME GalleryInvariant, NEW r \in Requests, Quiet(r)
    PROVE  GalleryInvariant'
  <1> USE DEF GalleryInvariant
  <1>1. PICK x : /\ Now(r, x)
                 /\ \/ x.pc \in {"idle", "check", "photos", "rename"}
                    \/ x.pc = "compare" /\ x.i = 1
    BY DEF Quiet
  <1>2. UNCHANGED <<students, nextId, version, key, index, rotation, unannounced, late, dir, tangled, spoiled>>
    BY DEF Quiet, rowVars
  <1>3. /\ req' \in [Requests -> {Idle} \cup Enrolling \cup Changing]
        /\ req'[r] = x
        /\ \A q \in Requests \ {r} : req'[q] = req[q]
    BY <1>1, OnlyOneMoves
  <1>4. /\ req[r].pc \notin OnFiles /\ ~Untold(r) /\ req[r].pc # "commit"
        /\ x.pc \notin OnFiles /\ x.pc \notin {"bump", "dropfiles"} /\ x.pc # "commit"
    BY <1>1 DEF Quiet, OnFiles, Untold
  <1>5. \A q \in Requests : req'[q].pc \in OnFiles \cup {"bump"} => req'[q] = req[q]
    BY <1>3, <1>4 DEF OnFiles
  <1>6. \A q \in Requests : req[q].pc \in OnFiles \cup {"bump"} => req'[q] = req[q]
    BY <1>3, <1>4 DEF OnFiles, Untold
  <1>7. Typed'
    BY <1>2, <1>3 DEF Typed
  <1>8. RotationSound' /\ KeysAccounted'
    BY <1>2 DEF RotationSound, KeysAccounted, Present
  <1>9. IdsUsedOnce'
    <2>1. \A s \in Ids : Unborn(s)' => Unborn(s)
      BY <1>2, <1>3, <1>4 DEF Unborn
    <2>2. \A q \in Requests : req'[q].pc \in Comparing /\ req'[q].i > 1 => req'[q] = req[q]
      BY <1>1, <1>3 DEF Comparing
    <2> QED BY <1>2, <1>3, <1>4, <1>5, <2>1, <2>2 DEF IdsUsedOnce, Present
  <1>10. FilesUntangled'
    BY <1>2, <1>5, <1>6 DEF FilesUntangled, AtWork, Busy, OnFiles, Present
  <1>11. SeenApart'
    <2>1. ASSUME NEW q \in Requests, req'[q].pc \in Comparing,
                 NEW k \in 1 .. req'[q].i - 1, NEW s \in req'[q].seen,
                 Present(s)', ~students'[s].replaced
          PROVE  ~Twins(s, PhotosOf(req[q])[k].face) /\ req'[q] = req[q]
      <3>1. req'[q] = req[q]
        BY <1>1, <1>3, <2>1 DEF Comparing
      <3> QED BY <1>2, <2>1, <3>1 DEF SeenApart, Present
    <2> QED BY <1>2, <2>1 DEF SeenApart, Present, Twins
  <1>12. IndexFresh'
    BY <1>2, <1>3, <1>4 DEF IndexFresh, Untold, Entries, Readable, Present
  <1>13. PhotosAgree'
    BY <1>2, <1>6 DEF PhotosAgree, Busy, OnFiles, Present
  <1> QED BY <1>7, <1>8, <1>9, <1>10, <1>11, <1>12, <1>13

(* One more photo is compared with everybody who can be read.              *)
LEMMA CompareKeeps ==
    ASSUME GalleryInvariant, NEW r \in Requests, Compare(r)
    PROVE  GalleryInvariant'
  <1> USE DEF GalleryInvariant
  <1>1. req[r].pc = "compare" /\ UNCHANGED <<rowVars, dir, tangled, spoiled>>
    BY DEF Compare
  <1>2. CASE RowDone(r)
    BY <1>1, <1>2, RowGivenUp, QuietKeeps
  <1>3. CASE ~RowDone(r)
    <2> DEFINE y == req[r]
               pc == IF y.i = Len(Used(r)) THEN "insert" ELSE "compare"
               x == [y EXCEPT !.pc = pc, !.i = y.i + 1, !.seen = y.seen \cap Readable]
    <2>1. req' = [req EXCEPT ![r] = x]
      BY <1>3 DEF Compare
    <2>2. \A s \in Readable : ~Twins(s, Used(r)[y.i].face)
      BY <1>3 DEF Compare
    <2>3. y \in Enrolling
      BY <1>1, Forms
    <2>4. Used(r) = PhotosOf(y) /\ Len(PhotosOf(y)) \in Nat
      BY <2>3, PhotosAre, LenProperties DEF Used, PhotosOf, Upload1
    <2>5. /\ x \in Enrolls /\ x.pc = pc /\ x.i = y.i + 1 /\ x.seen = y.seen \cap Readable
          /\ x.rows = y.rows /\ x.bulk = y.bulk
      <3>1. y \in Enrolls
        BY <2>3 DEF Enrolling
      <3>2. y.i + 1 \in Nat \ {0} /\ y.seen \cap Readable \in SUBSET Ids
        BY <3>1 DEF Enrolls
      <3>3. pc \in {"insert", "compare"}
        OBVIOUS
      <3> HIDE DEF pc
      <3> QED BY <3>1, <3>2, <3>3 DEF Enrolls, Comparing
    <2>6. PhotosOf(x) = PhotosOf(y)
      BY <2>5, SamePhotos
    <2>7. y.i \in Nat \ {0} /\ y.i <= Len(PhotosOf(y)) /\ y.seen \in SUBSET Ids
      BY <2>3, <1>1 DEF Enrolling, Enrolls, EnrollsRight
    <2>8. x.pc \in {"compare", "insert"}
      BY <2>5
    <2>9. EnrollsRight(x)
      <3>1. x.pc = "insert" => x.i = Len(PhotosOf(x)) + 1
        BY <2>4, <2>5, <2>6, <2>7
      <3>2. x.pc = "compare" => x.i <= Len(PhotosOf(x))
        BY <2>4, <2>5, <2>6, <2>7
      <3>3. Head(x.rows).reg # Bad /\ NoFace \notin FacesOf(PhotosOf(x)) /\ Len(PhotosOf(x)) >= 1
        BY <1>1, <2>3, <2>5, <2>6 DEF Enrolling, EnrollsRight, Comparing
      <3> HIDE DEF x
      <3> QED BY <2>8, <3>1, <3>2, <3>3 DEF EnrollsRight, Comparing
    <2>10. Now(r, x)
      BY <2>1, <2>5, <2>9 DEF Now, Enrolling
    <2> HIDE DEF x
    <2>11. /\ req' \in [Requests -> {Idle} \cup Enrolling \cup Changing]
           /\ req'[r] = x
           /\ \A q \in Requests \ {r} : req'[q] = req[q]
      BY <2>10, OnlyOneMoves
    <2>12. UNCHANGED <<students, nextId, version, key, index, rotation, unannounced, late, dir, tangled, spoiled>>
      BY <1>1 DEF rowVars
    <2>13. \A q \in Requests : req'[q].pc \in OnFiles \cup {"bump"} => req'[q] = req[q]
      BY <2>8, <2>11 DEF OnFiles
    <2>14. \A q \in Requests : req[q].pc \in OnFiles \cup {"bump"} => req'[q] = req[q]
      BY <1>1, <2>11 DEF OnFiles
    <2>15. Typed'
      BY <2>11, <2>12 DEF Typed
    <2>16. RotationSound' /\ KeysAccounted'
      BY <2>12 DEF RotationSound, KeysAccounted, Present
    <2>17. IdsUsedOnce'
      <3>1. \A s \in Ids : Unborn(s)' => Unborn(s)
        BY <2>12, <2>13 DEF Unborn, OnFiles
      <3>2. ASSUME NEW s \in Ids, Unborn(s) PROVE s \notin x.seen
        BY <2>5, <3>2 DEF IdsUsedOnce, Readable
      <3> QED BY <2>11, <2>12, <2>13, <3>1, <3>2 DEF IdsUsedOnce, Present, OnFiles
    <2>18. FilesUntangled'
      BY <2>12, <2>13, <2>14 DEF FilesUntangled, AtWork, Busy, OnFiles, Present
    <2>19. SeenApart'
      <3>1. ASSUME NEW k \in 1 .. x.i - 1, NEW s \in x.seen, Present(s), ~students[s].replaced
            PROVE  ~Twins(s, PhotosOf(x)[k].face)
        <4>1. CASE k = y.i
          BY <2>2, <2>4, <2>5, <2>6, <4>1
        <4>2. CASE k # y.i
          <5>1. k \in 1 .. y.i - 1 /\ s \in y.seen
            BY <2>5, <2>7, <3>1, <4>2
          <5> QED BY <1>1, <2>6, <3>1, <5>1 DEF SeenApart, Comparing
        <4> QED BY <4>1, <4>2
      <3> QED BY <2>11, <2>12, <3>1 DEF SeenApart, Present, Twins
    <2>20. IndexFresh'
      BY <2>12, <2>13, <2>14 DEF IndexFresh, Untold, Entries, Readable, Present, OnFiles
    <2>21. PhotosAgree'
      BY <2>12, <2>14 DEF PhotosAgree, Busy, OnFiles, Present
    <2> QED BY <2>15, <2>16, <2>17, <2>18, <2>19, <2>20, <2>21
  <1> QED BY <1>2, <1>3

(* The new row is flushed: its id is taken and its photos are on disk.     *)
LEMMA InsertKeeps ==
    ASSUME GalleryInvariant, NEW r \in Requests, Insert(r)
    PROVE  GalleryInvariant'
  <1> USE DEF GalleryInvariant
  <1>1. /\ req[r].pc = "insert"
        /\ UNCHANGED <<students, version, key, index, rotation, unannounced, tangled, spoiled, late>>
    BY DEF Insert
  <1>2. CASE RowDone(r) /\ UNCHANGED <<nextId, dir>>
    BY <1>1, <1>2, RowGivenUp, QuietKeeps DEF rowVars
  <1>3. CASE ~(RowDone(r) /\ UNCHANGED <<nextId, dir>>)
    <2>19. PICK n : n = nextId
      OBVIOUS
    <2> DEFINE y == req[r]
               x == [y EXCEPT !.pc = "commit", !.sid = n]
    <2>1. /\ n <= MaxStudents /\ nextId' = n + 1 /\ n = nextId
          /\ dir' = [dir EXCEPT ![n] = Used(r)]
          /\ req' = [req EXCEPT ![r] = x]
      BY <1>3, <2>19 DEF Insert
    <2>2. y \in Enrolling /\ n \in Ids /\ n \in Nat
      <3>1. y \in Enrolling
        BY <1>1, Forms DEF Comparing
      <3>2. n \in 1 .. MaxStudents + 1
        BY <2>1 DEF Typed
      <3> QED BY <2>1, <3>1, <3>2, Bounds DEF Ids
    <2>3. Used(r) = PhotosOf(y) /\ PhotosOf(y) \in Seq(Photo)
      BY <2>2, PhotosAre DEF Used, PhotosOf, Upload1
    <2>4. /\ x \in Enrolls /\ x.pc = "commit" /\ x.sid = n /\ x.i = y.i /\ x.seen = y.seen
          /\ x.rows = y.rows /\ x.bulk = y.bulk
      <3>1. y \in Enrolls /\ n \in 0 .. MaxStudents
        BY <2>1, <2>2, Bounds DEF Enrolling
      <3> QED BY <3>1 DEF Enrolls, Comparing
    <2>5. PhotosOf(x) = PhotosOf(y)
      BY <2>4, SamePhotos
    <2>6. EnrollsRight(x)
      <3>1. /\ y.i = Len(PhotosOf(y)) + 1 /\ Head(y.rows).reg # Bad
            /\ NoFace \notin FacesOf(PhotosOf(y)) /\ Len(PhotosOf(y)) >= 1
        BY <1>1, <2>2 DEF Enrolling, EnrollsRight, Comparing
      <3>2. n # 0
        BY <2>2 DEF Ids
      <3> HIDE DEF x
      <3> QED BY <2>4, <2>5, <3>1, <3>2 DEF EnrollsRight, Comparing
    <2>7. Now(r, x)
      BY <2>1, <2>4, <2>6 DEF Now, Enrolling
    <2> HIDE DEF x
    <2>8. /\ req' \in [Requests -> {Idle} \cup Enrolling \cup Changing]
          /\ req'[r] = x
          /\ \A q \in Requests \ {r} : req'[q] = req[q]
      BY <2>7, OnlyOneMoves
    <2>9. dir' \in [Ids -> Seq(Photo)] /\ dir'[n] = PhotosOf(y)
          /\ \A s \in Ids \ {n} : dir'[s] = dir[s]
      BY <2>1, <2>2, <2>3 DEF Typed
    <2>10. \A q \in Requests : req[q].pc \in OnFiles => req[q].sid \in Ids /\ req[q].sid < n
      BY <2>1, Forms DEF IdsUsedOnce
    <2>11. nextId' \in 1 .. MaxStudents + 1
      BY <2>1, <2>2, Bounds
    <2>12. Typed'
      BY <1>1, <2>8, <2>9, <2>11 DEF Typed
    <2>13. RotationSound' /\ KeysAccounted'
      BY <1>1 DEF RotationSound, KeysAccounted, Present
    <2>14. IdsUsedOnce'
      <3>1. ASSUME NEW s \in Ids, Unborn(s)' PROVE Unborn(s)
        <4>1. CASE s >= nextId'
          BY <2>1, <2>2, <4>1 DEF Unborn, Ids
        <4>2. CASE \E q \in Requests : req'[q].pc = "commit" /\ req'[q].sid = s
          BY <2>1, <2>2, <2>4, <2>8, <4>2 DEF Unborn, Ids
        <4> QED BY <3>1, <4>1, <4>2 DEF Unborn
      <3>2. \A q \in Requests : req'[q].pc \in Comparing =>
                req[q].pc \in Comparing /\ req'[q].i = req[q].i /\ req'[q].seen = req[q].seen
        BY <1>1, <2>4, <2>8 DEF Comparing
      <3>3. \A s \in Ids : s >= nextId' => s # n /\ s >= nextId
        BY <2>1, <2>2 DEF Ids
      <3>4. \A q \in Requests : req'[q].pc \in OnFiles => req'[q].sid < nextId'
        BY <2>1, <2>2, <2>4, <2>8, <2>10 DEF Ids
      <3>5. ASSUME NEW q \in Requests, NEW p \in Requests, req'[q].pc = "commit",
                   req'[p].pc = "commit", req'[q].sid = req'[p].sid
            PROVE  q = p
        BY <2>2, <2>4, <2>8, <2>10, <3>5 DEF IdsUsedOnce, OnFiles, Ids
      <3>6. \A s \in Ids : s >= nextId' => dir'[s] = <<>>
        BY <2>9, <3>3 DEF IdsUsedOnce
      <3>7. ASSUME NEW s \in Ids, Unborn(s)'
            PROVE  /\ ~Present(s)'
                   /\ \A t \in Ids : Present(t)' => s \notin students'[t].seen
                   /\ \A q \in Requests : req'[q].pc \in Comparing /\ req'[q].i > 1 => s \notin req'[q].seen
                   /\ rotation'.pc = "read" => s \notin DOMAIN rotation'.blobs
        BY <1>1, <3>1, <3>2, <3>7 DEF IdsUsedOnce, Present
      <3> QED BY <3>4, <3>5, <3>6, <3>7 DEF IdsUsedOnce
    <2>15. FilesUntangled'
      <3>1. \A q \in Requests \ {r}, s \in Ids : Busy(q, s)' => Busy(q, s) /\ s # n
        BY <2>8, <2>10, <2>2 DEF Busy, Ids
      <3>2. \A s \in Ids : Busy(r, s)' => s = n
        BY <2>4, <2>8 DEF Busy
      <3>3. ASSUME NEW s \in Ids \ tangled, NEW q \in Requests \ {r}, Busy(q, s)'
            PROVE  AtWork(q, s)' /\ \A p \in Requests : Busy(p, s)' => q = p
        <4>1. AtWork(q, s) /\ s # n /\ \A p \in Requests : Busy(p, s) => q = p
          BY <3>1, <3>3 DEF FilesUntangled
        <4> QED BY <1>1, <2>8, <2>9, <3>1, <3>2, <4>1 DEF AtWork, Present
      <3>4. AtWork(r, n)'
        BY <2>4, <2>5, <2>8, <2>9 DEF AtWork
      <3> QED BY <1>1, <3>1, <3>2, <3>3, <3>4 DEF FilesUntangled
    <2>16. SeenApart'
      <3>1. \A q \in Requests : req'[q].pc \in Comparing =>
                /\ req[q].pc \in Comparing /\ req'[q].i = req[q].i /\ req'[q].seen = req[q].seen
                /\ PhotosOf(req'[q]) = PhotosOf(req[q])
        BY <1>1, <2>4, <2>5, <2>8 DEF Comparing
      <3> QED BY <1>1, <3>1 DEF SeenApart, Present, Twins
    <2>17. IndexFresh'
      BY <1>1, <2>4, <2>8 DEF IndexFresh, Untold, Entries, Readable, Present
    <2>18. PhotosAgree'
      <3>1. Busy(r, n)'
        BY <2>4, <2>8 DEF Busy, OnFiles
      <3>2. \A q \in Requests, s \in Ids : Busy(q, s) => Busy(q, s)'
        BY <1>1, <2>8 DEF Busy, OnFiles
      <3> QED BY <1>1, <2>9, <3>1, <3>2 DEF PhotosAgree, Present
    <2> QED BY <2>12, <2>13, <2>14, <2>15, <2>16, <2>17, <2>18
  <1> QED BY <1>2, <1>3

(* The row is committed.                                                   *)
LEMMA CommitKeeps ==
    ASSUME GalleryInvariant, NEW r \in Requests, CommitRow(r)
    PROVE  GalleryInvariant'
  <1> USE DEF GalleryInvariant
  <1>0. PICK n : n = req[r].sid
    OBVIOUS
  <1> DEFINE y == req[r]
             x == [y EXCEPT !.pc = "bump"]
             row == Row(Upload1(r), Used(r), key, y.seen)
  <1>1. /\ y.pc = "commit" /\ req' = [req EXCEPT ![r] = x]
        /\ students' = [students EXCEPT ![n] = row]
        /\ late' = Late(n)
        /\ UNCHANGED <<nextId, dir, version, key, index, rotation, unannounced, tangled, spoiled>>
    BY <1>0 DEF CommitRow
  <1>2. y \in Enrolling /\ n \in Ids /\ y.sid = n
    BY <1>0, <1>1, Forms DEF Comparing, OnFiles
  <1>3. Used(r) = PhotosOf(y) /\ PhotosOf(y) \in Seq(Photo) /\ Upload1(r) \in Upload
    BY <1>2, PhotosAre DEF Used, PhotosOf, Upload1
  <1>4. /\ x \in Enrolls /\ x.pc = "bump" /\ x.sid = n
    BY <1>2 DEF Enrolling, Enrolls, Comparing
  <1>5. x \in Enrolling
    <2>1. Head(y.rows).reg # Bad /\ y.sid # 0 /\ x.rows = y.rows
      BY <1>1, <1>2 DEF Enrolling, Enrolls, EnrollsRight, Comparing
    <2> HIDE DEF x
    <2> QED BY <1>2, <1>4, <2>1 DEF Enrolling, EnrollsRight, Comparing
  <1>6. /\ req' \in [Requests -> {Idle} \cup Enrolling \cup Changing]
        /\ req'[r] = x
        /\ \A q \in Requests \ {r} : req'[q] = req[q]
    BY <1>1, <1>5, OnlyOneMoves DEF Now
  <1>7. /\ NoFace \notin FacesOf(PhotosOf(y)) /\ Upload1(r).reg # Bad
        /\ y.i = Len(PhotosOf(y)) + 1 /\ Len(PhotosOf(y)) >= 1
        /\ y.seen \in SUBSET Ids
    BY <1>1, <1>2 DEF Enrolling, Enrolls, EnrollsRight, Comparing, Upload1
  <1>8. FacesOf(PhotosOf(y)) \in SUBSET Faces
    <2>1. \A k \in DOMAIN PhotosOf(y) : PhotosOf(y)[k] \in Photo
      BY <1>3
    <2> QED BY <1>7, <2>1 DEF FacesOf, Photo
  <1>9. row \in Rows /\ row # Absent
    <2>1. key \in Keys /\ Upload1(r).reg \in RegNos
      BY <1>3, <1>7 DEF Typed, Upload
    <2>2. row \in Rows
      BY <1>3, <1>7, <1>8, <2>1 DEF Row, Rows
    <2>3. row.reg # Bad
      BY <1>7 DEF Row
    <2> QED BY <2>2, <2>3 DEF Absent
  <1>10. /\ row.key = key /\ row.faces = FacesOf(PhotosOf(y)) /\ row.photos = PhotosOf(y)
         /\ row.seen = y.seen /\ row.replaced = FALSE
    BY <1>3 DEF Row
  <1> HIDE DEF x, row
  <1>11. /\ students' \in [Ids -> Rows \cup {Absent}] /\ students'[n] = row
         /\ \A s \in Ids \ {n} : students'[s] = students[s]
    BY <1>1, <1>2, <1>9 DEF Typed
  <1>12. Unborn(n) /\ ~Present(n)
    BY <1>1, <1>2 DEF Unborn, IdsUsedOnce
  <1>13. \A q \in Requests : req'[q].pc \in OnFiles => q # r /\ req'[q] = req[q]
    BY <1>4, <1>6 DEF OnFiles
  <1>14. \A q \in Requests : req'[q].pc \in Comparing => q # r /\ req'[q] = req[q]
    BY <1>4, <1>6 DEF Comparing
  <1>15. late' \subseteq Ids /\ late \subseteq late' /\ (rotation.to > key => n \in late')
    BY <1>1, <1>2 DEF Late, Typed
  <1>16. Typed'
    BY <1>1, <1>6, <1>11, <1>15 DEF Typed
  <1>17. RotationSound'
    <2>1. rotation.pc = "read" => n \notin DOMAIN rotation.blobs
      BY <1>2, <1>12 DEF IdsUsedOnce
    <2> QED BY <1>1, <1>11, <2>1 DEF RotationSound, Present
  <1>18. KeysAccounted'
    <2>1. rotation.pc \in {"read", "done"} => rotation.to > key
      BY DEF RotationSound, Typed, Keys
    <2> QED BY <1>1, <1>10, <1>11, <1>15, <2>1 DEF KeysAccounted, Present
  <1>19. \A s \in Ids : Unborn(s)' => Unborn(s) /\ s # n
    <2>1. n < nextId /\ n \in Int /\ nextId \in Int
      BY <1>1, <1>2 DEF IdsUsedOnce, OnFiles, Typed, Ids
    <2>2. \A q \in Requests : req'[q].pc = "commit" => req[q].pc = "commit" /\ req'[q].sid = req[q].sid /\ req[q].sid # n
      BY <1>1, <1>2, <1>13 DEF IdsUsedOnce, OnFiles
    <2> QED BY <1>1, <2>1, <2>2 DEF Unborn, Ids
  <1>20. IdsUsedOnce'
    <2>1. ASSUME NEW s \in Ids, Unborn(s)'
          PROVE  /\ ~Present(s)'
                 /\ \A t \in Ids : Present(t)' => s \notin students'[t].seen
                 /\ \A q \in Requests : req'[q].pc \in Comparing /\ req'[q].i > 1 => s \notin req'[q].seen
                 /\ rotation'.pc = "read" => s \notin DOMAIN rotation'.blobs
      <3>1. Unborn(s) /\ s # n
        BY <1>19, <2>1
      <3>2. s \notin y.seen
        <4>1. y.i > 1 /\ y.pc \in Comparing
          BY <1>1, <1>3, <1>7, LenProperties DEF Comparing
        <4> QED BY <3>1, <4>1 DEF IdsUsedOnce
      <3> QED BY <1>1, <1>10, <1>11, <1>14, <3>1, <3>2 DEF IdsUsedOnce, Present
    <2>2. \A q \in Requests : req'[q].pc \in OnFiles => req'[q].sid < nextId'
      BY <1>1, <1>13 DEF IdsUsedOnce
    <2>3. \A q, p \in Requests :
            req'[q].pc = "commit" /\ req'[p].pc = "commit" /\ req'[q].sid = req'[p].sid => q = p
      BY <1>13 DEF IdsUsedOnce, OnFiles
    <2>4. \A s \in Ids : s >= nextId' => dir'[s] = <<>>
      BY <1>1 DEF IdsUsedOnce
    <2> QED BY <2>1, <2>2, <2>3, <2>4 DEF IdsUsedOnce
  <1>21. FilesUntangled'
    <2>1. Busy(r, n)
      BY <1>1, <1>2 DEF Busy, OnFiles
    <2>2. ASSUME NEW s \in Ids \ tangled, NEW q \in Requests, Busy(q, s)'
          PROVE  AtWork(q, s)' /\ \A p \in Requests : Busy(p, s)' => q = p
      <3>1. q # r /\ Busy(q, s) /\ req'[q] = req[q]
        BY <1>13, <2>2 DEF Busy
      <3>2. AtWork(q, s) /\ \A p \in Requests : Busy(p, s) => q = p
        BY <3>1 DEF FilesUntangled
      <3>3. s # n
        BY <2>1, <3>1, <3>2
      <3> QED BY <1>1, <1>11, <1>13, <3>1, <3>2, <3>3 DEF AtWork, Present, Busy
    <2> QED BY <1>1, <2>2 DEF FilesUntangled
  <1>22. SeenApart'
    <2>1. ASSUME NEW s \in Ids \ {n}, Present(s), ~students[s].replaced, s \in y.seen,
                 NEW f \in students[s].faces, NEW g \in row.faces
          PROVE  ~Alike(f, g)
      <3>1. PICK k \in DOMAIN PhotosOf(y) : g = PhotosOf(y)[k].face
        BY <1>10, <2>1 DEF FacesOf
      <3>2. k \in 1 .. y.i - 1
        BY <1>3, <1>7, <3>1, LenProperties
      <3>3. ~Twins(s, g)
        BY <1>1, <2>1, <3>1, <3>2 DEF SeenApart, Comparing
      <3>4. f \in Faces /\ g \in Faces
        BY <1>8, <1>10, <2>1 DEF Typed, Present, Rows
      <3> QED BY <2>1, <3>3, <3>4, MatchingAssumption DEF Twins, Alike
    <2>2. \A t \in Ids : Present(t) => n \notin students[t].seen
      BY <1>2, <1>12 DEF IdsUsedOnce
    <2>3. ASSUME NEW s \in Ids, NEW t \in Ids, Present(s)', Present(t)', s # t,
                 ~students'[s].replaced, ~students'[t].replaced, s \in students'[t].seen,
                 NEW f \in students'[s].faces, NEW g \in students'[t].faces
          PROVE  ~Alike(f, g)
      <3>1. CASE t = n
        BY <1>10, <1>11, <2>1, <2>3, <3>1 DEF Present
      <3>2. CASE t # n
        <4>1. s # n
          BY <1>11, <2>2, <2>3, <3>2 DEF Present
        <4> QED BY <1>11, <2>3, <3>2, <4>1 DEF SeenApart, Present
      <3> QED BY <3>1, <3>2
    <2>4. ASSUME NEW q \in Requests, req'[q].pc \in Comparing,
                 NEW k \in 1 .. req'[q].i - 1, NEW s \in req'[q].seen,
                 Present(s)', ~students'[s].replaced
          PROVE  ~Twins(s, PhotosOf(req[q])[k].face)' /\ req'[q] = req[q]
      <3>1. req'[q] = req[q] /\ req[q] \in Enrolling
        BY <1>14, <2>4, Forms DEF Comparing
      <3>2. req[q].i > 1 /\ s \in Ids
        BY <2>4, <3>1 DEF Enrolling, Enrolls
      <3>3. s # n
        BY <1>2, <1>12, <2>4, <3>1, <3>2 DEF IdsUsedOnce
      <3>4. students'[s] = students[s] /\ ~Twins(s, PhotosOf(req[q])[k].face)
        BY <1>11, <2>4, <3>1, <3>2, <3>3 DEF SeenApart, Present
      <3> QED BY <3>1, <3>4 DEF Twins
    <2> QED BY <2>3, <2>4 DEF SeenApart, Alike, Twins
  <1>23. IndexFresh'
    BY <1>4, <1>6 DEF IndexFresh, Untold
  <1>24. PhotosAgree'
    <2>1. ASSUME NEW s \in Ids \ (tangled \cup spoiled), \A q \in Requests : ~Busy(q, s)'
          PROVE  dir[s] = IF Present(s)' THEN students'[s].photos ELSE <<>>
      <3>1. CASE s = n
        <4>1. Busy(r, n)
          BY <1>1, <1>2 DEF Busy, OnFiles
        <4>2. dir[n] = PhotosOf(y)
          BY <1>1, <2>1, <3>1, <4>1 DEF FilesUntangled, AtWork
        <4> QED BY <1>9, <1>10, <1>11, <3>1, <4>2 DEF Present
      <3>2. CASE s # n
        <4>1. \A q \in Requests : ~Busy(q, s)
          BY <1>1, <1>2, <1>6, <2>1, <3>2 DEF Busy
        <4> QED BY <1>11, <2>1, <3>2, <4>1 DEF PhotosAgree, Present
      <3> QED BY <3>1, <3>2
    <2> QED BY <1>1, <2>1 DEF PhotosAgree
  <1> QED BY <1>16, <1>17, <1>18, <1>20, <1>21, <1>22, <1>23, <1>24

(* A row that is given up after it was flushed: its photos go.             *)
LEMMA CommitFailsKeeps ==
    ASSUME GalleryInvariant, NEW r \in Requests, CommitFails(r)
    PROVE  GalleryInvariant'
  <1> USE DEF GalleryInvariant
  <1>0. PICK n : n = req[r].sid
    OBVIOUS
  <1>1. /\ req[r].pc = "commit" /\ RowDone(r)
        /\ dir' = [dir EXCEPT ![n] = <<>>]
        /\ UNCHANGED <<students, nextId, version, key, index, rotation, unannounced, tangled, spoiled, late>>
    BY <1>0 DEF CommitFails, rowVars
  <1>2. n \in Ids /\ req[r] # Idle
    BY <1>0, <1>1, Forms DEF OnFiles, Idle
  <1>3. PICK x : Now(r, x) /\ x.pc \in {"idle", "check"}
    BY <1>1, <1>2, RowDoneMoves
  <1>4. /\ req' \in [Requests -> {Idle} \cup Enrolling \cup Changing]
        /\ req'[r] = x
        /\ \A q \in Requests \ {r} : req'[q] = req[q]
    BY <1>3, OnlyOneMoves
  <1>5. \A q \in Requests :
            /\ req'[q].pc \in OnFiles \cup {"bump"} \cup Comparing => q # r /\ req'[q] = req[q]
            /\ req[q].pc \in {"bump", "dropfiles"} => req'[q] = req[q]
    BY <1>1, <1>3, <1>4 DEF OnFiles, Comparing
  <1>6. Unborn(n) /\ ~Present(n) /\ Busy(r, n)
    BY <1>0, <1>1, <1>2 DEF Unborn, IdsUsedOnce, Busy, OnFiles
  <1>7. /\ dir' \in [Ids -> Seq(Photo)] /\ dir'[n] = <<>>
        /\ \A s \in Ids \ {n} : dir'[s] = dir[s]
    <2>1. <<>> \in Seq(Photo)
      OBVIOUS
    <2> QED BY <1>1, <1>2, <2>1 DEF Typed
  <1>8. Typed'
    BY <1>1, <1>4, <1>7 DEF Typed
  <1>9. RotationSound' /\ KeysAccounted'
    BY <1>1 DEF RotationSound, KeysAccounted, Present
  <1>10. IdsUsedOnce'
    <2>1. \A s \in Ids : Unborn(s)' => Unborn(s)
      BY <1>1, <1>5 DEF Unborn, OnFiles
    <2>2. \A s \in Ids : s >= nextId' => dir'[s] = <<>>
      BY <1>1, <1>7 DEF IdsUsedOnce
    <2> QED BY <1>1, <1>5, <2>1, <2>2 DEF IdsUsedOnce, Present, OnFiles
  <1>11. FilesUntangled'
    <2>1. ASSUME NEW s \in Ids \ tangled, NEW q \in Requests, Busy(q, s)'
          PROVE  AtWork(q, s)' /\ \A p \in Requests : Busy(p, s)' => q = p
      <3>1. q # r /\ Busy(q, s) /\ req'[q] = req[q]
        BY <1>5, <2>1 DEF Busy
      <3>2. AtWork(q, s) /\ \A p \in Requests : Busy(p, s) => q = p
        BY <3>1 DEF FilesUntangled
      <3>3. s # n
        BY <1>6, <3>1, <3>2
      <3> QED BY <1>1, <1>5, <1>7, <3>1, <3>2, <3>3 DEF AtWork, Present, Busy
    <2> QED BY <1>1, <2>1 DEF FilesUntangled
  <1>12. SeenApart'
    BY <1>1, <1>5 DEF SeenApart, Present, Twins
  <1>13. IndexFresh'
    BY <1>1, <1>5 DEF IndexFresh, Untold, Entries, Readable, Present
  <1>14. PhotosAgree'
    <2>1. ASSUME NEW s \in Ids \ (tangled \cup spoiled), \A q \in Requests : ~Busy(q, s)'
          PROVE  dir'[s] = IF Present(s) THEN students[s].photos ELSE <<>>
      <3>1. CASE s = n
        BY <1>6, <1>7, <3>1
      <3>2. CASE s # n
        <4>1. \A q \in Requests : ~Busy(q, s)
          BY <1>0, <1>1, <1>4, <2>1, <3>2 DEF Busy
        <4> QED BY <1>7, <2>1, <3>2, <4>1 DEF PhotosAgree
      <3> QED BY <3>1, <3>2
    <2> QED BY <1>1, <2>1 DEF PhotosAgree, Present
  <1> QED BY <1>8, <1>9, <1>10, <1>11, <1>12, <1>13, <1>14

(* The change is announced, or the counter could not be reached.           *)
LEMMA BumpKeeps ==
    ASSUME GalleryInvariant, NEW r \in Requests, Bump(r)
    PROVE  GalleryInvariant'
  <1> USE DEF GalleryInvariant
  <1>1. /\ req[r].pc = "bump" /\ RowDone(r)
        /\ UNCHANGED <<students, nextId, dir, key, index, rotation, tangled, spoiled, late>>
    BY DEF Bump
  <1>2. req[r].sid \in Ids /\ req[r] # Idle
    BY <1>1, Forms DEF Idle
  <1>3. PICK x : Now(r, x) /\ x.pc \in {"idle", "check"}
    BY <1>1, <1>2, RowDoneMoves
  <1>4. /\ req' \in [Requests -> {Idle} \cup Enrolling \cup Changing]
        /\ req'[r] = x
        /\ \A q \in Requests \ {r} : req'[q] = req[q]
    BY <1>3, OnlyOneMoves
  <1>5. \A q \in Requests :
            /\ req'[q].pc \in OnFiles \cup Comparing => req'[q] = req[q]
            /\ req[q].pc \in OnFiles => req'[q] = req[q]
    BY <1>1, <1>3, <1>4 DEF OnFiles, Comparing
  <1>6. \/ version' = version + 1 /\ unannounced' = {}
        \/ version' = version /\ unannounced' = unannounced \cup {req[r].sid}
    BY DEF Bump
  <1>7. Typed'
    <2>1. version' \in Nat /\ version <= version' /\ unannounced' \subseteq Ids
      BY <1>2, <1>6 DEF Typed
    <2>2. \A p \in Pipelines : index[p].version <= version' /\ index[p].asked <= version'
      BY <1>6 DEF Typed
    <2> QED BY <1>1, <1>4, <2>1, <2>2 DEF Typed
  <1>8. RotationSound' /\ KeysAccounted'
    BY <1>1 DEF RotationSound, KeysAccounted, Present
  <1>9. IdsUsedOnce'
    <2>1. \A s \in Ids : Unborn(s)' => Unborn(s)
      BY <1>1, <1>5 DEF Unborn, OnFiles
    <2> QED BY <1>1, <1>5, <2>1 DEF IdsUsedOnce, Present, OnFiles
  <1>10. FilesUntangled'
    BY <1>1, <1>5 DEF FilesUntangled, AtWork, Busy, OnFiles, Present
  <1>11. SeenApart'
    BY <1>1, <1>5 DEF SeenApart, Present, Twins
  <1>12. IndexFresh'
    <2>1. CASE version' = version + 1
      <3>1. \A p \in Pipelines : index[p].version # version'
        BY <2>1 DEF Typed
      <3> QED BY <1>1, <3>1 DEF IndexFresh
    <2>2. CASE unannounced' = unannounced \cup {req[r].sid}
      BY <2>2 DEF IndexFresh
    <2> QED BY <1>6, <2>1, <2>2
  <1>13. PhotosAgree'
    BY <1>1, <1>5 DEF PhotosAgree, Busy, OnFiles, Present
  <1> QED BY <1>7, <1>8, <1>9, <1>10, <1>11, <1>12, <1>13

(* A change to a student begins.                                           *)
LEMMA TargetKeeps ==
    ASSUME GalleryInvariant, NEW r \in Requests, NEW s \in Ids,
           NEW pc \in {"files", "drop", "rename"}, NEW photos \in Seq(Photo), NoFace \notin FacesOf(photos),
           NEW reg \in RegNos \cup {Bad}, pc = "rename" => reg # Bad,
           Target(r, pc, s, photos, reg)
    PROVE  GalleryInvariant'
  <1> USE DEF GalleryInvariant
  <1> DEFINE x == Change(pc, s, photos, reg)
  <1>1. /\ Present(s) /\ req[r] = Idle /\ req' = [req EXCEPT ![r] = x]
        /\ tangled' = IF pc \in OnFiles /\ \E q \in Requests : Busy(q, s)
                      THEN tangled \cup {s} ELSE tangled
        /\ UNCHANGED <<students, nextId, version, key, index, rotation, unannounced, late, dir, spoiled>>
    BY DEF Target, Begin, rowVars
  <1>2. x.pc = pc /\ x.sid = s /\ x.photos = photos /\ x.rows = <<[reg |-> reg]>>
    BY DEF Change
  <1>3. x \in Changing
    <2>1. <<[reg |-> reg]>> \in {<<[reg |-> g]>> : g \in RegNos \cup {Bad}}
      OBVIOUS
    <2>2. Head(<<[reg |-> reg]>>).reg = reg
      OBVIOUS
    <2> QED BY <2>1, <2>2 DEF Changing, Change
  <1> HIDE DEF x
  <1>4. /\ req' \in [Requests -> {Idle} \cup Enrolling \cup Changing]
        /\ req'[r] = x
        /\ \A q \in Requests \ {r} : req'[q] = req[q]
    BY <1>1, <1>3, OnlyOneMoves DEF Now
  <1>5. \A q \in Requests :
            /\ req'[q].pc \in Comparing \cup {"commit", "update", "dropfiles", "bump"} => req'[q] = req[q]
            /\ req[q].pc \in OnFiles \cup Comparing \cup {"bump"} => req'[q] = req[q] /\ q # r
    BY <1>1, <1>2, <1>4 DEF OnFiles, Comparing, Idle
  <1>6. tangled' \subseteq Ids /\ tangled \subseteq tangled'
    BY <1>1 DEF Typed
  <1>7. Typed'
    BY <1>1, <1>4, <1>6 DEF Typed
  <1>8. RotationSound' /\ KeysAccounted'
    BY <1>1 DEF RotationSound, KeysAccounted, Present
  <1>9. IdsUsedOnce'
    <2>1. \A u \in Ids : Unborn(u)' => Unborn(u)
      BY <1>1, <1>5 DEF Unborn
    <2>2. s < nextId
      BY <1>1 DEF IdsUsedOnce, Unborn, Typed, Ids
    <2>3. \A q \in Requests : req'[q].pc \in OnFiles => req'[q].sid < nextId'
      BY <1>1, <1>2, <1>4, <2>2 DEF IdsUsedOnce
    <2> QED BY <1>1, <1>5, <2>1, <2>3 DEF IdsUsedOnce, Present, OnFiles
  <1>10. FilesUntangled'
    <2>1. ASSUME NEW t \in Ids \ tangled', NEW q \in Requests, Busy(q, t)'
          PROVE  AtWork(q, t)' /\ \A p \in Requests : Busy(p, t)' => q = p
      <3>1. CASE q = r
        <4>1. t = s /\ pc \in OnFiles /\ pc \in {"files", "drop"}
          BY <1>2, <1>4, <2>1, <3>1 DEF Busy, OnFiles
        <4>2. \A p \in Requests : ~Busy(p, s)
          BY <1>1, <2>1, <4>1
        <4>3. s \in spoiled \/ dir[s] = students[s].photos
          BY <1>1, <1>6, <2>1, <4>1, <4>2 DEF PhotosAgree
        <4>4. AtWork(q, t)'
          BY <1>1, <1>2, <1>4, <3>1, <4>1, <4>3 DEF AtWork, Present
        <4>5. \A p \in Requests : Busy(p, s)' => p = r
          BY <1>4, <4>2 DEF Busy
        <4> QED BY <3>1, <4>1, <4>4, <4>5
      <3>2. CASE q # r
        <4>1. req'[q] = req[q] /\ Busy(q, t)
          BY <1>4, <2>1, <3>2 DEF Busy
        <4>2. AtWork(q, t) /\ \A p \in Requests : Busy(p, t) => q = p
          BY <1>6, <2>1, <4>1 DEF FilesUntangled
        <4>3. ~Busy(r, t)'
          <5> SUFFICES ASSUME Busy(r, t)' PROVE FALSE
            OBVIOUS
          <5>1. t = s /\ pc \in OnFiles
            BY <1>2, <1>4 DEF Busy
          <5> QED BY <1>1, <2>1, <4>1, <5>1
        <4> QED BY <1>1, <1>4, <4>1, <4>2, <4>3 DEF AtWork, Present, Busy
      <3> QED BY <3>1, <3>2
    <2> QED BY <2>1 DEF FilesUntangled
  <1>11. SeenApart'
    BY <1>1, <1>5 DEF SeenApart, Present, Twins
  <1>12. IndexFresh'
    BY <1>1, <1>2, <1>4, <1>5 DEF IndexFresh, Untold, Entries, Readable, Present, OnFiles
  <1>13. PhotosAgree'
    BY <1>1, <1>5, <1>6 DEF PhotosAgree, Busy, OnFiles, Present
  <1> QED BY <1>7, <1>8, <1>9, <1>10, <1>11, <1>12, <1>13

(* A request that changes a student goes on.                               *)
LEMMA ChangeMoves ==
    ASSUME Typed, NEW r \in Requests, req[r].pc \in {"files", "update", "drop", "dropfiles"},
           NEW pc \in {"update", "dropfiles", "bump"}, req' = [req EXCEPT ![r].pc = pc]
    PROVE  /\ req' \in [Requests -> {Idle} \cup Enrolling \cup Changing]
           /\ req'[r].pc = pc /\ req'[r].sid = req[r].sid /\ req'[r].photos = req[r].photos
           /\ \A q \in Requests \ {r} : req'[q] = req[q]
  <1> DEFINE x == [req[r] EXCEPT !.pc = pc]
  <1>1. req[r] \in Changing
    BY Forms
  <1>2. x \in Changing /\ x.pc = pc /\ x.sid = req[r].sid /\ x.photos = req[r].photos
    BY <1>1 DEF Changing
  <1>3. Now(r, x)
    BY <1>2 DEF Now
  <1> HIDE DEF x
  <1> QED BY <1>2, <1>3, OnlyOneMoves

(* The directory is rewritten before the row.                              *)
LEMMA RewriteKeeps ==
    ASSUME GalleryInvariant, NEW r \in Requests, RewriteFiles(r)
    PROVE  GalleryInvariant'
  <1> USE DEF GalleryInvariant
  <1>0. PICK n : n = req[r].sid
    OBVIOUS
  <1>1. /\ req[r].pc = "files" /\ req' = [req EXCEPT ![r].pc = "update"]
        /\ dir' = [dir EXCEPT ![n] = req[r].photos]
        /\ UNCHANGED <<students, nextId, version, key, index, rotation, unannounced, tangled, spoiled, late>>
    BY <1>0 DEF RewriteFiles, rowVars
  <1>2. n \in Ids /\ req[r].photos \in Seq(Photo)
    BY <1>0, <1>1, Forms DEF Changing
  <1>3. /\ req' \in [Requests -> {Idle} \cup Enrolling \cup Changing]
        /\ req'[r].pc = "update" /\ req'[r].sid = n /\ req'[r].photos = req[r].photos
        /\ \A q \in Requests \ {r} : req'[q] = req[q]
    BY <1>0, <1>1, ChangeMoves
  <1>4. \A q \in Requests :
            /\ req'[q].pc \in Comparing \cup {"bump", "dropfiles"} => req'[q] = req[q]
            /\ req[q].pc \in Comparing \cup {"bump", "dropfiles"} => req'[q] = req[q]
    BY <1>1, <1>3 DEF Comparing
  <1>5. \A q \in Requests, s \in Ids : Busy(q, s)' <=> Busy(q, s)
    BY <1>0, <1>1, <1>3 DEF Busy, OnFiles
  <1>6. /\ dir' \in [Ids -> Seq(Photo)] /\ dir'[n] = req[r].photos
        /\ \A s \in Ids \ {n} : dir'[s] = dir[s]
    BY <1>1, <1>2 DEF Typed
  <1>7. Busy(r, n)
    BY <1>0, <1>1 DEF Busy, OnFiles
  <1>8. Typed'
    BY <1>1, <1>3, <1>6 DEF Typed
  <1>9. RotationSound' /\ KeysAccounted'
    BY <1>1 DEF RotationSound, KeysAccounted, Present
  <1>10. IdsUsedOnce'
    <2>1. \A s \in Ids : Unborn(s)' => Unborn(s)
      BY <1>1, <1>4 DEF Unborn, Comparing
    <2>2. n < nextId
      BY <1>0, <1>1 DEF IdsUsedOnce, OnFiles
    <2>3. \A s \in Ids : s >= nextId => s # n
      BY <1>2, <2>2 DEF Typed, Ids
    <2>4. \A s \in Ids : s >= nextId' => dir'[s] = <<>>
      BY <1>1, <1>6, <2>3 DEF IdsUsedOnce
    <2>5. \A q \in Requests : req'[q].pc \in OnFiles => req'[q].sid < nextId'
      BY <1>1, <1>3, <2>2 DEF IdsUsedOnce
    <2> QED BY <1>1, <1>4, <2>1, <2>4, <2>5 DEF IdsUsedOnce, Present, Comparing
  <1>11. FilesUntangled'
    <2>1. ASSUME NEW s \in Ids \ tangled, NEW q \in Requests, Busy(q, s)'
          PROVE  AtWork(q, s)' /\ \A p \in Requests : Busy(p, s)' => q = p
      <3>1. AtWork(q, s) /\ \A p \in Requests : Busy(p, s) => q = p
        BY <1>5, <2>1 DEF FilesUntangled
      <3>2. \A p \in Requests : Busy(p, s)' => q = p
        BY <1>5, <3>1
      <3>3. CASE q = r
        <4>1. s = n
          BY <1>3, <2>1, <3>3 DEF Busy
        <4> QED BY <1>1, <1>3, <1>6, <3>1, <3>2, <3>3, <4>1 DEF AtWork, Present
      <3>4. CASE q # r
        <4>1. s # n
          BY <1>7, <3>1, <3>4
        <4> QED BY <1>1, <1>3, <1>6, <3>1, <3>2, <3>4, <4>1 DEF AtWork, Present
      <3> QED BY <3>3, <3>4
    <2> QED BY <1>1, <2>1 DEF FilesUntangled
  <1>12. SeenApart'
    BY <1>1, <1>4 DEF SeenApart, Present, Twins
  <1>13. IndexFresh'
    BY <1>1, <1>4 DEF IndexFresh, Untold, Entries, Readable, Present
  <1>14. PhotosAgree'
    BY <1>1, <1>5, <1>6, <1>7 DEF PhotosAgree, Present
  <1> QED BY <1>8, <1>9, <1>10, <1>11, <1>12, <1>13, <1>14

(* The row follows, unless it has been deleted.                            *)
LEMMA UpdateKeeps ==
    ASSUME GalleryInvariant, NEW r \in Requests, UpdateRow(r)
    PROVE  GalleryInvariant'
  <1> USE DEF GalleryInvariant
  <1>0. PICK n : n = req[r].sid
    OBVIOUS
  <1>1. /\ req[r].pc = "update"
        /\ UNCHANGED <<nextId, dir, version, key, index, rotation, unannounced, tangled>>
    BY DEF UpdateRow
  <1>2. n \in Ids /\ req[r].photos \in Seq(Photo) /\ NoFace \notin FacesOf(req[r].photos) /\ req[r] # Idle
    BY <1>0, <1>1, Forms DEF Changing, Idle
  <1>3. Busy(r, n)
    BY <1>0, <1>1 DEF Busy, OnFiles
  <1>4. CASE Present(n)
    <2> DEFINE row == [students[n] EXCEPT !.key = key, !.faces = FacesOf(req[r].photos),
                                          !.photos = req[r].photos, !.replaced = TRUE]
    <2>1. /\ req' = [req EXCEPT ![r].pc = "bump"]
          /\ students' = [students EXCEPT ![n] = row]
          /\ late' = Late(n) /\ spoiled' = spoiled \ {n}
      BY <1>0, <1>4 DEF UpdateRow
    <2>2. /\ req' \in [Requests -> {Idle} \cup Enrolling \cup Changing]
          /\ req'[r].pc = "bump" /\ req'[r].sid = n
          /\ \A q \in Requests \ {r} : req'[q] = req[q]
      BY <1>0, <1>1, <2>1, ChangeMoves
    <2>3. FacesOf(req[r].photos) \in SUBSET Faces
      <3>1. \A k \in DOMAIN req[r].photos : req[r].photos[k] \in Photo
        BY <1>2
      <3> QED BY <1>2, <3>1 DEF FacesOf, Photo
    <2>4. students[n] \in Rows
      BY <1>2, <1>4 DEF Present, Typed
    <2>5. /\ row \in Rows /\ row.key = key /\ row.photos = req[r].photos /\ row.replaced
          /\ row.seen = students[n].seen /\ row.reg = students[n].reg
      <3>1. key \in Keys
        BY DEF Typed
      <3> QED BY <1>2, <2>3, <2>4, <3>1 DEF Rows
    <2> HIDE DEF row
    <2>6. row # Absent
      BY <2>5, GalleryAssumption DEF Absent, Rows
    <2>7. /\ students' \in [Ids -> Rows \cup {Absent}] /\ students'[n] = row
          /\ \A s \in Ids \ {n} : students'[s] = students[s]
      BY <1>2, <2>1, <2>5 DEF Typed
    <2>8. \A s \in Ids : Present(s)' <=> Present(s)
      BY <1>4, <2>6, <2>7 DEF Present
    <2>9. \A q \in Requests :
            /\ req'[q].pc \in OnFiles => q # r /\ req'[q] = req[q]
            /\ req'[q].pc \in Comparing => req'[q] = req[q]
            /\ req[q].pc \in Comparing => req'[q] = req[q]
      BY <1>1, <2>2 DEF OnFiles, Comparing
    <2>10. late' \subseteq Ids /\ late \subseteq late' /\ (rotation.to > key => n \in late')
      BY <1>2, <2>1 DEF Late, Typed
    <2>11. Typed'
      BY <1>1, <2>1, <2>2, <2>7, <2>10 DEF Typed
    <2>12. RotationSound'
      BY <1>1, <2>5, <2>7, <2>8 DEF RotationSound
    <2>13. KeysAccounted'
      <3>1. rotation.pc \in {"read", "done"} => rotation.to > key
        BY DEF RotationSound, Typed, Keys
      <3> QED BY <1>1, <2>5, <2>7, <2>8, <2>10, <3>1 DEF KeysAccounted
    <2>14. IdsUsedOnce'
      <3>1. \A s \in Ids : Unborn(s)' => Unborn(s)
        BY <1>1, <2>9 DEF Unborn, OnFiles
      <3>2. \A t \in Ids : Present(t) => students'[t].seen = students[t].seen
        BY <2>5, <2>7
      <3> QED BY <1>1, <2>8, <2>9, <3>1, <3>2 DEF IdsUsedOnce, OnFiles
    <2>15. FilesUntangled'
      <3>1. ASSUME NEW s \in Ids \ tangled, NEW q \in Requests, Busy(q, s)'
            PROVE  AtWork(q, s)' /\ \A p \in Requests : Busy(p, s)' => q = p
        <4>1. q # r /\ Busy(q, s) /\ req'[q] = req[q]
          BY <2>9, <3>1 DEF Busy
        <4>2. AtWork(q, s) /\ \A p \in Requests : Busy(p, s) => q = p
          BY <4>1 DEF FilesUntangled
        <4>3. s # n
          BY <1>3, <4>1, <4>2
        <4> QED BY <1>1, <2>1, <2>7, <2>8, <2>9, <4>1, <4>2, <4>3 DEF AtWork, Busy
      <3> QED BY <1>1, <3>1 DEF FilesUntangled
    <2>16. SeenApart'
      <3>1. ASSUME NEW s \in Ids, Present(s)', ~students'[s].replaced
            PROVE  Present(s) /\ students'[s] = students[s]
        BY <2>5, <2>7, <2>8, <3>1
      <3>2. ASSUME NEW q \in Requests, req'[q].pc \in Comparing
            PROVE  req'[q] = req[q] /\ req[q].seen \subseteq Ids
        <4>1. req[q] \in Enrolling
          BY <2>9, <3>2, Forms
        <4> QED BY <2>9, <3>2, <4>1 DEF Enrolling, Enrolls
      <3>3. ASSUME NEW q \in Requests, req'[q].pc \in Comparing,
                   NEW k \in 1 .. req'[q].i - 1, NEW s \in req'[q].seen,
                   Present(s)', ~students'[s].replaced
            PROVE  ~Twins(s, PhotosOf(req[q])[k].face)'
        <4>1. req'[q] = req[q] /\ s \in Ids
          BY <3>2, <3>3
        <4>2. Present(s) /\ students'[s] = students[s]
          BY <3>1, <3>3, <4>1
        <4>3. ~Twins(s, PhotosOf(req[q])[k].face)
          BY <3>3, <4>1, <4>2 DEF SeenApart
        <4> QED BY <4>1, <4>2, <4>3 DEF Twins
      <3>4. \A s, t \in Ids :
              /\ Present(s)' /\ Present(t)' /\ s # t
              /\ ~students'[s].replaced /\ ~students'[t].replaced /\ s \in students'[t].seen
              => \A f \in students'[s].faces, g \in students'[t].faces : ~Alike(f, g)
        BY <3>1 DEF SeenApart
      <3> QED BY <3>3, <3>4 DEF SeenApart, Alike
    <2>17. IndexFresh'
      BY <2>2 DEF IndexFresh, Untold
    <2>18. PhotosAgree'
      <3>1. ASSUME NEW s \in Ids \ (tangled \cup spoiled'), \A q \in Requests : ~Busy(q, s)'
            PROVE  dir[s] = IF Present(s)' THEN students'[s].photos ELSE <<>>
        <4>1. CASE s = n
          <5>1. dir[n] = req[r].photos
            BY <1>1, <1>3, <3>1, <4>1 DEF FilesUntangled, AtWork
          <5> QED BY <1>4, <2>5, <2>7, <2>8, <4>1, <5>1
        <4>2. CASE s # n
          <5>1. \A q \in Requests : ~Busy(q, s)
            BY <1>0, <1>1, <2>2, <3>1, <4>2 DEF Busy
          <5> QED BY <2>1, <2>7, <2>8, <3>1, <4>2, <5>1 DEF PhotosAgree
        <4> QED BY <4>1, <4>2
      <3> QED BY <1>1, <3>1 DEF PhotosAgree
    <2> QED BY <2>11, <2>12, <2>13, <2>14, <2>15, <2>16, <2>17, <2>18
  <1>5. CASE ~Present(n)
    <2>1. RowDone(r) /\ UNCHANGED <<students, spoiled, late>>
      BY <1>0, <1>5 DEF UpdateRow
    <2>2. PICK x : Now(r, x) /\ x.pc \in {"idle", "check"}
      BY <1>2, <2>1, RowDoneMoves
    <2>3. /\ req' \in [Requests -> {Idle} \cup Enrolling \cup Changing]
          /\ req'[r] = x
          /\ \A q \in Requests \ {r} : req'[q] = req[q]
      BY <2>2, OnlyOneMoves
    <2>4. \A q \in Requests :
            /\ req'[q].pc \in OnFiles \cup {"bump"} \cup Comparing => q # r /\ req'[q] = req[q]
            /\ req[q].pc \in {"bump", "dropfiles"} => req'[q] = req[q]
      BY <1>1, <2>2, <2>3 DEF OnFiles, Comparing
    <2>5. n \in tangled
      BY <1>1, <1>2, <1>3, <1>5 DEF FilesUntangled, AtWork
    <2>6. Typed'
      BY <1>1, <2>1, <2>3 DEF Typed
    <2>7. RotationSound' /\ KeysAccounted'
      BY <1>1, <2>1 DEF RotationSound, KeysAccounted, Present
    <2>8. IdsUsedOnce'
      <3>1. \A s \in Ids : Unborn(s)' => Unborn(s)
        BY <1>1, <2>4 DEF Unborn, OnFiles
      <3> QED BY <1>1, <2>1, <2>4, <3>1 DEF IdsUsedOnce, Present, OnFiles
    <2>9. FilesUntangled'
      BY <1>1, <2>1, <2>4 DEF FilesUntangled, AtWork, Busy, OnFiles, Present
    <2>10. SeenApart'
      BY <1>1, <2>1, <2>4 DEF SeenApart, Present, Twins
    <2>11. IndexFresh'
      BY <1>1, <2>1, <2>4 DEF IndexFresh, Untold, Entries, Readable, Present
    <2>12. PhotosAgree'
      <3>1. \A s \in Ids \ tangled, q \in Requests : Busy(q, s) => Busy(q, s)'
        BY <1>0, <2>3, <2>5 DEF Busy
      <3> QED BY <1>1, <2>1, <3>1 DEF PhotosAgree, Present
    <2> QED BY <2>6, <2>7, <2>8, <2>9, <2>10, <2>11, <2>12
  <1> QED BY <1>4, <1>5

(* A student is deleted: first the row.                                    *)
LEMMA DeleteKeeps ==
    ASSUME GalleryInvariant, NEW r \in Requests, DeleteRow(r)
    PROVE  GalleryInvariant'
  <1> USE DEF GalleryInvariant
  <1>0. PICK n : n = req[r].sid
    OBVIOUS
  <1>1. /\ req[r].pc = "drop" /\ req' = [req EXCEPT ![r].pc = "dropfiles"]
        /\ students' = [students EXCEPT ![n] = Absent]
        /\ UNCHANGED <<nextId, dir, version, key, index, rotation, unannounced, tangled, spoiled, late>>
    BY <1>0 DEF DeleteRow
  <1>2. n \in Ids
    BY <1>0, <1>1, Forms DEF OnFiles
  <1>3. /\ req' \in [Requests -> {Idle} \cup Enrolling \cup Changing]
        /\ req'[r].pc = "dropfiles" /\ req'[r].sid = n
        /\ \A q \in Requests \ {r} : req'[q] = req[q]
    BY <1>0, <1>1, ChangeMoves
  <1>4. \A q \in Requests :
            /\ req'[q].pc \in Comparing => req'[q] = req[q]
            /\ req[q].pc \in Comparing => req'[q] = req[q]
    BY <1>1, <1>3 DEF Comparing
  <1>5. \A q \in Requests, s \in Ids : Busy(q, s)' <=> Busy(q, s)
    BY <1>0, <1>1, <1>3 DEF Busy, OnFiles
  <1>6. Busy(r, n)
    BY <1>0, <1>1 DEF Busy, OnFiles
  <1>7. /\ students' \in [Ids -> Rows \cup {Absent}] /\ students'[n] = Absent
        /\ \A s \in Ids \ {n} : students'[s] = students[s]
    BY <1>1, <1>2 DEF Typed
  <1>8. ~Present(n)' /\ \A s \in Ids : Present(s)' => Present(s) /\ s # n /\ students'[s] = students[s]
    BY <1>7 DEF Present
  <1>9. Typed'
    BY <1>1, <1>3, <1>7 DEF Typed
  <1>10. RotationSound' /\ KeysAccounted'
    BY <1>1, <1>8 DEF RotationSound, KeysAccounted
  <1>11. IdsUsedOnce'
    <2>1. \A s \in Ids : Unborn(s)' => Unborn(s)
      BY <1>1, <1>4 DEF Unborn, Comparing
    <2>2. \A q \in Requests : req'[q].pc \in OnFiles => req'[q].sid < nextId'
      BY <1>0, <1>1, <1>3 DEF IdsUsedOnce, OnFiles
    <2> QED BY <1>1, <1>4, <1>8, <2>1, <2>2 DEF IdsUsedOnce, Comparing
  <1>12. FilesUntangled'
    <2>1. ASSUME NEW s \in Ids \ tangled, NEW q \in Requests, Busy(q, s)'
          PROVE  AtWork(q, s)' /\ \A p \in Requests : Busy(p, s)' => q = p
      <3>1. AtWork(q, s) /\ \A p \in Requests : Busy(p, s) => q = p
        BY <1>5, <2>1 DEF FilesUntangled
      <3>2. \A p \in Requests : Busy(p, s)' => q = p
        BY <1>5, <3>1
      <3>3. CASE q = r
        <4>1. s = n
          BY <1>3, <2>1, <3>3 DEF Busy
        <4> QED BY <1>3, <1>8, <3>2, <3>3, <4>1 DEF AtWork
      <3>4. CASE q # r
        <4>1. s # n
          BY <1>6, <3>1, <3>4
        <4> QED BY <1>1, <1>3, <1>7, <3>1, <3>2, <3>4, <4>1 DEF AtWork, Present
      <3> QED BY <3>3, <3>4
    <2> QED BY <1>1, <2>1 DEF FilesUntangled
  <1>13. SeenApart'
    <2>1. ASSUME NEW q \in Requests, req'[q].pc \in Comparing
          PROVE  req'[q] = req[q] /\ req[q].seen \subseteq Ids
      <3>1. req[q] \in Enrolling
        BY <1>4, <2>1, Forms
      <3> QED BY <1>4, <2>1, <3>1 DEF Enrolling, Enrolls
    <2>2. ASSUME NEW q \in Requests, req'[q].pc \in Comparing,
                 NEW k \in 1 .. req'[q].i - 1, NEW s \in req'[q].seen,
                 Present(s)', ~students'[s].replaced
          PROVE  ~Twins(s, PhotosOf(req[q])[k].face)'
      <3>1. req'[q] = req[q] /\ Present(s) /\ students'[s] = students[s]
        BY <1>8, <2>1, <2>2
      <3>2. ~Twins(s, PhotosOf(req[q])[k].face)
        BY <2>2, <3>1 DEF SeenApart
      <3> QED BY <3>1, <3>2 DEF Twins
    <2> QED BY <1>8, <2>2 DEF SeenApart, Alike
  <1>14. IndexFresh'
    BY <1>3 DEF IndexFresh, Untold
  <1>15. PhotosAgree'
    BY <1>1, <1>5, <1>6, <1>7 DEF PhotosAgree, Present
  <1> QED BY <1>9, <1>10, <1>11, <1>12, <1>13, <1>14, <1>15

(* Then the photos.                                                        *)
LEMMA DropKeeps ==
    ASSUME GalleryInvariant, NEW r \in Requests, DropFiles(r)
    PROVE  GalleryInvariant'
  <1> USE DEF GalleryInvariant
  <1>0. PICK n : n = req[r].sid
    OBVIOUS
  <1>1. /\ req[r].pc = "dropfiles" /\ req' = [req EXCEPT ![r].pc = "bump"]
        /\ dir' = [dir EXCEPT ![n] = <<>>] /\ spoiled' = spoiled \ {n}
        /\ UNCHANGED <<students, nextId, version, key, index, rotation, unannounced, tangled, late>>
    BY <1>0 DEF DropFiles, rowVars
  <1>2. n \in Ids
    BY <1>0, <1>1, Forms DEF OnFiles
  <1>3. /\ req' \in [Requests -> {Idle} \cup Enrolling \cup Changing]
        /\ req'[r].pc = "bump" /\ req'[r].sid = n
        /\ \A q \in Requests \ {r} : req'[q] = req[q]
    BY <1>0, <1>1, ChangeMoves
  <1>4. \A q \in Requests :
            /\ req'[q].pc \in OnFiles \cup Comparing => q # r /\ req'[q] = req[q]
            /\ req[q].pc \in Comparing => req'[q] = req[q]
    BY <1>1, <1>3 DEF OnFiles, Comparing
  <1>5. Busy(r, n)
    BY <1>0, <1>1 DEF Busy, OnFiles
  <1>6. /\ dir' \in [Ids -> Seq(Photo)] /\ dir'[n] = <<>>
        /\ \A s \in Ids \ {n} : dir'[s] = dir[s]
    <2>1. <<>> \in Seq(Photo)
      OBVIOUS
    <2> QED BY <1>1, <1>2, <2>1 DEF Typed
  <1>7. Typed'
    BY <1>1, <1>3, <1>6 DEF Typed
  <1>8. RotationSound' /\ KeysAccounted'
    BY <1>1 DEF RotationSound, KeysAccounted, Present
  <1>9. IdsUsedOnce'
    <2>1. \A s \in Ids : Unborn(s)' => Unborn(s)
      BY <1>1, <1>4 DEF Unborn, OnFiles
    <2>2. \A s \in Ids : s >= nextId' => dir'[s] = <<>>
      BY <1>1, <1>6 DEF IdsUsedOnce
    <2> QED BY <1>1, <1>4, <2>1, <2>2 DEF IdsUsedOnce, Present, OnFiles
  <1>10. FilesUntangled'
    <2>1. ASSUME NEW s \in Ids \ tangled, NEW q \in Requests, Busy(q, s)'
          PROVE  AtWork(q, s)' /\ \A p \in Requests : Busy(p, s)' => q = p
      <3>1. q # r /\ Busy(q, s) /\ req'[q] = req[q]
        BY <1>4, <2>1 DEF Busy
      <3>2. AtWork(q, s) /\ \A p \in Requests : Busy(p, s) => q = p
        BY <3>1 DEF FilesUntangled
      <3>3. s # n
        BY <1>5, <3>1, <3>2
      <3> QED BY <1>1, <1>4, <1>6, <3>1, <3>2, <3>3 DEF AtWork, Present, Busy
    <2> QED BY <1>1, <2>1 DEF FilesUntangled
  <1>11. SeenApart'
    BY <1>1, <1>4 DEF SeenApart, Present, Twins
  <1>12. IndexFresh'
    BY <1>3 DEF IndexFresh, Untold
  <1>13. PhotosAgree'
    <2>1. ASSUME NEW s \in Ids \ (tangled \cup spoiled'), \A q \in Requests : ~Busy(q, s)'
          PROVE  dir'[s] = IF Present(s) THEN students[s].photos ELSE <<>>
      <3>1. CASE s = n
        <4>1. ~Present(n)
          BY <1>1, <1>5, <2>1, <3>1 DEF FilesUntangled, AtWork
        <4> QED BY <1>6, <3>1, <4>1
      <3>2. CASE s # n
        <4>1. \A q \in Requests : ~Busy(q, s)
          BY <1>0, <1>1, <1>3, <2>1, <3>2 DEF Busy
        <4> QED BY <1>1, <1>6, <2>1, <3>2, <4>1 DEF PhotosAgree
      <3> QED BY <3>1, <3>2
    <2> QED BY <1>1, <2>1 DEF PhotosAgree, Present
  <1> QED BY <1>7, <1>8, <1>9, <1>10, <1>11, <1>12, <1>13

(* A number changes: rows differ in nothing else.                          *)
LEMMA RenameKeeps ==
    ASSUME GalleryInvariant, NEW r \in Requests, RenameCommit(r)
    PROVE  GalleryInvariant'
  <1> USE DEF GalleryInvariant
  <1>1. /\ req[r].pc = "rename" /\ RowDone(r)
        /\ UNCHANGED <<nextId, dir, version, key, index, rotation, unannounced, tangled, spoiled, late>>
    BY DEF RenameCommit
  <1>2. req[r].sid \in Ids /\ req[r] # Idle /\ req[r] \in Changing
    BY <1>1, Forms DEF Idle, Changing
  <1>3. PICK x : Now(r, x) /\ x.pc \in {"idle", "check"}
    BY <1>1, <1>2, RowDoneMoves
  <1>4. /\ req' \in [Requests -> {Idle} \cup Enrolling \cup Changing]
        /\ req'[r] = x
        /\ \A q \in Requests \ {r} : req'[q] = req[q]
    BY <1>3, OnlyOneMoves
  <1>5. \A q \in Requests :
            /\ req'[q].pc \in OnFiles \cup Comparing \cup {"bump"} => req'[q] = req[q]
            /\ req[q].pc \in OnFiles \cup Comparing \cup {"bump"} => req'[q] = req[q]
    BY <1>1, <1>3, <1>4 DEF OnFiles, Comparing
  <1>6. Upload1(r).reg \in RegNos
    <2>1. PICK g \in RegNos \cup {Bad} : req[r].rows = <<[reg |-> g]>>
      BY <1>2 DEF Changing
    <2>2. Head(req[r].rows).reg # Bad
      BY <1>1, <1>2 DEF Changing
    <2> QED BY <2>1, <2>2 DEF Upload1
  <1>7. /\ students' \in [Ids -> Rows \cup {Absent}]
        /\ \A s \in Ids :
            /\ Present(s)' <=> Present(s)
            /\ Present(s) =>
                /\ students'[s].key = students[s].key /\ students'[s].faces = students[s].faces
                /\ students'[s].photos = students[s].photos /\ students'[s].seen = students[s].seen
                /\ students'[s].replaced = students[s].replaced
    <2>1. CASE students' = students
      BY <2>1 DEF Present, Typed
    <2>2. CASE students' # students
      <3> DEFINE n == req[r].sid
                 g == Upload1(r).reg
                 row == [students[n] EXCEPT !.reg = g]
      <3>1. Present(n) /\ students' = [students EXCEPT ![n] = row]
        BY <2>2 DEF RenameCommit
      <3>2. students[n] \in Rows
        BY <1>2, <3>1 DEF Present, Typed
      <3>3. /\ row \in Rows /\ row.key = students[n].key /\ row.faces = students[n].faces
            /\ row.photos = students[n].photos /\ row.seen = students[n].seen
            /\ row.replaced = students[n].replaced
        BY <1>6, <3>2 DEF Rows
      <3> HIDE DEF row
      <3>4. row # Absent
        BY <3>3, GalleryAssumption DEF Absent, Rows
      <3> QED BY <1>2, <3>1, <3>3, <3>4 DEF Present, Typed
    <2> QED BY <2>1, <2>2
  <1>8. Typed'
    BY <1>1, <1>4, <1>7 DEF Typed
  <1>9. RotationSound' /\ KeysAccounted'
    BY <1>1, <1>7 DEF RotationSound, KeysAccounted
  <1>10. IdsUsedOnce'
    <2>1. \A s \in Ids : Unborn(s)' => Unborn(s)
      BY <1>1, <1>5 DEF Unborn, Comparing
    <2> QED BY <1>1, <1>5, <1>7, <2>1 DEF IdsUsedOnce, OnFiles
  <1>11. FilesUntangled'
    <2>1. ASSUME NEW s \in Ids \ tangled, NEW q \in Requests, Busy(q, s)'
          PROVE  AtWork(q, s)' /\ \A p \in Requests : Busy(p, s)' => q = p
      <3>1. Busy(q, s) /\ req'[q] = req[q] /\ \A p \in Requests : Busy(p, s)' => Busy(p, s)
        BY <1>5, <2>1 DEF Busy
      <3>2. AtWork(q, s) /\ \A p \in Requests : Busy(p, s) => q = p
        BY <2>1, <3>1 DEF FilesUntangled
      <3> QED BY <1>1, <1>7, <2>1, <3>1, <3>2 DEF AtWork
    <2> QED BY <1>1, <2>1 DEF FilesUntangled
  <1>12. SeenApart'
    <2>1. ASSUME NEW q \in Requests, req'[q].pc \in Comparing
          PROVE  req'[q] = req[q] /\ req[q].seen \subseteq Ids
      <3>1. req[q] \in Enrolling
        BY <1>5, <2>1, Forms
      <3> QED BY <1>5, <2>1, <3>1 DEF Enrolling, Enrolls
    <2>2. ASSUME NEW q \in Requests, req'[q].pc \in Comparing,
                 NEW k \in 1 .. req'[q].i - 1, NEW s \in req'[q].seen,
                 Present(s)', ~students'[s].replaced
          PROVE  ~Twins(s, PhotosOf(req[q])[k].face)'
      <3>1. req'[q] = req[q] /\ s \in Ids
        BY <2>1, <2>2
      <3>2. /\ Present(s) /\ ~students[s].replaced /\ students'[s].faces = students[s].faces
        BY <1>7, <2>2, <3>1
      <3>3. ~Twins(s, PhotosOf(req[q])[k].face)
        BY <2>2, <3>1, <3>2 DEF SeenApart
      <3> QED BY <3>1, <3>2, <3>3 DEF Twins
    <2> QED BY <1>7, <2>2 DEF SeenApart, Alike
  <1>13. IndexFresh'
    <2>1. Entries' = Entries
      BY <1>1, <1>7 DEF Entries, Readable
    <2> QED BY <1>1, <1>5, <2>1 DEF IndexFresh, Untold, OnFiles
  <1>14. PhotosAgree'
    <2>1. \A q \in Requests, s \in Ids : Busy(q, s) => Busy(q, s)'
      BY <1>5 DEF Busy
    <2> QED BY <1>1, <1>7, <2>1 DEF PhotosAgree
  <1> QED BY <1>8, <1>9, <1>10, <1>11, <1>12, <1>13, <1>14

(* A change fails: what it did to the directory is on record.              *)
LEMMA ChangeGivenUp ==
    ASSUME GalleryInvariant, NEW r \in Requests, req[r].pc \in {"files", "update", "drop", "rename"},
           RowDone(r), UNCHANGED <<rowVars, tangled>>,
           dir' \in [Ids -> Seq(Photo)], \A s \in Ids \ {req[r].sid} : dir'[s] = dir[s],
           \/ req[r].pc \in {"files", "update"} /\ spoiled' = spoiled \cup {req[r].sid}
           \/ req[r].pc \in {"drop", "rename"} /\ UNCHANGED <<dir, spoiled>>
    PROVE  GalleryInvariant'
  <1> USE DEF GalleryInvariant
  <1>0. PICK n : n = req[r].sid
    OBVIOUS
  <1>1. UNCHANGED <<students, nextId, version, key, index, rotation, unannounced, tangled, late>>
    BY DEF rowVars
  <1>2. n \in Ids /\ req[r] # Idle
    BY <1>0, Forms DEF Idle, Changing
  <1>3. PICK x : Now(r, x) /\ x.pc \in {"idle", "check"}
    BY <1>2, RowDoneMoves
  <1>4. /\ req' \in [Requests -> {Idle} \cup Enrolling \cup Changing]
        /\ req'[r] = x
        /\ \A q \in Requests \ {r} : req'[q] = req[q]
    BY <1>3, OnlyOneMoves
  <1>5. \A q \in Requests :
            /\ req'[q].pc \in OnFiles \cup {"bump"} \cup Comparing => q # r /\ req'[q] = req[q]
            /\ req[q].pc \in {"commit", "bump", "dropfiles"} => req'[q] = req[q]
    BY <1>3, <1>4 DEF OnFiles, Comparing
  <1>6. spoiled' \subseteq Ids /\ \A s \in Ids \ {n} : dir'[s] = dir[s] /\ (s \in spoiled' <=> s \in spoiled)
    BY <1>0, <1>2 DEF Typed
  <1>7. Typed'
    BY <1>1, <1>4, <1>6 DEF Typed
  <1>8. RotationSound' /\ KeysAccounted'
    BY <1>1 DEF RotationSound, KeysAccounted, Present
  <1>9. IdsUsedOnce'
    <2>1. \A s \in Ids : Unborn(s)' => Unborn(s)
      BY <1>1, <1>5 DEF Unborn, OnFiles
    <2>2. ASSUME NEW s \in Ids, s >= nextId PROVE dir'[s] = <<>>
      <3>1. CASE req[r].pc \in {"files", "update"}
        <4>1. n < nextId
          BY <1>0, <3>1 DEF IdsUsedOnce, OnFiles
        <4>2. s # n
          BY <1>2, <2>2, <4>1 DEF Typed, Ids
        <4> QED BY <1>6, <2>2, <4>2 DEF IdsUsedOnce
      <3>2. CASE dir' = dir
        BY <2>2, <3>2 DEF IdsUsedOnce
      <3> QED BY <3>1, <3>2
    <2> QED BY <1>1, <1>5, <2>1, <2>2 DEF IdsUsedOnce, Present, OnFiles
  <1>10. FilesUntangled'
    <2>1. ASSUME NEW s \in Ids \ tangled, NEW q \in Requests, Busy(q, s)'
          PROVE  AtWork(q, s)' /\ \A p \in Requests : Busy(p, s)' => q = p
      <3>1. q # r /\ Busy(q, s) /\ req'[q] = req[q]
        BY <1>5, <2>1 DEF Busy
      <3>2. AtWork(q, s) /\ \A p \in Requests : Busy(p, s) => q = p
        BY <3>1 DEF FilesUntangled
      <3>3. \A p \in Requests : Busy(p, s)' => Busy(p, s)
        BY <1>5 DEF Busy
      <3>4. dir'[s] = dir[s] /\ (s \in spoiled' <=> s \in spoiled)
        <4>1. CASE s # n
          BY <1>6, <4>1
        <4>2. CASE s = n
          <5>1. req[r].pc \notin OnFiles
            BY <1>0, <3>1, <3>2, <4>2 DEF Busy
          <5> QED BY <5>1 DEF OnFiles
        <4> QED BY <4>1, <4>2
      <3> QED BY <1>1, <3>1, <3>2, <3>3, <3>4 DEF AtWork, Present
    <2> QED BY <1>1, <2>1 DEF FilesUntangled
  <1>11. SeenApart'
    BY <1>1, <1>5 DEF SeenApart, Present, Twins
  <1>12. IndexFresh'
    BY <1>1, <1>5 DEF IndexFresh, Untold, Entries, Readable, Present
  <1>13. PhotosAgree'
    <2>1. ASSUME NEW s \in Ids \ (tangled \cup spoiled'), \A q \in Requests : ~Busy(q, s)'
          PROVE  dir'[s] = IF Present(s) THEN students[s].photos ELSE <<>>
      <3>1. \A q \in Requests \ {r} : ~Busy(q, s)
        BY <1>4, <2>1 DEF Busy
      <3>2. CASE Busy(r, s)
        <4>1. s = n /\ req[r].pc \in OnFiles
          BY <1>0, <3>2 DEF Busy
        <4>2. req[r].pc = "drop" /\ UNCHANGED <<dir, spoiled>>
          BY <1>0, <2>1, <4>1 DEF OnFiles
        <4> QED BY <2>1, <3>2, <4>2 DEF FilesUntangled, AtWork
      <3>3. CASE ~Busy(r, s)
        <4>1. dir[s] = IF Present(s) THEN students[s].photos ELSE <<>>
          BY <1>0, <2>1, <3>1, <3>3 DEF PhotosAgree
        <4>2. dir'[s] = dir[s]
          BY <1>0, <1>6, <2>1, <3>3 DEF Busy, OnFiles
        <4> QED BY <4>1, <4>2
      <3> QED BY <3>2, <3>3
    <2> QED BY <1>1, <2>1 DEF PhotosAgree, Present
  <1> QED BY <1>7, <1>8, <1>9, <1>10, <1>11, <1>12, <1>13

(* A photo cannot be written: some of the new ones are there.              *)
LEMMA RewriteFailsKeeps ==
    ASSUME GalleryInvariant, NEW r \in Requests, RewriteFails(r)
    PROVE  GalleryInvariant'
  <1>1. Typed
    BY DEF GalleryInvariant
  <1>2. req[r].pc = "files" /\ RowDone(r) /\ UNCHANGED <<rowVars, tangled>>
        /\ spoiled' = spoiled \cup {req[r].sid}
    BY DEF RewriteFails
  <1>3. req[r].sid \in Ids /\ req[r].photos \in Seq(Photo)
    BY <1>1, <1>2, Forms DEF Changing
  <1>4. PICK n \in 0 .. Len(req[r].photos) - 1 :
            dir' = [dir EXCEPT ![req[r].sid] = SubSeq(req[r].photos, 1, n)]
    BY DEF RewriteFails
  <1>5. PICK photos : photos = SubSeq(req[r].photos, 1, n)
    OBVIOUS
  <1>6. photos \in Seq(Photo)
    <2>1. Len(req[r].photos) \in Nat
      BY <1>3
    <2>2. \A i \in 1 .. n : req[r].photos[i] \in Photo
      BY <1>3, <1>4, <2>1
    <2> QED BY <1>3, <1>4, <1>5, <2>1, <2>2
  <1>7. dir' \in [Ids -> Seq(Photo)] /\ \A s \in Ids \ {req[r].sid} : dir'[s] = dir[s]
    BY <1>1, <1>3, <1>4, <1>5, <1>6 DEF Typed
  <1> QED BY <1>2, <1>7, ChangeGivenUp

(* The commit of a change fails.                                           *)
LEMMA ChangeFailsKeeps ==
    ASSUME GalleryInvariant, NEW r \in Requests, ChangeFails(r)
    PROVE  GalleryInvariant'
  <1>1. /\ req[r].pc \in {"update", "drop", "rename"} /\ RowDone(r)
        /\ UNCHANGED <<rowVars, tangled>> /\ dir' = dir
        /\ spoiled' = IF req[r].pc = "update" THEN spoiled \cup {req[r].sid} ELSE spoiled
    BY DEF ChangeFails
  <1>2. dir' \in [Ids -> Seq(Photo)] /\ \A s \in Ids \ {req[r].sid} : dir'[s] = dir[s]
    BY <1>1 DEF GalleryInvariant, Typed
  <1> QED BY <1>1, <1>2, ChangeGivenUp

(* The API process dies: whatever was on files stays half done.            *)
LEMMA RestartKeeps ==
    ASSUME GalleryInvariant, Restart
    PROVE  GalleryInvariant'
  <1> USE DEF GalleryInvariant
  <1>1. /\ req' = [r \in Requests |-> Idle]
        /\ tangled' = tangled \cup {s \in Ids : \E r \in Requests : Busy(r, s)}
        /\ unannounced' = unannounced \cup {req[r].sid : r \in {q \in Requests : Untold(q)}}
        /\ UNCHANGED <<students, nextId, dir, version, key, index, rotation, spoiled, late>>
    BY DEF Restart
  <1>2. \A q \in Requests : req'[q] = Idle /\ req'[q].pc = "idle"
    BY <1>1 DEF Idle
  <1>3. \A q \in Requests : req'[q].pc \notin OnFiles \cup Comparing \cup {"bump", "dropfiles"}
    BY <1>2 DEF OnFiles, Comparing
  <1>4. Typed'
    <2>1. \A q \in Requests : Untold(q) => req[q].sid \in Ids
      BY Forms DEF Untold, OnFiles
    <2>2. unannounced' \subseteq Ids /\ tangled' \subseteq Ids
      BY <1>1, <2>1 DEF Typed
    <2>3. req' \in [Requests -> {Idle} \cup Enrolling \cup Changing]
      BY <1>1
    <2> QED BY <1>1, <2>2, <2>3 DEF Typed
  <1>5. RotationSound' /\ KeysAccounted'
    BY <1>1 DEF RotationSound, KeysAccounted, Present
  <1>6. IdsUsedOnce'
    <2>1. \A s \in Ids : Unborn(s)' => Unborn(s)
      BY <1>1, <1>2 DEF Unborn
    <2> QED BY <1>1, <1>2, <1>3, <2>1 DEF IdsUsedOnce, Present
  <1>7. FilesUntangled'
    BY <1>3 DEF FilesUntangled, Busy
  <1>8. SeenApart'
    BY <1>1, <1>3 DEF SeenApart, Present
  <1>9. IndexFresh'
    <2>1. ASSUME unannounced' = {} PROVE unannounced = {} /\ \A q \in Requests : ~Untold(q)
      BY <1>1, <2>1
    <2> QED BY <1>1, <2>1 DEF IndexFresh, Entries, Readable, Present
  <1>10. PhotosAgree'
    BY <1>1 DEF PhotosAgree, Present
  <1> QED BY <1>4, <1>5, <1>6, <1>7, <1>8, <1>9, <1>10

(* A pipeline asks for the version, reads the rows, or starts anew.        *)
LEMMA IndexKeeps ==
    ASSUME GalleryInvariant, NEW p \in Pipelines, AskVersion(p) \/ Load(p) \/ NewPipeline(p)
    PROVE  GalleryInvariant'
  <1> USE DEF GalleryInvariant
  <1> DEFINE Indexed == [pc : {"idle", "load"}, entries : SUBSET (Ids \X Faces),
                         version : Nat, asked : Nat]
  <1>1. UNCHANGED <<students, nextId, dir, version, key, req, rotation, unannounced, tangled, spoiled, late>>
    BY DEF AskVersion, Load, NewPipeline
  <1>2. /\ index' \in [Pipelines -> Indexed]
        /\ \A q \in Pipelines : index'[q].version <= version /\ index'[q].asked <= version
        /\ \A q \in Pipelines :
            \/ index'[q].version = index[q].version /\ index'[q].entries = index[q].entries
            \/ index'[q].entries = Entries
            \/ index'[q].version = 0
    <2>1. CASE AskVersion(p)
      <3>1. PICK asked \in {version, 0} : index' = [index EXCEPT ![p].pc = "load", ![p].asked = asked]
        BY <2>1 DEF AskVersion
      <3>2. asked \in Nat /\ asked <= version
        BY DEF Typed
      <3>3. index' \in [Pipelines -> Indexed]
        BY <3>1, <3>2 DEF Typed
      <3>4. \A q \in Pipelines : /\ index'[q].version = index[q].version
                                 /\ index'[q].entries = index[q].entries
                                 /\ index'[q].asked \in {asked, index[q].asked}
        BY <3>1 DEF Typed
      <3> QED BY <3>2, <3>3, <3>4 DEF Typed
    <2>2. CASE Load(p)
      <3> DEFINE new == [pc |-> "idle", entries |-> Entries, asked |-> 0,
                         version |-> IF index[p].asked = 0 THEN index[p].version ELSE index[p].asked]
      <3>1. index' = [index EXCEPT ![p] = new]
        BY <2>2 DEF Load
      <3>2. Entries \in SUBSET (Ids \X Faces)
        BY DEF Entries, Readable
      <3>3. new \in Indexed /\ new.version <= version /\ new.asked = 0 /\ new.entries = Entries
        BY <3>2 DEF Typed
      <3> HIDE DEF new
      <3>4. index' \in [Pipelines -> Indexed] /\ index'[p] = new
            /\ \A q \in Pipelines \ {p} : index'[q] = index[q]
        BY <3>1, <3>3 DEF Typed
      <3>5. /\ index'[p].version <= version /\ index'[p].asked <= version
            /\ index'[p].entries = Entries
        BY <3>3, <3>4 DEF Typed
      <3>6. \A q \in Pipelines \ {p} : /\ index'[q].version <= version /\ index'[q].asked <= version
                                       /\ index'[q].version = index[q].version
                                       /\ index'[q].entries = index[q].entries
        BY <3>4 DEF Typed
      <3> QED BY <3>4, <3>5, <3>6
    <2>3. CASE NewPipeline(p)
      <3>1. index' = [index EXCEPT ![p] = EmptyIndex]
        BY <2>3 DEF NewPipeline
      <3>2. EmptyIndex \in Indexed /\ EmptyIndex.version = 0 /\ EmptyIndex.asked = 0
        BY DEF EmptyIndex
      <3>3. index' \in [Pipelines -> Indexed] /\ index'[p] = EmptyIndex
            /\ \A q \in Pipelines \ {p} : index'[q] = index[q]
        BY <3>1, <3>2 DEF Typed
      <3>4. index'[p].version = 0 /\ index'[p].version <= version /\ index'[p].asked <= version
        BY <3>2, <3>3 DEF Typed
      <3>5. \A q \in Pipelines \ {p} : /\ index'[q].version <= version /\ index'[q].asked <= version
                                       /\ index'[q].version = index[q].version
                                       /\ index'[q].entries = index[q].entries
        BY <3>3 DEF Typed
      <3> QED BY <3>3, <3>4, <3>5
    <2> QED BY <2>1, <2>2, <2>3
  <1>3. Typed'
    BY <1>1, <1>2 DEF Typed
  <1>4. RotationSound' /\ KeysAccounted' /\ IdsUsedOnce'
    BY <1>1 DEF RotationSound, KeysAccounted, IdsUsedOnce, Unborn, Present
  <1>5. FilesUntangled' /\ PhotosAgree'
    BY <1>1 DEF FilesUntangled, AtWork, Busy, PhotosAgree, Present
  <1>6. SeenApart'
    BY <1>1 DEF SeenApart, Present, Twins
  <1>7. IndexFresh'
    <2>1. Entries' = Entries
      BY <1>1 DEF Entries, Readable, Present
    <2> QED BY <1>1, <1>2, <2>1 DEF IndexFresh, Untold
  <1> QED BY <1>3, <1>4, <1>5, <1>6, <1>7

(* The rotation reads the table.                                           *)
LEMMA RotateReadKeeps ==
    ASSUME GalleryInvariant, RotateRead
    PROVE  GalleryInvariant'
  <1> USE DEF GalleryInvariant
  <1> DEFINE new == [pc |-> "read", to |-> key + 1,
                     blobs |-> [s \in Readable |-> students[s].faces],
                     failed |-> \E s \in Ids : Present(s) /\ students[s].key \notin {key, key + 1}]
  <1>1. /\ rotation.pc \in {"idle", "failed"} /\ key < MaxKey
        /\ rotation' = new
        /\ UNCHANGED <<students, nextId, dir, version, key, req, index, unannounced, tangled, spoiled, late>>
    BY DEF RotateRead
  <1>2. /\ new.pc = "read" /\ new.to = key + 1
        /\ new.failed = (\E s \in Ids : Present(s) /\ students[s].key \notin {key, key + 1})
        /\ DOMAIN new.blobs = Readable
        /\ \A s \in Readable : new.blobs[s] = students[s].faces
        /\ new = [pc |-> new.pc, to |-> new.to, blobs |-> new.blobs, failed |-> new.failed]
    OBVIOUS
  <1> HIDE DEF new
  <1>3. Readable \subseteq Ids /\ \A s \in Readable : Present(s) /\ students[s].faces \in SUBSET Faces
    BY DEF Readable, Typed, Present, Rows
  <1>4. key \in 1 .. MaxKey /\ key + 1 \in Keys /\ key + 1 # 0
    BY <1>1, Bounds DEF Typed, Keys
  <1>5. Typed'
    BY <1>1, <1>2 DEF Typed
  <1>6. RotationSound'
    BY <1>1, <1>2, <1>3, <1>4 DEF RotationSound
  <1>7. KeysAccounted'
    <2>1. ASSUME NEW s \in Ids, Present(s), s \notin late PROVE students[s].key \in {key, key + 1}
      <3>1. students[s].key \in Keys /\ students[s].key \in {key, rotation.to}
        BY <2>1 DEF KeysAccounted, Typed, Present, Rows
      <3>2. rotation.to \in {0, key + 1}
        BY <1>1 DEF RotationSound
      <3> QED BY <3>1, <3>2 DEF Keys
    <2>2. \A s \in Ids : Present(s) /\ students[s].key = key => s \in Readable
      BY DEF Readable
    <2> QED BY <1>1, <1>2, <2>1, <2>2 DEF KeysAccounted, Present
  <1>8. IdsUsedOnce'
    BY <1>1, <1>2, <1>3 DEF IdsUsedOnce, Unborn, Present
  <1>9. FilesUntangled' /\ PhotosAgree'
    BY <1>1 DEF FilesUntangled, AtWork, Busy, PhotosAgree, Present
  <1>10. SeenApart'
    BY <1>1 DEF SeenApart, Present, Twins
  <1>11. IndexFresh'
    BY <1>1 DEF IndexFresh, Untold, Entries, Readable, Present
  <1> QED BY <1>5, <1>6, <1>7, <1>8, <1>9, <1>10, <1>11

(* The rotation writes all it has read, or nothing.                        *)
LEMMA RotateCommitKeeps ==
    ASSUME GalleryInvariant, RotateCommit
    PROVE  GalleryInvariant'
  <1> USE DEF GalleryInvariant
  <1> DEFINE plan == DOMAIN rotation.blobs
  <1>1. /\ rotation.pc = "read"
        /\ UNCHANGED <<nextId, dir, version, key, req, index, tangled, spoiled, late>>
    BY DEF RotateCommit
  <1>2. /\ rotation'.pc \in {"failed", "done"} /\ rotation'.to = rotation.to
        /\ rotation' = [pc |-> rotation'.pc, to |-> rotation'.to,
                        blobs |-> rotation'.blobs, failed |-> rotation'.failed]
        /\ rotation'.pc = "done" => ~rotation.failed
    <2>1. PICK pc \in {"failed", "done"} :
            /\ rotation' = [rotation EXCEPT !.pc = pc, !.blobs = <<>>]
            /\ pc = "done" => ~rotation.failed
      BY DEF RotateCommit
    <2> QED BY <2>1 DEF Typed
  <1>3. rotation.to = key + 1 /\ rotation.to \in Keys /\ plan \subseteq Ids
    BY <1>1 DEF RotationSound
  <1>4. /\ students' \in [Ids -> Rows \cup {Absent}]
        /\ unannounced' \subseteq Ids
        /\ \A s \in Ids :
            /\ Present(s)' <=> Present(s)
            /\ Present(s) =>
                /\ students'[s].photos = students[s].photos /\ students'[s].seen = students[s].seen
                /\ students'[s].replaced = students[s].replaced
                /\ ~students[s].replaced => students'[s].faces = students[s].faces
                /\ students'[s].key \in {students[s].key, rotation.to}
        /\ rotation'.pc = "done" => \A s \in plan : Present(s) => students'[s].key = rotation.to
        /\ students' = students \/ unannounced' # {}
    <2>1. CASE /\ students' = [s \in Ids |->
                    IF s \in plan /\ Present(s)
                    THEN [students[s] EXCEPT !.key = rotation.to, !.faces = rotation.blobs[s]]
                    ELSE students[s]]
               /\ unannounced' = unannounced \cup plan
      <3> DEFINE row(s) == [students[s] EXCEPT !.key = rotation.to, !.faces = rotation.blobs[s]]
      <3>1. ASSUME NEW s \in plan, Present(s)
            PROVE  /\ row(s) \in Rows /\ row(s) # Absent
                   /\ row(s).key = rotation.to /\ row(s).faces = rotation.blobs[s]
                   /\ row(s).photos = students[s].photos /\ row(s).seen = students[s].seen
                   /\ row(s).replaced = students[s].replaced
                   /\ ~students[s].replaced => row(s).faces = students[s].faces
        <4>1. students[s] \in Rows
          BY <1>3, <3>1 DEF Present, Typed
        <4>2. /\ rotation.blobs[s] \in SUBSET Faces
              /\ ~students[s].replaced => rotation.blobs[s] = students[s].faces
          BY <1>1, <3>1 DEF RotationSound
        <4>3. /\ row(s) \in Rows
              /\ row(s).key = rotation.to /\ row(s).faces = rotation.blobs[s]
              /\ row(s).photos = students[s].photos /\ row(s).seen = students[s].seen
              /\ row(s).replaced = students[s].replaced
          BY <1>3, <4>1, <4>2 DEF Rows
        <4>4. row(s) # Absent
          BY <4>3, GalleryAssumption DEF Absent, Rows
        <4> QED BY <4>2, <4>3, <4>4
      <3>2. \A s \in Ids : students'[s] = IF s \in plan /\ Present(s) THEN row(s) ELSE students[s]
        BY <2>1
      <3> HIDE DEF row
      <3>3. students' \in [Ids -> Rows \cup {Absent}]
        <4>1. DOMAIN students' = Ids /\ students' = [s \in Ids |-> students'[s]]
          BY <2>1
        <4>2. \A s \in Ids : students'[s] \in Rows \cup {Absent}
          BY <3>1, <3>2 DEF Typed
        <4> QED BY <4>1, <4>2
      <3>4. \A s \in Ids :
              /\ Present(s)' <=> Present(s)
              /\ Present(s) =>
                  /\ students'[s].photos = students[s].photos /\ students'[s].seen = students[s].seen
                  /\ students'[s].replaced = students[s].replaced
                  /\ ~students[s].replaced => students'[s].faces = students[s].faces
                  /\ students'[s].key \in {students[s].key, rotation.to}
        BY <3>1, <3>2 DEF Present
      <3>5. \A s \in plan : Present(s) => students'[s].key = rotation.to
        BY <1>3, <3>1, <3>2
      <3>6. students' = students \/ unannounced' # {}
        <4>1. CASE plan = {}
          BY <2>1, <4>1 DEF Typed
        <4>2. CASE plan # {}
          BY <2>1, <4>2
        <4> QED BY <4>1, <4>2
      <3>7. unannounced' \subseteq Ids
        BY <1>3, <2>1 DEF Typed
      <3> QED BY <3>3, <3>4, <3>5, <3>6, <3>7
    <2>2. CASE rotation'.pc = "failed" /\ UNCHANGED <<students, unannounced>>
      BY <2>2 DEF Typed, Present
    <2>3. \/ UNCHANGED <<students, unannounced>> /\ rotation'.pc = "failed"
          \/ /\ students' = [s \in Ids |->
                    IF s \in plan /\ Present(s)
                    THEN [students[s] EXCEPT !.key = rotation.to, !.faces = rotation.blobs[s]]
                    ELSE students[s]]
             /\ unannounced' = unannounced \cup plan
      <3>1. CASE rotation' = [rotation EXCEPT !.pc = "failed", !.blobs = <<>>] /\ UNCHANGED <<students, unannounced>>
        BY <3>1 DEF Typed
      <3> QED BY <3>1 DEF RotateCommit
    <2> QED BY <2>1, <2>2, <2>3
  <1>5. Typed'
    BY <1>1, <1>2, <1>4 DEF Typed
  <1>6. RotationSound'
    BY <1>1, <1>2, <1>3 DEF RotationSound
  <1>7. KeysAccounted'
    BY <1>1, <1>2, <1>4 DEF KeysAccounted
  <1>8. IdsUsedOnce'
    <2>1. \A s \in Ids : Unborn(s)' <=> Unborn(s)
      BY <1>1 DEF Unborn
    <2> QED BY <1>1, <1>2, <1>4, <2>1 DEF IdsUsedOnce
  <1>9. FilesUntangled' /\ PhotosAgree'
    BY <1>1, <1>4 DEF FilesUntangled, AtWork, Busy, PhotosAgree
  <1>10. SeenApart'
    <2>1. ASSUME NEW q \in Requests, req'[q].pc \in Comparing,
                 NEW k \in 1 .. req'[q].i - 1, NEW s \in req'[q].seen,
                 Present(s)', ~students'[s].replaced
          PROVE  ~Twins(s, PhotosOf(req[q])[k].face)'
      <3>1. req[q] \in Enrolling
        BY <1>1, <2>1, Forms
      <3>2. s \in Ids
        BY <1>1, <2>1, <3>1 DEF Enrolling, Enrolls
      <3>3. Present(s) /\ ~students[s].replaced /\ students'[s].faces = students[s].faces
        BY <1>4, <2>1, <3>2
      <3>4. ~Twins(s, PhotosOf(req[q])[k].face)
        BY <1>1, <2>1, <3>3 DEF SeenApart
      <3> QED BY <1>1, <3>3, <3>4 DEF Twins
    <2> QED BY <1>1, <1>4, <2>1 DEF SeenApart, Alike
  <1>11. IndexFresh'
    <2>1. CASE unannounced' # {}
      BY <2>1 DEF IndexFresh
    <2>2. CASE unannounced' = {}
      <3>1. students' = students /\ unannounced = {}
        BY <1>4, <2>2 DEF RotateCommit
      <3> QED BY <1>1, <3>1 DEF IndexFresh, Untold, Entries, Readable, Present
    <2> QED BY <2>1, <2>2
  <1> QED BY <1>5, <1>6, <1>7, <1>8, <1>9, <1>10, <1>11

(* Everything comes up again with the new key.                             *)
LEMMA SwitchKeeps ==
    ASSUME GalleryInvariant, SwitchKey
    PROVE  GalleryInvariant'
  <1> USE DEF GalleryInvariant
  <1>1. /\ rotation.pc = "done" /\ key' = rotation.to
        /\ rotation' = NoRotation /\ index' = [p \in Pipelines |-> EmptyIndex]
        /\ UNCHANGED <<students, nextId, dir, version, req, unannounced, tangled, spoiled, late>>
    BY DEF SwitchKey
  <1>2. rotation.to \in Keys
    BY <1>1 DEF RotationSound
  <1>3. NoRotation = [pc |-> "idle", to |-> 0, blobs |-> <<>>, failed |-> FALSE]
    BY DEF NoRotation
  <1>4. Typed'
    <2>1. EmptyIndex \in [pc : {"idle", "load"}, entries : SUBSET (Ids \X Faces), version : Nat, asked : Nat]
      BY DEF EmptyIndex
    <2>2. /\ index' \in [Pipelines -> [pc : {"idle", "load"}, entries : SUBSET (Ids \X Faces),
                                       version : Nat, asked : Nat]]
          /\ \A p \in Pipelines : index'[p] = EmptyIndex
      BY <1>1, <2>1
    <2>3. \A p \in Pipelines : index'[p].version <= version /\ index'[p].asked <= version
      BY <2>2 DEF EmptyIndex, Typed
    <2> QED BY <1>1, <1>2, <1>3, <2>2, <2>3 DEF Typed
  <1>5. RotationSound'
    BY <1>1, <1>3 DEF RotationSound
  <1>6. KeysAccounted'
    BY <1>1, <1>3 DEF KeysAccounted, Present
  <1>7. IdsUsedOnce'
    BY <1>1, <1>3 DEF IdsUsedOnce, Unborn, Present
  <1>8. FilesUntangled' /\ PhotosAgree'
    BY <1>1 DEF FilesUntangled, AtWork, Busy, PhotosAgree, Present
  <1>9. SeenApart'
    BY <1>1 DEF SeenApart, Present, Twins
  <1>10. IndexFresh'
    <2>1. \A p \in Pipelines : index'[p].version = 0
      BY <1>1 DEF EmptyIndex
    <2> QED BY <2>1 DEF IndexFresh
  <1> QED BY <1>4, <1>5, <1>6, <1>7, <1>8, <1>9, <1>10

(* The students enrolled at the start.                                     *)
LEMMA InitHolds ==
    ASSUME Init
    PROVE  GalleryInvariant
  <1> DEFINE n == Len(Legacy)
             row(s) == Row(Legacy[s], Legacy[s].photos, 1, 1 .. s - 1)
  <1>1. n \in Nat /\ n <= MaxStudents /\ DOMAIN Legacy = 1 .. n
    BY GalleryAssumption, LenProperties
  <1>2. ASSUME NEW s \in 1 .. n
        PROVE  /\ row(s) \in Rows /\ row(s) # Absent /\ s \in Ids
               /\ row(s).key = 1 /\ row(s).photos = Legacy[s].photos /\ row(s).seen = 1 .. s - 1
               /\ row(s).faces = FacesOf(Legacy[s].photos) /\ Legacy[s].photos \in Seq(Photo)
    <2>1. Legacy[s] \in Upload /\ Legacy[s].reg # Bad /\ NoFace \notin FacesOf(Legacy[s].photos)
      BY <1>1, GalleryAssumption
    <2>2. Legacy[s].photos \in Seq(Photo) /\ Legacy[s].reg \in RegNos
      BY <2>1 DEF Upload
    <2>3. FacesOf(Legacy[s].photos) \in SUBSET Faces
      <3>1. \A k \in DOMAIN Legacy[s].photos : Legacy[s].photos[k] \in Photo
        BY <2>2
      <3> QED BY <2>1, <3>1 DEF FacesOf, Photo
    <2>4. 1 .. s - 1 \in SUBSET Ids /\ 1 \in Keys /\ s \in Ids
      BY <1>1, <1>2, Bounds DEF Ids, Keys
    <2>5. row(s).reg # Bad
      BY <2>1 DEF Row
    <2>6. row(s) # Absent
      BY <2>5 DEF Absent
    <2>7. row(s) \in Rows
      BY <2>2, <2>3, <2>4 DEF Row, Rows
    <2> QED BY <2>2, <2>4, <2>6, <2>7 DEF Row
  <1> HIDE DEF row
  <1>3. /\ DOMAIN students = Ids
        /\ \A s \in Ids : students[s] = IF s <= n THEN row(s) ELSE Absent
        /\ \A s \in Ids : dir[s] = IF s <= n THEN Legacy[s].photos ELSE <<>>
        /\ students = [s \in Ids |-> students[s]] /\ dir = [s \in Ids |-> dir[s]]
    BY DEF Init, row
  <1>4. \A s \in Ids : s \in 1 .. n <=> s <= n
    BY <1>1, Bounds DEF Ids
  <1>5. \A s \in Ids : Present(s) <=> s <= n
    BY <1>2, <1>3, <1>4 DEF Present
  <1>6. /\ nextId = n + 1 /\ version = 0 /\ key = 1 /\ rotation = NoRotation
        /\ req = [r \in Requests |-> Idle] /\ index = [p \in Pipelines |-> EmptyIndex]
        /\ unannounced = {} /\ tangled = {} /\ spoiled = {} /\ late = {}
    BY DEF Init
  <1>7. \A r \in Requests : req[r].pc = "idle" /\ req[r].pc \notin OnFiles \cup Comparing
    BY <1>6 DEF Idle, OnFiles, Comparing
  <1>8. Typed
    <2>1. \A s \in Ids : students[s] \in Rows \cup {Absent}
      BY <1>2, <1>3, <1>4
    <2>2. \A s \in Ids : dir[s] \in Seq(Photo)
      <3>1. <<>> \in Seq(Photo)
        OBVIOUS
      <3> QED BY <1>2, <1>3, <1>4, <3>1
    <2>3. students \in [Ids -> Rows \cup {Absent}] /\ dir \in [Ids -> Seq(Photo)]
      BY <1>3, <2>1, <2>2
    <2>4. nextId \in 1 .. MaxStudents + 1 /\ key \in Keys /\ version \in Nat
      BY <1>1, <1>6, Bounds DEF Keys
    <2>5. EmptyIndex \in [pc : {"idle", "load"}, entries : SUBSET (Ids \X Faces), version : Nat, asked : Nat]
          /\ EmptyIndex.version = 0 /\ EmptyIndex.asked = 0
      BY DEF EmptyIndex
    <2>6. /\ index \in [Pipelines -> [pc : {"idle", "load"}, entries : SUBSET (Ids \X Faces),
                                      version : Nat, asked : Nat]]
          /\ \A p \in Pipelines : index[p].version <= version /\ index[p].asked <= version
      BY <1>6, <2>5
    <2> QED BY <1>6, <2>3, <2>4, <2>6 DEF Typed, NoRotation
  <1>9. RotationSound
    BY <1>6 DEF RotationSound, NoRotation
  <1>10. KeysAccounted
    BY <1>2, <1>3, <1>4, <1>5, <1>6 DEF KeysAccounted, NoRotation
  <1>11. IdsUsedOnce
    <2>1. \A s \in Ids : Unborn(s) => ~(s <= n)
      BY <1>1, <1>6, <1>7 DEF Unborn, OnFiles, Ids
    <2>2. \A s \in Ids : s >= nextId => ~(s <= n)
      BY <1>1, <1>6 DEF Ids
    <2>3. ASSUME NEW s \in Ids, Unborn(s), NEW t \in Ids, Present(t) PROVE s \notin students[t].seen
      <3>1. students[t].seen = 1 .. t - 1 /\ t <= n /\ ~(s <= n)
        BY <1>2, <1>3, <1>4, <1>5, <2>1, <2>3
      <3> QED BY <1>1, <3>1 DEF Ids
    <2> QED BY <1>3, <1>5, <1>6, <1>7, <2>1, <2>2, <2>3 DEF IdsUsedOnce, NoRotation, OnFiles
  <1>12. FilesUntangled
    BY <1>7 DEF FilesUntangled, Busy
  <1>13. SeenApart
    <2>1. ASSUME NEW s \in Ids, NEW t \in Ids, Present(s), Present(t), s # t,
                 NEW f \in students[s].faces, NEW g \in students[t].faces
          PROVE  ~Alike(f, g)
      <3>1. /\ s \in 1 .. n /\ t \in 1 .. n
            /\ students[s] = row(s) /\ students[t] = row(t)
        BY <1>3, <1>4, <1>5, <2>1
      <3>2. f \in FacesOf(Legacy[s].photos) /\ g \in FacesOf(Legacy[t].photos)
        BY <1>2, <2>1, <3>1
      <3>3. Sim[<<f, g>>] < Threshold
        BY <1>1, <2>1, <3>1, <3>2, GalleryAssumption
      <3>4. f \in Faces /\ g \in Faces
        BY <1>2, <2>1, <3>1 DEF Rows
      <3> QED BY <3>3, <3>4, MatchingAssumption DEF Alike
    <2> QED BY <1>7, <2>1 DEF SeenApart
  <1>14. IndexFresh
    BY <1>6 DEF IndexFresh
  <1>15. PhotosAgree
    BY <1>2, <1>3, <1>4, <1>5 DEF PhotosAgree
  <1> QED BY <1>8, <1>9, <1>10, <1>11, <1>12, <1>13, <1>14, <1>15 DEF GalleryInvariant

-----------------------------------------------------------------------------
(* Uploads that replace a face are photos with faces, names are numbers.   *)
LEMMA ChangesBegin ==
    ASSUME GalleryInvariant, NEW r \in Requests, NEW s \in Ids,
           \/ \E photos \in PhotoSets : ReplaceFace(r, s, photos)
           \/ \E reg \in RegNos : Rename(r, s, reg)
           \/ ClearFace(r, s)
           \/ DeleteStudent(r, s)
    PROVE  GalleryInvariant'
  <1>1. <<>> \in Seq(Photo) /\ NoFace \notin FacesOf(<<>>)
    <2>1. FacesOf(<<>>) = {}
      BY DEF FacesOf
    <2> QED BY <2>1
  <1>2. CASE \E photos \in PhotoSets : ReplaceFace(r, s, photos)
    <2>1. PICK photos \in PhotoSets : NoFace \notin FacesOf(photos) /\ Target(r, "files", s, photos, Bad)
      BY <1>2 DEF ReplaceFace
    <2>2. photos \in Seq(Photo)
      BY GalleryAssumption
    <2> QED BY <2>1, <2>2, TargetKeeps
  <1>3. CASE \E reg \in RegNos : Rename(r, s, reg)
    <2>1. PICK reg \in RegNos : Target(r, "rename", s, <<>>, reg)
      BY <1>3 DEF Rename
    <2>2. reg # Bad
      BY GalleryAssumption
    <2> QED BY <1>1, <2>1, <2>2, TargetKeeps
  <1>4. CASE ClearFace(r, s)
    <2>1. Target(r, "files", s, <<>>, Bad)
      BY <1>4 DEF ClearFace
    <2> QED BY <1>1, <2>1, TargetKeeps
  <1>5. CASE DeleteStudent(r, s)
    <2>1. Target(r, "drop", s, <<>>, Bad)
      BY <1>5 DEF DeleteStudent
    <2> QED BY <1>1, <2>1, TargetKeeps
  <1> QED BY <1>2, <1>3, <1>4, <1>5

(* Every step of the gallery keeps the invariant.                          *)
LEMMA NextKeeps ==
    ASSUME GalleryInvariant, [Next]_vars
    PROVE  GalleryInvariant'
  <1>1. Typed
    BY DEF GalleryInvariant
  <1>2. ASSUME NEW r \in Requests,
               \/ \E reg \in RegNos, photos \in PhotoSets : Enroll(r, [reg |-> reg, photos |-> photos])
               \/ \E csv \in Imports : Import(r, csv)
        PROVE  GalleryInvariant'
    BY <1>1, <1>2, EnrollBegins, QuietKeeps
  <1>3. ASSUME NEW r \in Requests, NEW s \in Ids,
               \/ \E photos \in PhotoSets : ReplaceFace(r, s, photos)
               \/ \E reg \in RegNos : Rename(r, s, reg)
               \/ ClearFace(r, s)
               \/ DeleteStudent(r, s)
        PROVE  GalleryInvariant'
    BY <1>3, ChangesBegin
  <1>4. ASSUME NEW r \in Requests, EnrollStep(r) PROVE GalleryInvariant'
    BY <1>1, <1>4, ChecksAreQuiet, QuietKeeps, CompareKeeps, InsertKeeps, CommitKeeps,
       CommitFailsKeeps, BumpKeeps DEF EnrollStep
  <1>5. ASSUME NEW r \in Requests, ChangeStep(r) PROVE GalleryInvariant'
    BY <1>5, RewriteKeeps, RewriteFailsKeeps, UpdateKeeps, ChangeFailsKeeps, DeleteKeeps, DropKeeps,
       RenameKeeps DEF ChangeStep
  <1>6. CASE Restart
    BY <1>6, RestartKeeps
  <1>7. ASSUME NEW p \in Pipelines, AskVersion(p) \/ Load(p) \/ NewPipeline(p)
        PROVE  GalleryInvariant'
    BY <1>7, IndexKeeps
  <1>8. CASE RotateRead \/ RotateCommit \/ SwitchKey
    BY <1>8, RotateReadKeeps, RotateCommitKeeps, SwitchKeeps
  <1>9. CASE UNCHANGED vars
    BY <1>9 DEF vars, GalleryInvariant, Typed, RotationSound, KeysAccounted, IdsUsedOnce, Unborn,
                FilesUntangled, AtWork, SeenApart, IndexFresh, PhotosAgree,
                Busy, Untold, Entries, Readable, Present, Twins
  <1> QED BY <1>2, <1>3, <1>4, <1>5, <1>6, <1>7, <1>8, <1>9 DEF Next

(* Whatever requests, pipelines and the rotation do, in any interleaving:  *)
(* the invariant of enrollment, files, versions and keys holds.            *)
THEOREM GalleryInvariantHolds == Spec => []GalleryInvariant
  BY InitHolds, NextKeeps, PTL DEF Spec

(* All state stays in its types.                                           *)
THEOREM GalleryTypeCorrect == Spec => []TypeOK
  <1>1. GalleryInvariant => TypeOK
    <2> SUFFICES ASSUME GalleryInvariant PROVE TypeOK
      OBVIOUS
    <2>1. Typed
      BY DEF GalleryInvariant
    <2>2. ASSUME NEW r \in Requests
          PROVE  /\ req[r].pc \in {"idle", "check", "photos", "compare", "insert", "commit", "bump",
                                   "files", "update", "drop", "dropfiles", "rename"}
                 /\ req[r].pc \in OnFiles => req[r].sid \in Ids
      BY <2>1, Forms DEF Comparing
    <2>3. ASSUME NEW p \in Pipelines
          PROVE  /\ index[p].pc \in {"idle", "load"} /\ index[p].entries \subseteq Ids \X Faces
                 /\ index[p].version \in 0 .. version /\ index[p].asked \in 0 .. version
      BY <2>1 DEF Typed
    <2> QED BY <2>1, <2>2, <2>3 DEF Typed, TypeOK
  <1> QED BY <1>1, GalleryInvariantHolds, PTL

(* A pipeline's index filed under the current version is the current one,  *)
(* as long as no change is unannounced.                                    *)
THEOREM IndexesAreFresh == Spec => []IndexFresh
  <1>1. GalleryInvariant => IndexFresh
    BY DEF GalleryInvariant
  <1> QED BY <1>1, GalleryInvariantHolds, PTL

(* Photo directories agree with the rows, where requests did not overlap   *)
(* on one student or die, and no replacement or clearing that failed after *)
(* the directory was rewritten is still to be made good.                   *)
THEOREM FilesAgreeWithRows == Spec => []PhotosAgree
  <1>1. GalleryInvariant => PhotosAgree
    BY DEF GalleryInvariant
  <1> QED BY <1>1, GalleryInvariantHolds, PTL

(* A key rotation leaves behind only what was written while it ran.        *)
THEOREM RotationReachesAll == Spec => []LeftBehind
  <1>1. GalleryInvariant => LeftBehind
    <2> SUFFICES ASSUME GalleryInvariant, NEW s \in Ids, Present(s), students[s].key < key
                 PROVE  s \in late
      BY DEF LeftBehind
    <2>1. students[s].key \in Keys /\ key \in Keys
      BY DEF GalleryInvariant, Typed, Present, Rows
    <2>2. rotation.to = 0 \/ rotation.to = key + 1
      BY DEF GalleryInvariant, RotationSound
    <2>3. s \in late \/ students[s].key \in {key, rotation.to}
      BY DEF GalleryInvariant, KeysAccounted
    <2> QED BY <2>1, <2>2, <2>3 DEF Keys
  <1> QED BY <1>1, GalleryInvariantHolds, PTL

(* The same face is enrolled twice only where the check could not see the  *)
(* other student.                                                          *)
THEOREM DuplicatesAreExplained == Spec => []DuplicatesExplained
  <1>1. GalleryInvariant => DuplicatesExplained
    <2> SUFFICES ASSUME GalleryInvariant, NEW s \in Ids, NEW t \in Ids, s # t, Present(s), Present(t),
                        ~students[s].replaced, ~students[t].replaced,
                        NEW f \in students[s].faces, Twins(t, f), s \in students[t].seen
                 PROVE  FALSE
      BY DEF DuplicatesExplained
    <2> QED BY DEF GalleryInvariant, SeenApart, Twins
  <1> QED BY <1>1, GalleryInvariantHolds, PTL

-----------------------------------------------------------------------------
(* Matching.                                                               *)

(* Any non-empty set of numbers has a least one.                           *)
LEMMA LeastNat ==
  ASSUME NEW T \in SUBSET Nat, T # {}
  PROVE  \E n \in T : \A m \in T : n <= m
  <1> DEFINE R == {ss \in Nat \X Nat : ss[1] < ss[2]}
  <1>1. IsWellFoundedOn(R, Nat)
    BY NatLessThanWellFounded DEF OpToRel
  <1>2. \E x \in T : \A y \in T : <<y, x>> \notin R
    <2> HIDE DEF R
    <2> QED BY <1>1, WFMin
  <1>3. PICK x \in T : \A y \in T : <<y, x>> \notin R
    BY <1>2
  <1>4. ASSUME NEW m \in T PROVE x <= m
    <2>1. <<m, x>> \in Nat \X Nat /\ <<m, x>> \notin R
      BY <1>3
    <2>2. ~(m < x)
      BY <2>1
    <2> QED BY <2>2
  <1> QED BY <1>4

LEMMA LeastInt ==
  ASSUME NEW T \in SUBSET Int, NEW b \in Int, \A v \in T : v <= b, T # {}
  PROVE  \E v \in T : \A w \in T : w <= v
  <1> DEFINE D == {d \in Nat : b - d \in T}
  <1>1. ASSUME NEW w \in T PROVE b - w \in D
    <2>1. w \in Int /\ b - w \in Nat /\ b - (b - w) = w
      OBVIOUS
    <2> QED BY <2>1
  <1>2. D \in SUBSET Nat /\ D # {}
    BY <1>1
  <1>3. PICK d \in D : \A e \in D : d <= e
    <2> HIDE DEF D
    <2> QED BY <1>2, LeastNat
  <1>4. ASSUME NEW w \in T PROVE w <= b - d
    <2>1. d <= b - w /\ d \in Nat /\ w \in Int
      BY <1>1, <1>3
    <2> QED BY <2>1
  <1>5. b - d \in T
    BY <1>3
  <1> QED BY <1>4, <1>5

(* A student's score is the best of the photos.                            *)
LEMMA ScoreIsBest ==
  ASSUME Calibrated, NEW entries, \A e \in entries : e[2] \in Faces,
         NEW f \in Faces, NEW s \in StudentsIn(entries)
  PROVE  /\ Score(entries, s, f) \in Scores(entries, s, f)
         /\ \A w \in Scores(entries, s, f) : w <= Score(entries, s, f)
         /\ Score(entries, s, f) \in Int
         /\ Score(entries, s, f) <= 100
  <1> DEFINE T == Scores(entries, s, f)
  <1>1. FacesIn(entries, s) \subseteq Faces /\ FacesIn(entries, s) # {}
    BY DEF FacesIn, StudentsIn
  <1>2. T \in SUBSET Int /\ T # {} /\ \A v \in T : v <= 100
    <2>1. T # {}
      BY <1>1 DEF Scores
    <2>2. ASSUME NEW v \in T PROVE v \in Int /\ v <= 100
      <3>1. PICK g \in FacesIn(entries, s) : v = Sim[<<g, f>>]
        BY DEF Scores
      <3>2. g \in Faces
        BY <1>1
      <3> QED BY <3>1, <3>2, MatchingAssumption DEF Calibrated
    <2> QED BY <2>1, <2>2
  <1>3. \E v \in T : \A w \in T : w <= v
    <2>1. T \in SUBSET Int /\ T # {} /\ (\A v \in T : v <= 100) /\ 100 \in Int
      BY <1>2
    <2> HIDE DEF T
    <2> QED BY <2>1, LeastInt, Zenon
  <1>4. Score(entries, s, f) \in T /\ \A w \in T : w <= Score(entries, s, f)
    BY <1>3 DEF Score
  <1> QED BY <1>2, <1>4

LEMMA WinnerIsLike ==
  ASSUME Calibrated, NEW entries, \A e \in entries : e[1] \in Nat /\ e[2] \in Faces,
         NEW e \in entries
  PROVE  LET w == Winner(entries, e[2]) IN
         /\ w \in StudentsIn(entries)
         /\ e[2] \in FacesIn(entries, w)
         /\ Score(entries, w, e[2]) = 100
  <1> DEFINE f == e[2]
             Sc(s) == Score(entries, s, f)
             Full == {s \in StudentsIn(entries) : Sc(s) = 100}
  <1>1. e[2] \in Faces /\ e[1] \in StudentsIn(entries) /\ StudentsIn(entries) \subseteq Nat
    BY DEF StudentsIn
  <1>2. ASSUME NEW s \in StudentsIn(entries)
        PROVE  Sc(s) \in Int /\ Sc(s) <= 100 /\ (Sc(s) = 100 => f \in FacesIn(entries, s))
    <2>1. Sc(s) \in Scores(entries, s, f) /\ Sc(s) \in Int /\ Sc(s) <= 100
      BY <1>1, ScoreIsBest
    <2>2. PICK g \in FacesIn(entries, s) : Sc(s) = Sim[<<g, f>>]
      BY <2>1 DEF Scores
    <2>3. g \in Faces
      BY DEF FacesIn
    <2> QED BY <1>1, <2>1, <2>2, <2>3 DEF Calibrated
  <1>3. Sc(e[1]) = 100
    <2>1. f \in FacesIn(entries, e[1])
      BY DEF FacesIn
    <2>2. Sim[<<f, f>>] = 100
      BY <1>1 DEF Calibrated
    <2>3. 100 \in Scores(entries, e[1], f)
      BY <2>1, <2>2 DEF Scores
    <2>4. 100 <= Sc(e[1])
      BY <1>1, <2>3, ScoreIsBest
    <2> QED BY <1>1, <1>2, <2>4
  <1>4. PICK s \in Full : \A t \in Full : s <= t
    <2>1. Full \in SUBSET Nat /\ Full # {}
      BY <1>1, <1>3
    <2> HIDE DEF Full
    <2> QED BY <2>1, LeastNat
  <1> DEFINE Wins(w) == \A t \in StudentsIn(entries) : Sc(w) > Sc(t) \/ (Sc(w) = Sc(t) /\ w <= t)
  <1>5. s \in StudentsIn(entries) /\ Wins(s)
    <2> SUFFICES ASSUME NEW t \in StudentsIn(entries) PROVE Sc(s) > Sc(t) \/ (Sc(s) = Sc(t) /\ s <= t)
      BY <1>4
    <2>1. Sc(s) = 100 /\ Sc(t) \in Int /\ Sc(t) <= 100
      BY <1>2, <1>4
    <2>2. Sc(t) = 100 => s <= t
      BY <1>4
    <2> HIDE DEF Sc
    <2> QED BY <2>1, <2>2
  <1>6. Winner(entries, f) = CHOOSE w \in StudentsIn(entries) : Wins(w)
    BY DEF Winner
  <1>7. Winner(entries, f) \in StudentsIn(entries) /\ Wins(Winner(entries, f))
    <2> HIDE DEF Wins
    <2> QED BY <1>5, <1>6
  <1>8. Sc(Winner(entries, f)) = 100
    <2> DEFINE w == Winner(entries, f)
    <2>1. Sc(w) > Sc(e[1]) \/ Sc(w) = Sc(e[1])
      BY <1>1, <1>7
    <2>2. Sc(w) \in Int /\ Sc(w) <= 100
      BY <1>2, <1>7
    <2> SUFFICES Sc(w) = 100
      OBVIOUS
    <2> HIDE DEF Sc, w
    <2> QED BY <2>1, <2>2, <1>3
  <1> QED BY <1>2, <1>7, <1>8

(* Whoever is in an index is found by it.                                  *)
LEMMA OwnFaceIsFound ==
  ASSUME Calibrated, NEW entries, \A e \in entries : e[1] \in Nat \ {0} /\ e[2] \in Faces,
         NEW e \in entries
  PROVE  LET m == Match(entries, e[2]) IN
         m = e[1] \/ (m # NoMatch /\ SameHuman(entries, m, e[1]))
  <1> DEFINE f == e[2]
             w == Winner(entries, f)
             rivals == {t \in StudentsIn(entries) \ {w} : ~SameHuman(entries, w, t)}
  <1>1. w \in StudentsIn(entries) /\ f \in FacesIn(entries, w) /\ Score(entries, w, f) = 100
    <2>1. \A x \in entries : x[1] \in Nat /\ x[2] \in Faces
      OBVIOUS
    <2> QED BY <2>1, WinnerIsLike
  <1>2. f \in Faces /\ f \in FacesIn(entries, e[1]) /\ w # NoMatch
    BY <1>1 DEF FacesIn, StudentsIn, NoMatch
  <1>3. SameHuman(entries, w, e[1])
    <2>1. Sim[<<f, f>>] = 100 /\ 100 >= DuplicateSim
      BY <1>2, MatchingAssumption DEF Calibrated
    <2> QED BY <1>1, <1>2, <2>1 DEF SameHuman
  <1>4. ASSUME NEW t \in rivals PROVE Score(entries, w, f) - Score(entries, t, f) >= Margin
    <2>1. Score(entries, t, f) \in Scores(entries, t, f) /\ Score(entries, t, f) \in Int
      BY <1>2, ScoreIsBest
    <2>2. PICK g \in FacesIn(entries, t) : Score(entries, t, f) = Sim[<<g, f>>]
      BY <2>1 DEF Scores
    <2>3. g \in Faces /\ Sim[<<g, f>>] = Sim[<<f, g>>] /\ Sim[<<f, g>>] \in Int
      BY <1>2, MatchingAssumption DEF FacesIn
    <2>4. ~(Sim[<<f, g>>] >= DuplicateSim)
      BY <1>1 DEF SameHuman
    <2> QED BY <1>1, <2>1, <2>2, <2>3, <2>4, MatchingAssumption DEF Calibrated
  <1>5. Match(entries, f) = w
    <2>1. 100 >= Threshold /\ entries # {}
      BY MatchingAssumption DEF Calibrated
    <2> HIDE DEF w
    <2> QED BY <1>1, <1>4, <2>1 DEF Match, w
  <1> QED BY <1>2, <1>3, <1>5

(* Whoever is in an index is found by it, for every likeness of faces that *)
(* the thresholds are tuned for: by the own row, or by one of the same     *)
(* human.                                                                  *)
THEOREM OwnFacesAreMatched ==
  ASSUME Calibrated
  PROVE  Spec => []OwnFaceMatched
  <1>1. GalleryInvariant => OwnFaceMatched
    <2> SUFFICES ASSUME GalleryInvariant, NEW p \in Pipelines, NEW e \in index[p].entries
                 PROVE  LET m == Match(index[p].entries, e[2]) IN
                        m = e[1] \/ (m # NoMatch /\ SameHuman(index[p].entries, m, e[1]))
      BY DEF OwnFaceMatched
    <2>1. \A x \in index[p].entries : x[1] \in Nat \ {0} /\ x[2] \in Faces
      BY GalleryAssumption DEF GalleryInvariant, Typed, Ids
    <2> QED BY <2>1, OwnFaceIsFound
  <1> QED BY <1>1, GalleryInvariantHolds, PTL
=============================================================================
