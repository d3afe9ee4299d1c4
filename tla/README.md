# Formal models of the attendance system

TLA+ models of the video attendance system in this repository, checked with TLC
and, as far as the prover reaches, proved with TLAPS.  Paths below are relative to the
repository; `app/...` is the Python package.

## 1. The system

Cameras are watched by **pipelines** (`app/pipeline`): a Celery task per camera
reads frames, sends them in batches to one shared **inference service**
(`app/inference`) over Redis lists, matches the returned embeddings against an
in-memory **index** (`app/matching.py`), confirms and deduplicates the match and
writes an **attendance session** and an audit row to the database
(`app/services/attendance.py`).  A FastAPI **API** (`app/api`) starts and stops
pipelines through Redis keys, lets administrators close sessions, enroll
students, manage periods, alerts and accounts; Celery **jobs** (`app/tasks.py`)
close stale sessions, free slots of dead cameras and raise period alerts.

| component | state it keeps | operations | talks to | what makes it correct |
|---|---|---|---|---|
| attendance ledger (`services/attendance.py`, `models.py`) | `attendance_sessions`, `recognition_logs` | a sighting opens, closes or rolls over a session; force-close; stale-session job; cascade of a deleted student | pipelines, API, jobs share the tables at READ COMMITTED | rows consistent whatever overtakes whatever; every session explained by the log; at most one open session |
| camera control (`api/cameras.py`, `redis_client.py`) | Redis keys state, stop, heartbeat, task id, slots, running set | start, stop, forced stop, runtime report | API threads, pipelines and reaper share the keys | one pipeline per camera, none hidden, stops heard and ending, slots not over-used |
| camera pipeline (`pipeline/camera_task.py`) | confirmation buffer, index, its transaction | loop: heartbeat, batch, RPC, faces; backoff; cleanup | RPC, Redis, database | ends when stopped, cleans up its own keys, loses no sighting |
| frame reader (`pipeline/frame_reader.py`) | bounded queue, media clock | read, sample, stamp, drop oldest, reopen, back off | thread of the pipeline | newest frames kept, order kept, ends when stopped |
| inference RPC (`inference/client.py`, `server.py`) | request list, response lists, batch in memory | push, pop, gather, drop stale, decode, infer, answer | all pipelines and API requests | each call gets its own faces or fails; it always ends |
| face engine (`inference/engine.py`) | provider, batch mode | detect, embed, fall back to CPU | inference server | embeddings belong to their faces |
| index and matching (`matching.py`) | matrix, version | refresh, match | version counter in Redis | converges to the table; ambiguous faces are unknown |
| offline roll call (`confirm.py`, `scripts/test_cctv.py`) | tracks, their observations, marks | associate, observe, mark | a script; writes the ledger | marks earned by K of N observations of one track, nobody entitled missed |
| enrollment (`services/enrollment.py`, `quality.py`, `crypto.py`) | students, photos, encrypted vectors | enroll, import, add, replace, clear, delete | RPC, database, version counter | no face enrolled twice; index told of each change |
| alerts and periods (`services/alerts.py`, `api/alerts.py`, `api/periods.py`) | alerts, periods | deviation job, acknowledge, resolve, edit the timetable | ledger | one alert per deviation, none unjustified; sessions counted for the right period |
| users (`users.py`, `api/auth.py`, `security.py`) | accounts, password requests | seed, sign in, register, approve, suspend, edit, reset | API | a usable super admin remains; passwords change only as decided |
| live events (`services/events.py`, `api/ws.py`) | backlog of 200, subscriptions | publish, replay, forward | every writer | events in order, none twice; a client misses only what was published while it had no subscription, what was lost with one, and what is older than its backlog |
| key rotation (`scripts/rotate_encryption_key.py`) | ciphertexts | read, re-encrypt, commit | API, pipelines | no row left with the old key |

Hard behaviours: read-then-write on shared database rows and Redis keys by
processes that know nothing of each other; pipelines that die between two steps;
heartbeats that expire under a live pipeline; late or dropped RPC answers;
subscriptions lost under an open socket; photo directories rewritten before a
commit that fails;
timelines that run backwards (looped files).  `PROJECT.json` lists them as
hazards, each at its line, with the properties that would notice.

## 2. Modules

### Attendance, Presence

`Attendance` is the ledger with every process that writes it.

* State: `rows` (the table, with `nextId` its key sequence), `log`, `enrolled`
  (students), `now`; per camera the pipeline's `index`, `pc`, `txn` (what the
  open transaction has read), `clock` and `opened` (the timeline of its frames);
  `admin` and `job`, what the force-close request and the stale-session job have
  read.
* A transaction is two steps, because another process can commit in between:
  `Sight` is `get_open_session`; `CommitNone/Exit/Entry/Rollover` are the four
  outcomes of `process_recognition`, decided from what `Sight` read, together
  with the audit row.  `ForceCloseRead/Commit`, `StaleJobRead/Commit` likewise.
* `FrameTimes` says which time stamp the next frame can carry: of a stream, any
  instant since the last frame; of a looped file, any point of the media
  timeline, which runs ahead of the clock and starts over at `Reopen`.
* `Die`, `Restart` and `RefreshIndex` are a pipeline's death (including the one
  by a foreign key that fails), its successor and the index rebuild.

`Presence` is the abstract promise for one student: away, or present since a
date; presences end by leaving or by moving to a later date.

### RecognitionGate

What stands between a matched face and that transaction, for one stream camera:
`Confirm` is `_confirm_pass` with the child's buffer, `Claim`, `Suppress` and
`PassBlindly` are the three ends of `dedup_pass`, `Commit` the transaction in one
step (`Attendance` has it in full; here a student comes and goes through this
camera alone).  `TakeFrame` is a frame coming back from inference with the faces
of `FaceLists`, stamped by the reader at any instant since its last frame.

The three parts of the state live differently long: `hand` and `clock` end with
the pipeline, `buffer` with the worker child, `expires` (the dedup keys) with
neither.  `Leave` ends the pipeline in a child that goes on, `Die` takes the child
along; both can come between the key and the commit.  Two children may run
pipelines of the camera at once, as camera control does not exclude it after a
forced stop.  `votes` and `claimed` in the log, and `lost`, are history.

It says less than one might expect.  A confirmation counts matched faces, so two
faces of one frame can confirm a student.  `RowsEarned` is for streams only: a looped
file's timeline runs ahead of the clock and starts over, and stamps of the pass
before are then still in the buffer as if from the future.  The type in a dedup
key is the camera's, so at a `both` camera an exit within the window of the entry
is suppressed, unlike what the comment at `app/pipeline/camera_task.py:208` hopes
for.  A Redis command is assumed to be sent once: a client that repeats an unanswered
`SET NX` would find its own key and drop the sighting.

### CameraControl

Start and stop requests, pipelines and the reaper, one Redis command (or MULTI
block) per step: `StartCheck ... StartRecord` are `start_camera` and
`_acquire_slot`, `StopCheck ... StopDrop` are `stop_camera`, `Begin ... DropSlot`
are `camera.run` with its finally block, `ReaperLook/Drop` the second half of
`jobs_reap_dead_cameras`.  `Age` lets heartbeats expire.  What may happen besides
is listed in the constant `Allowed`: crashes, loops slower than the heartbeat,
keys that live long enough to expire, forced stops, the reaper, broker failures.
Each run says which it allows.

A queued task and a pipeline in its loop are `Active`; the steps of its cleanup
(`ending`, `freeing`, `dropping`) are separate, since a new start can overlap
with them.  `left` is history: the cameras whose state key lost its pipeline by a
death, or was written by an ordinary stop after the pipeline had gone.
`StateExplained` says that nothing else leaves a camera in a state nobody will ever
change: not a forced stop, not a failed hand-over, not a start racing a stop.

`Attendance` takes from here that a camera has one pipeline at a time
(`OnePipeline`): its `pc[c]` is a single process.

### InferenceRpc, RemoteCall

`InferenceRpc` is the request list, the response lists, `_rpc` on the callers'
side (`Send`, `Receive`, `TimeOut`, `LoseConnection`) and `run_loop` on the
server's: `Pop` and `Gather` fill a batch, `Sift` drops what is stale by now,
`Decode` answers the undecodable and lays out the plan, `Infer` and `Answer`
cut the engine's results into slices; `Crash` loses the lot.
Both ends of the list are the head, as LPUSH with LPOP: newest first.  A frame
is a model value and its faces are named by it, so a wrong slice shows.  Ages of
requests and waits stand for the clock.  The engine is reduced to one result per
image, in order; `Frames` has the rest of it.

`RemoteCall` is what a caller may rely on: the faces of exactly the frames
passed, or a failure.

### Frames, FaceEngine

`Frames` is the way of a camera's images: the reader thread (`Open`, `Read`,
`ReadFails`, `Waited`), its drop-oldest `push` in three queue operations (`Put`,
`PutFull`, `Drop`), because the pipeline takes from the same queue in between
(`Collect`), and one call of the engine, stage by stage (`DetectTogether`,
`DetectEach`, `Recover`, `Embed`), each of which can fail.  `FaceEngine` holds the
data of such a call as operators: which faces are found and kept, how crops of
several images become one batch, and how vectors find back to their faces.  A
vector is named by the face it was computed from.  `Others` are images of another
camera in the same call, as the server batches them.

What the code does here and one might not expect: a stream that opens but yields
nothing is reopened without delay; the doubled delay of a short file is undone by
the next successful open; after `reset_to_cpu` batched detection is probed again
although it is said to be off for good; and when the batched embedding fails and a
face fails in the retry, the vectors of the faces after it move up one place, so a
box is given the vector of another face, even of another camera's.  `OwnFaces`
says that this is the only way.

### Gallery, Matching

`Gallery` is the table of students with their photo directories and encrypted
vectors, and the indexes pipelines build from it.  A request of the API is a chain
of steps, one per query, commit, directory change or Redis command: `CheckRegNo`,
`Embed`, `Compare`, `Insert`, `CommitRow`, `Bump` enroll one student or each row of an
import (`NextRow`); `RewriteFiles`, `UpdateRow` replace or clear a face;
`DeleteRow`, `DropFiles` delete; `Rename`, `RenameCommit` change the number.
`AskVersion` and `Load` are an index reload, `RotateRead`, `RotateCommit` and
`SwitchKey` the key rotation and the redeployment after it.  A row records which
key it is encrypted with; a process reads only rows of the key it was started
with.  `CommitFails`, `RewriteFails`, `ChangeFails` and `Restart` stop a request half-way.

`Matching` is the decision rule: best photo per student, threshold, and a margin
to the best rival that is not the same human enrolled twice.

Replacing and clearing rewrite the directory before the row and put nothing back:
when a photo cannot be written or the commit fails, the row names photos that are gone.
`spoiled` (history) holds the students this has happened to, until a later request
rewrites both; `PhotosAgree` is about the others, so it says that this, overlapping
requests and a death of the API are the only ways to part row and directory.
Directories are removed with `ignore_errors=True`; the removal is taken to succeed.

Adding photos to a student is left out because it cannot succeed: the limit is
checked on `len(list(student.embeddings))`, which counts characters of the
ciphertext.  Replacing a face runs neither the quality gate nor the duplicate check.  A
rotation does not bump the version, so pipelines keep their index until something
else does; and rows written with the old key after the rotation has read the
table are unreadable after the switch (`late`).

### Accounts

Seeding at start, sign-in with the environment's password as a fallback
(`SignIn`, `Sync`), registration, password requests and the administrators' edits
and answers, each a step that reads and decides and one that commits
(`Edit`, `EditCommit`, ...).  The ORM writes only columns that differ from what
was read, and so does the model.  `Restart` brings another `ADMIN_PASSWORD`.
Two overlapping edits can each count on the other's super admin and disable both;
`overlapped` records that requests of administrators overlapped, and the
properties say what holds as long as they did not.  A token names an account by
id.

### PeriodAlerts, Summaries, LiveFeed

`PeriodAlerts` extends both others.  A sighting is one step (`Enter`, `Leave`) and
picks a period of the timetable by section, weekday and time of day, in local time.
A run of the deviation job is `JobBegin` (time and timetable, read once),
`JobPeriod`, `JobStudent` (the student's sessions), `JobCheck` (is there such an
alert?) and `JobInsert`, each a query or a commit of its own, with other runs,
sightings, acknowledgements, resolutions, edits of the timetable and deletions in
between.  Requests that change an alert or a period are two steps, read and
commit.

What one might not expect: a session counts only for the period of its entry, and
an entry before the start of a period for none, so a student who comes early is reported
absent; the look for an existing alert reaches back to midnight UTC, so where local
time is ahead (`.env.example` is set to Asia/Kolkata) alerts raised in the first
hours of a local day are raised again after UTC midnight; two overlapping
acknowledgements overwrite each other's stamp.

`Summaries` holds the reports (day, period, student, live) as operators on
session rows.  `LiveFeed` is the event channel: `Publish` in one transaction with
the backlog, `Replay` of the backlog to a new dashboard, then `Subscribe`; what is
published from then on waits in the dashboard's `inbox` until `Pump` sends it.  An
event between replay and subscription reaches that dashboard by neither way.  `Cut`
is an error of the Redis connection: the forwarding task subscribes again or ends,
while the socket stays open on `receive_text` (`app/api/ws.py:60-66`).  What was in
the inbox is lost, and so is what is published until it subscribes again, if ever: the
dashboard stays connected and is told nothing.  `gap` (history) collects all of these;
`FeedExplained` says that nothing else goes missing, and that order is kept across
backlog, inbox and new subscriptions.

## 3. Runs

| run | instance | shows |
|---|---|---|
| `attendance_races` | 1 student, 2 opening cameras (stream `entry`, looped file `both`), clock 0..1 with the looped file up to 2, midnight after 0, 2 sessions, 4 sightings | rows keep one of two shapes and their own duration; openings and exit cameras are explained by the log; entry side never rewritten |
| `attendance_entry_point` | 1 live `entry` and 1 live `exit` camera, clock 0..2 with midnight after 1, 2 sessions, 3 sightings | at most one open session, sessions in order, refinement of `Presence` |
| `attendance_two_open` | the cameras of `attendance_races`, both live | **violation**: two open sessions of one student and day |
| `gate_claims` | 1 student and a stranger at a `both` camera, 2 children; frames with one face or with two of the student; K 2, window 1, dedup window 2, clock 0..2, 3 frames | every recorded student has its own K fresh votes; recordings a dedup window apart; each key accounted for |
| `control_starts_apart` | 2 cameras, 1 slot, 3 children, 3 tasks, 2 request threads whose starts of one camera do not overlap (constraint `StartsApart`); crash, broker | one pipeline per camera, none reported stopped, stop flags kept |
| `control_live` | 2 cameras, 1 slot, 2 children, 3 tasks; slow | stops end pipelines, queued tasks begin |
| `control_forced` | 1 camera, 1 slot, 2 children, 2 tasks, 2 request threads, starts overlapping or not; force, day, reaper, broker | a camera nobody attends to is reported stopped, unless its pipeline died or an ordinary stop came after it had gone |
| `rpc_calls` | 2 callers, requests `<<g,f>>`, `<<f,bad>>`, batches of 2, 2 requests alive; deaths and lost responses | no request served twice; refinement of `RemoteCall`; fresh requests answered, calls end |
| `gallery_races` | 2 request threads with a request each, 3 ids, 1 student enrolled before, 1 pipeline, a rotation from key 1 to 2; photo writes, commits, bumps and the API fail | indexes agree with the rows once told; photo directories agree with them; alike faces and unreadable rows have a named reason; an enrolled face matches its student |
| `accounts` | 2 threads, 2 accounts, 1 password request, 5 requests, 2 passwords, restarts | a super admin remains; the environment never overrides a set password; answers reach the asker |
| `frames` | 4 images of up to 3 faces, queue 2, batch 2, every second frame sampled, file or stream, CPU or GPU, another camera's images; every stage fails | order kept, newest kept, vectors at their own faces, the reader ends |
| `alerts_feed` | 1 student of one of 2 sections, a timetable of up to 2 periods, 2 runs of the job, 2 administrators, 1 dashboard; clock 0..2 on two local dates, offset 1, 4 requests or sightings | alerts once a day and justified, timetable and sessions sound, stamps in order, feed explained although subscriptions are lost, reports agree |

**Bounds.**  Sessions of different students touch different rows, so one student
and the processes around him exhaust the ledger's races; two sessions and three or four
sightings are an opening, a close and a rollover, or two racing openings and two
closes; three instants on two dates (in `attendance_races` the third is reached by
the file alone, which runs ahead of the wall clock) give earlier, equal and later,
on the same date and across midnight.  In the
gate the clock reaches the instant at which a key set at 0 expires; three frames,
some with two faces, are two confirmations and a vote left over for another pipeline.  In
camera control one slot with two cameras is the contention the slot search is
for, three tasks are an old pipeline in cleanup, a new one and a stolen slot's;
three children are one slot plus two, as deployed; two
request threads are a stop within a start of the same camera and two starts that
want the one slot.  `control_starts_apart` leaves out the slow loop and the reaper,
which multiply its states; the theorems have them.  `control_forced` has the reaper, two
overlapping starts and two tasks on one camera, which is all `StateExplained` speaks
of.  A terminate order kills a pipeline at any of its steps as a crash does; crashes
without one, and slow loops, are in the theorem.  In the RPC two callers with
two requests alive are a full batch, or one being served with one waiting, and a
request left over from a call that timed out; a request of two frames whose second is
bad next to a good one makes the plan skip and slices start at an offset.
In the gallery two requests are every pair of operations on one student or two,
with the pipeline and the rotation as third and fourth; the imports have two rows, one of
them with too many photos, poor ones or malformed.  The
accounts are the seeded one and one more, which suffices for every edit that
depends on another account; five requests are a registration, its approval, a
promotion and two that race.  Among the images are one with more faces than are
kept and one with a face too small to align; queue and batch of two with four
images fill and overflow.  For the alerts a day has two instants: a period that
fills it, one that is its first half, and with the offset a local date that starts before
UTC midnight; four requests are an entry, two runs of the job and one request that
interferes.  Symmetry is
used for interchangeable cameras, tasks, request threads, callers, request
numbers, worker children, registration numbers, runs of the job and
administrators, in runs without liveness properties only.

Deadlock is not checked in `gallery_races`, `accounts`, `frames` and
`alerts_feed`: there the bounds on requests, images and time, or the end of the
pipeline, let the system stop.

**Fairness** (`control_live`, `rpc_calls`, `frames`).  A request thread runs to the
end of its handler (weak fairness); a pipeline keeps turning its loop, as the
RPC time-out bounds every turn, and finishes its cleanup (weak).  The pool takes from its queues in turn, first
in first out, so a queued task is not passed over each time a child comes free
(strong fairness of `Begin`).  The server keeps working and closes its batch
window, time passes, and BLPOP returns when its time is up (weak).  The reader's
reads and waits end, since OpenCV and `Event.wait` have time-outs, and the pipeline
thread turns its loop (weak, one process each).  Nothing is
assumed of administrators, crashes or the arrival of requests.

## 4. Proofs

`AttendanceProofs`, for every number of students, cameras and sightings and every
monotone calendar:

* `LedgerInvariant` is the inductive invariant: types, `SessionConsistent` for
  every row, and `TxnsKnown` for what an open transaction has read: while the
  student is enrolled, the row is there and is the student's.  That last part is
  what the checked invariants lack to be inductive: a commit acts on what was read
  earlier, so the proof needs what cannot have changed since.  Every step is
  first brought to one shape (`LedgerStep`: each row is kept, closed, inserted or
  dropped with its student), from which the other results start.
* `TypeCorrect`, `SessionsStayConsistent`, `SessionsStayExplained` and
  `HistoryIsKept` follow.
* With one live opening camera (`OneEntryPoint`), `OneEntryPointOneOpen`,
  `OneEntryPointInOrder` and the refinement `LedgerImplementsPresence`: the
  camera's clock bounds all entries, so a decision that found no open session is
  still right when it commits: only closers can have come in between.
* With any cameras but within one date (`OneDay`), `OneDayOneOpenPerCamera` bounds
  what the race of `attendance_two_open` can do: a student has at most one open session
  from each opening camera.  The invariant `OneDayInv` adds that a camera which decided
  on no open session still has none of its own (`NoneOfItsOwn`).  Across midnight
  it fails: a camera whose frames lag behind reads a session dated after its sighting,
  falls through and inserts again.

`CameraControlProofs`: `ControlTypeCorrect` and `StatesAreExplained` without
hypotheses; the latter needs `Attended`, which says who is behind a state: a task
that has not cleaned up, a request about to send one or to clear the keys, or `left`.  Then, for any
number of overlapping requests, crashes, slow loops, reaper runs and broker
failures, under two hypotheses: `Unforced` (no forced stops, keys not expiring) and
`[]StartsApart` (until one start request for a camera has sent its task, no other
start request for that camera comes).  The invariant of `PipelineInvariant` ties each
active task to its camera's state key and to the start request in progress, and
gives `StartsApartOnePipeline`, `StartsApartNeverHidden` and `StartsApartStopHeard`.
`control_starts_apart` instantiates both hypotheses.  Without them the properties do
not hold: two start requests both pass the check before either writes the state; a
forced stop clears the keys of a pipeline that is still ending, whose cleanup then
deletes those of its successor; after 24 hours the state key of a running pipeline is
gone.

`RecognitionGateProofs`, for every number of students, children and frames:
`GateTypeCorrect`; `ClaimInvariant` (the recordings of a subject that went through
Redis, those about to be committed included, are older than its current key by a
window or set it), which gives `OneRecordingPerWindow`; `KeysStayAccounted`;
and `VoteInvariant`, which gives `RowsStayEarned`.  The last says that a vote has one holder:
a buffer, a frame in hand, or a row.  That is not inductive without two further facts:
frames in the hands of two children differ, so a new vote is one nobody holds, and
no vote in a buffer is younger than the frame in hand, so the votes that stay after
pruning lie in the window.

`InferenceRpcProofs`, for every number of callers, frames and requests, with
faults: `RpcInvariant` says that the places a request can be in exclude each other
(`Separate`), that what travels under its id belongs to its frames (`OwnFrames`:
what the plan covers, what a batch carries, what an answer holds), and what each phase of the
server has in hand (`Phases`).  It gives `RequestsInOnePlace` and the refinement
`CallsAreAnsweredRight`.

`AccountsProofs`: `AccountsInvariant` adds to the types that without overlap one
request at a time is about to write (`OneWriter`), that then what it read is still
so (`ReadStillSo`), that the super admin is seeded before anything else
(`SeededFirst`), and whose request and whose answer it was.  It gives
`ASuperAdminRemains`, `SetPasswordsStay` and `ResetsReachTheAsker`, for any number
of accounts and restarts.

`GalleryProofs`: `GalleryInvariant` adds what the rotation has in hand
(`RotationSound`, `KeysAccounted`), that ids are handed out once (`IdsUsedOnce`),
that without a tangle one request at a time has a student's files
(`FilesUntangled`) and that a request has compared its faces with all it could see
(`SeenApart`).  `IndexesAreFresh`, `FilesAgreeWithRows`, `RotationReachesAll` and
`DuplicatesAreExplained` follow, for any number of requests, pipelines and keys.
`OwnFacesAreMatched` is about `Matching`: under `Calibrated` (only a face and
itself are fully alike, and a full match passes the threshold and leads a rival
below the same-human limit by the margin, as with the defaults of `app/config.py`) every face of an index is
matched with its student or with another row of the same human, whatever the
similarities of different people are.  TLC evaluates `Calibrated` on the instance.

`FramesProofs`: `FramesInvariant` says that what was handed on, the batch, the
queue and the frame in the reader's hand are one ascending sequence (`InLine`)
and that every number up to the last is in it, dropped or gone (`Accounted`), for any
queue, batch and sampling.  It gives `FramesInOrder` and `FramesNewestKept`.
`FramesOwnFaces` goes through the stages of a call of the engine: kept faces, their
crops laid end to end, the batch's vectors cut again by the counts of faces, and the stable sort
by score, which `FaceEngine` describes by ranks (`Arranged`) and not by a recursion,
so that its uniqueness follows from the least-number principle.

`AlertsProofs`: `AlertsInvariant` adds that rows refer to what is there
(`References`), that a stamp a request has seen is still there (`ReadStamps`), and
what a run of the job knows (`ReadyRuns`): the student it reports absent had no
session among those it looked at, and the alert it is about to insert has no older one
but for another run's since its look.  `AlertsAreDistinct`, `AbsencesAreExplained`,
`PeriodsStaySound` and `ResolvedAreAcked` follow, for any number of students, runs
and administrators, any timetable and any calendar; `FeedIsExplained` is proved
from an invariant of the feed alone.  `ReportsStayInAgreement` (`SummariesAgree`) needs
`ByEntry`: a student's sessions are opened in the order of their entries, so that
the first row the student's page takes and the least entry the summaries take are
the same.  The seconds a report adds up are stated in `Summaries` as the size of a set of
units, which the proof compares without a fold.

Each of these modules also proves its `TypeOK`.  The assumptions are the named
ASSUMEs of the modules, which TLC evaluates on every instance; `Unforced`,
`StartsApart`, `Calibrated`, `OneEntryPoint` and `OneDay` are hypotheses of the
theorems that name them.

Only model-checked: the liveness properties; they and ENABLED
are out of the prover's reach.  Every safety invariant and action property of a passing
run is also proved, and so are both refinements (`Presence` and `RemoteCall`).
`OneDayOneOpenPerCamera` has no run of its own.

## 5. Findings

The violation run refutes a sentence of the repository: two racing entries open
two sessions of one student and day.  `PROJECT.json` quotes the line.

Further limits of the code that show while modelling, and that no run states:

* A stop that overlaps the pipeline's own end leaves "stopping" behind until the
  state key expires a day later; a start is then refused with 409.  A forced stop
  deletes that key, and so it does for the state of a pipeline that died.  It is no
  guarantee: a task that is still loading when the keys are deleted writes "running"
  again, and when the terminate order kills it after that, the key stays.
* The heartbeat key of a dead pipeline expires before the report could see it
  stale, so the camera is reported "running", not "unhealthy" as
  `docs/ARCHITECTURE.md:69` and `README.md:300` have it.
* Starting cameras have no heartbeat yet; their slot is reclaimed, and the
  children the pool keeps in reserve (`app/workers/celery_app.py:10`) run cameras.
* Those named under *Frames*, *Gallery*, *Accounts* and *PeriodAlerts* above.

## 6. Not modelled

* Image processing, neural networks, snapshots, logging, counters, status
  hashes, metrics and health reports: no property of ours depends on their content.
* `app/confirm.py` tracks boxes and confirms students for one offline script, in one
  thread; the rule that pipelines apply is in `RecognitionGate`.
* The form import parses a file into the rows that `Gallery` imports; evaluation
  metrics count its outcomes.
* Camera rows: created, edited and deleted by single statements; in the models the
  cameras and their types are fixed.  Redis itself does not fail in
  `CameraControl`.
* Tokens: their expiry, secrets, and those from before the users table.
* The `pipeline_error` alert, which a pipeline inserts without looking for another.
* Configuration, schema, migrations, web front end, and demo, set-up and measurement
  scripts: nothing there runs concurrently with the rest or keeps
  state of its own.

The models are not composed into one: `RecognitionGate` takes the transaction of
`Attendance` as one step, and `Attendance` takes from `CameraControl` that a camera has
one pipeline.  Composing the two for several cameras, and camera rows in
`CameraControl`, is what would come next.
