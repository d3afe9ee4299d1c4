----------------------------- MODULE Attendance -----------------------------
(***************************************************************************)
(* The attendance ledger: the rows of attendance_sessions and              *)
(* recognition_logs, and every process that writes them.                   *)
(*                                                                         *)
(* Each camera is served by a pipeline in its own worker process.  A       *)
(* sighting that passed matching, confirmation and deduplication is one    *)
(* database transaction: the pipeline SELECTs the student's open session   *)
(* (Sight), decides, and later flushes and commits its writes (the actions *)
(* Commit...).  The database runs at READ COMMITTED with no row version    *)
(* and no uniqueness constraint on open sessions, so anything committed    *)
(* between the two steps is not seen by the decision.  The administrator's *)
(* force-close request and the stale-session job are read/commit pairs of  *)
(* the same kind, and a student can be deleted at any moment.              *)
(***************************************************************************)
EXTENDS Integers, FiniteSets

CONSTANTS
  Students,      \* the students ever enrolled
  Cameras,       \* the cameras, each with one running pipeline
  CamType,       \* CamType[c] is "entry", "exit" or "both"
  Live,          \* the cameras that are network streams; the others loop a file
  LocalDate,     \* LocalDate[t] is the calendar date of instant t
  FileLength,    \* the duration of a looped file
  StaleAge,      \* the age at which the stale-session job closes a session
  MaxTime,       \* bound on the wall clock
  MaxSessions,   \* bound on the session rows ever inserted
  MaxSightings,  \* bound on the rows of the recognition log
  None           \* SQL NULL

Time       == 0 .. (MaxTime + FileLength)
SessionIds == 1 .. MaxSessions
Openers    == {c \in Cameras : CamType[c] # "exit"}

(* LocalDate is monotone: the local date of a later UTC instant is never    *)
(* an earlier date, whatever the time zone does.                           *)
ASSUME ConstantsAssumption ==
  /\ CamType \in [Cameras -> {"entry", "exit", "both"}]
  /\ Live \subseteq Cameras
  /\ MaxTime \in Nat /\ FileLength \in Nat /\ StaleAge \in Nat
  /\ MaxSessions \in Nat /\ MaxSightings \in Nat
  /\ LocalDate \in [Time -> Nat]
  /\ \A t, u \in Time : t <= u => LocalDate[t] <= LocalDate[u]
  /\ None \notin Students \cup Cameras
  /\ None \notin Int

VARIABLES
  now,       \* the wall clock
  enrolled,  \* the rows of the students table
  rows,      \* the attendance_sessions table
  nextId,    \* its primary-key sequence
  log,       \* the recognition_logs table
  index,     \* index[c]: the students in the pipeline's embedding index
  opened,    \* opened[c]: when the reader last opened its file (0 for a stream)
  clock,     \* clock[c]: the timestamp of the last frame the pipeline handled
  pc,        \* pc[c]: "idle", "decided" (transaction open) or "down"
  txn,       \* txn[c]: the sighting being handled and the open session it read
  admin,     \* the session a force-close request has read (0: no request)
  job        \* the sessions the stale-session job has read ({}: not running)

cameraVars == <<index, opened, clock, pc, txn>>
vars == <<now, enrolled, rows, nextId, log, cameraVars, admin, job>>

-----------------------------------------------------------------------------
(* Rows                                                                    *)

NoTxn == [student |-> None, ts |-> 0, open |-> 0]

Absent ==
  [student |-> None, camIn |-> None, camOut |-> None, entry |-> 0,
   exit |-> None, date |-> 0, status |-> "absent", duration |-> None]

NewSession(s, c, ts) ==
  [student |-> s, camIn |-> c, camOut |-> None, entry |-> ts,
   exit |-> None, date |-> LocalDate[ts], status |-> "ongoing",
   duration |-> None]

LogRow(s, c, ts) == [student |-> s, camera |-> c, ts |-> ts]

(* Variant with a fault: no max(0, ...).                                   *)
DurationUnclamped(entry, exit) == exit - entry

(* max(0, int(exit - entry)): a close stamped before the entry counts zero. *)
Duration(entry, exit) == IF exit >= entry THEN exit - entry ELSE 0

(* Variants with a fault: a second close keeps the first duration; a close *)
(* without a camera clears camera_out.                                     *)
ClosedKeepingDuration(row, at, c) ==
  [row EXCEPT !.exit     = at,
              !.camOut   = IF c = None THEN @ ELSE c,
              !.duration = IF @ = None THEN Duration(row.entry, at) ELSE @,
              !.status   = "completed"]

ClosedClearingCamera(row, at, c) ==
  [row EXCEPT !.exit     = at,
              !.camOut   = c,
              !.duration = Duration(row.entry, at),
              !.status   = "completed"]

(* _close_session: a close without a camera leaves camera_out as it is.    *)
Closed(row, at, c) ==
  [row EXCEPT !.exit     = at,
              !.camOut   = IF c = None THEN @ ELSE c,
              !.duration = Duration(row.entry, at),
              !.status   = "completed"]

Ongoing(i) == rows[i].status = "ongoing"
OpenOf(s)  == {i \in SessionIds : Ongoing(i) /\ rows[i].student = s}

(* get_open_session: the ongoing row with the latest entry, 0 if none; a   *)
(* tie on entry_time is broken by the database as it likes.                *)
LatestOpen(s) ==
  IF OpenOf(s) = {}
    THEN {0}
    ELSE {i \in OpenOf(s) : \A j \in OpenOf(s) : rows[j].entry <= rows[i].entry}

(* Variant with a fault: frames leave the queue in any order.              *)
FrameTimesUnordered(c) ==
  IF c \in Live THEN 0 .. now ELSE opened[c] .. (opened[c] + FileLength)

(* The timestamps the next frame of c can carry.  Frames leave the queue   *)
(* in the order they were stamped.  A stream stamps the wall clock at      *)
(* decode, and the frame may wait; a file stamps the media timeline, which *)
(* runs ahead of the wall clock because decoding is not throttled.         *)
FrameTimes(c) ==
  IF c \in Live THEN clock[c] .. now ELSE clock[c] .. (opened[c] + FileLength)

-----------------------------------------------------------------------------
Init ==
  /\ now = 0
  /\ enrolled = Students
  /\ rows = [i \in SessionIds |-> Absent]
  /\ nextId = 1
  /\ log = {}
  /\ index = [c \in Cameras |-> Students]
  /\ opened = [c \in Cameras |-> 0]
  /\ clock = [c \in Cameras |-> 0]
  /\ pc = [c \in Cameras |-> "idle"]
  /\ txn = [c \in Cameras |-> NoTxn]
  /\ admin = 0
  /\ job = {}

-----------------------------------------------------------------------------
(* Camera pipelines                                                        *)

(* A deduplicated sighting reaches process_recognition, which reads the    *)
(* student's open session.  The index may still hold a deleted student.    *)
Sight(c, s, ts) ==
  /\ pc[c] = "idle"
  /\ s \in index[c]
  /\ ts \in FrameTimes(c)
  /\ Cardinality(log) < MaxSightings
  /\ \E o \in LatestOpen(s) :
       txn' = [txn EXCEPT ![c] = [student |-> s, ts |-> ts, open |-> o]]
  /\ pc' = [pc EXCEPT ![c] = "decided"]
  /\ clock' = [clock EXCEPT ![c] = ts]
  /\ UNCHANGED <<now, enrolled, rows, nextId, log, index, opened, admin, job>>

Today(c) == LocalDate[txn[c].ts]

(* Variants with a fault: an entry camera toggles like a both camera; a    *)
(* session of an earlier day is left open.                                 *)
ExitOutcomeAtEntry(c) ==
  /\ txn[c].open # 0
  /\ CamType[c] = "exit" \/ rows[txn[c].open].date = Today(c)

EntryOutcomeIfNotToday(c) ==
  /\ CamType[c] # "exit"
  /\ \/ txn[c].open = 0
     \/ txn[c].open # 0 /\ rows[txn[c].open].date # Today(c)

(* The four outcomes of process_recognition, decided from what was read.   *)
ExitOutcome(c) ==
  /\ txn[c].open # 0
  /\ \/ CamType[c] = "exit"
     \/ CamType[c] = "both" /\ rows[txn[c].open].date = Today(c)

RolloverOutcome(c) ==
  /\ CamType[c] # "exit"
  /\ txn[c].open # 0
  /\ rows[txn[c].open].date < Today(c)

(* The fall-through at the end of the function: no open session, or one    *)
(* dated later than this sighting.                                         *)
EntryOutcome(c) ==
  /\ CamType[c] # "exit"
  /\ \/ txn[c].open = 0
     \/ txn[c].open # 0 /\ rows[txn[c].open].date > Today(c)

NoOutcome(c) ==
  \/ CamType[c] = "exit" /\ txn[c].open = 0
  \/ /\ CamType[c] = "entry"
     /\ txn[c].open # 0
     /\ rows[txn[c].open].date = Today(c)

(* What every commit does: the foreign keys hold, the audit row is written *)
(* with the session change, and the pipeline takes its next face.          *)
Committing(c) ==
  /\ pc[c] = "decided"
  /\ txn[c].student \in enrolled
  /\ log' = log \cup {LogRow(txn[c].student, c, txn[c].ts)}
  /\ pc' = [pc EXCEPT ![c] = "idle"]
  /\ txn' = [txn EXCEPT ![c] = NoTxn]
  /\ UNCHANGED <<now, enrolled, index, opened, clock, admin, job>>

Inserted(c) == NewSession(txn[c].student, c, txn[c].ts)

CommitNone(c) ==
  /\ Committing(c)
  /\ NoOutcome(c)
  /\ UNCHANGED <<rows, nextId>>

CommitExit(c) ==
  /\ Committing(c)
  /\ ExitOutcome(c)
  /\ rows' = [rows EXCEPT ![txn[c].open] = Closed(@, txn[c].ts, c)]
  /\ UNCHANGED nextId

CommitEntry(c) ==
  /\ Committing(c)
  /\ EntryOutcome(c)
  /\ nextId \in SessionIds
  /\ rows' = [rows EXCEPT ![nextId] = Inserted(c)]
  /\ nextId' = nextId + 1

CommitRollover(c) ==
  /\ Committing(c)
  /\ RolloverOutcome(c)
  /\ nextId \in SessionIds
  /\ rows' = [rows EXCEPT ![txn[c].open] = Closed(@, txn[c].ts, c),
                          ![nextId] = Inserted(c)]
  /\ nextId' = nextId + 1

(* The pipeline dies: its worker is killed, or a database error (such as   *)
(* the foreign key of a student deleted since the index was built) leaves  *)
(* the run loop.  The open transaction is rolled back.                     *)
Die(c) ==
  /\ pc[c] # "down"
  /\ pc' = [pc EXCEPT ![c] = "down"]
  /\ txn' = [txn EXCEPT ![c] = NoTxn]
  /\ UNCHANGED <<now, enrolled, rows, nextId, log, index, opened, clock,
                 admin, job>>

(* A new pipeline for the camera: fresh index, fresh reader.               *)
Restart(c) ==
  /\ pc[c] = "down"
  /\ pc' = [pc EXCEPT ![c] = "idle"]
  /\ index' = [index EXCEPT ![c] = enrolled]
  /\ opened' = IF c \in Live THEN opened ELSE [opened EXCEPT ![c] = now]
  /\ clock' = [clock EXCEPT ![c] = now]
  /\ UNCHANGED <<now, enrolled, rows, nextId, log, txn, admin, job>>

(* The index is rebuilt between batches when the student version moved.    *)
RefreshIndex(c) ==
  /\ pc[c] = "idle"
  /\ index[c] # enrolled
  /\ index' = [index EXCEPT ![c] = enrolled]
  /\ UNCHANGED <<now, enrolled, rows, nextId, log, opened, clock, pc, txn,
                 admin, job>>

(* End of the file: the reader opened it again and the media timeline      *)
(* starts over at the wall clock of that moment, usually before the last   *)
(* timestamp.  The pipeline comes to the first frame of the new pass now,  *)
(* after the frames of the old one that were still in the queue.           *)
Reopen(c) ==
  /\ c \notin Live
  /\ pc[c] = "idle"
  /\ \E t \in opened[c] .. now :
       /\ opened' = [opened EXCEPT ![c] = t]
       /\ clock' = [clock EXCEPT ![c] = t]
  /\ UNCHANGED <<now, enrolled, rows, nextId, log, index, pc, txn, admin, job>>

-----------------------------------------------------------------------------
(* The API and the maintenance job                                         *)

(* POST /attendance/sessions/{id}/close reads the row; a completed one is  *)
(* returned as it is, so only the ongoing case goes on to write.           *)
ForceCloseRead(i) ==
  /\ admin = 0
  /\ Ongoing(i)
  /\ admin' = i
  /\ UNCHANGED <<now, enrolled, rows, nextId, log, cameraVars, job>>

(* The UPDATE of a row that is gone fails, and the request with it.        *)
ForceCloseCommit ==
  /\ admin # 0
  /\ rows' = IF rows[admin].status = "absent"
               THEN rows
               ELSE [rows EXCEPT ![admin] = Closed(@, now, None)]
  /\ admin' = 0
  /\ UNCHANGED <<now, enrolled, nextId, log, cameraVars, job>>

Stale(i) == Ongoing(i) /\ rows[i].entry + StaleAge < now

StaleJobRead ==
  /\ job = {}
  /\ \E i \in SessionIds : Stale(i)
  /\ job' = {i \in SessionIds : Stale(i)}
  /\ UNCHANGED <<now, enrolled, rows, nextId, log, cameraVars, admin>>

(* One commit for all the rows: if one of them is gone, nothing is written. *)
StaleJobCommit ==
  /\ job # {}
  /\ rows' = IF \E i \in job : rows[i].status = "absent"
               THEN rows
               ELSE [i \in SessionIds |->
                       IF i \in job THEN Closed(rows[i], now, None) ELSE rows[i]]
  /\ job' = {}
  /\ UNCHANGED <<now, enrolled, nextId, log, cameraVars, admin>>

(* Deleting a student cascades to the sessions; the log keeps its rows     *)
(* with a NULL student.                                                    *)
DeleteStudent(s) ==
  /\ s \in enrolled
  /\ enrolled' = enrolled \ {s}
  /\ rows' = [i \in SessionIds |->
                IF rows[i].student = s THEN Absent ELSE rows[i]]
  /\ log' = {IF r.student = s THEN [r EXCEPT !.student = None] ELSE r : r \in log}
  /\ UNCHANGED <<now, nextId, cameraVars, admin, job>>

Tick ==
  /\ now < MaxTime
  /\ now' = now + 1
  /\ UNCHANGED <<enrolled, rows, nextId, log, cameraVars, admin, job>>

-----------------------------------------------------------------------------
Pipeline(c) ==
  \/ \E s \in Students, ts \in Time : Sight(c, s, ts)
  \/ CommitNone(c) \/ CommitExit(c) \/ CommitEntry(c) \/ CommitRollover(c)
  \/ Die(c) \/ Restart(c) \/ RefreshIndex(c) \/ Reopen(c)

Next ==
  \/ \E c \in Cameras : Pipeline(c)
  \/ \E i \in SessionIds : ForceCloseRead(i)
  \/ ForceCloseCommit
  \/ StaleJobRead \/ StaleJobCommit
  \/ \E s \in Students : DeleteStudent(s)
  \/ Tick

Spec == Init /\ [][Next]_vars

-----------------------------------------------------------------------------
(* Properties                                                              *)

Session ==
  [student : Students, camIn : Cameras, camOut : Cameras \cup {None},
   entry : Time, exit : Time \cup {None}, date : Nat,
   status : {"ongoing", "completed"}, duration : Nat \cup {None}]

Txn == [student : Students, ts : Time, open : SessionIds \cup {0}]

(* Every variable keeps its type; the clocks stay within their bounds.     *)
TypeOK ==
  /\ now \in 0 .. MaxTime
  /\ enrolled \subseteq Students
  /\ rows \in [SessionIds -> Session \cup {Absent}]
  /\ nextId \in 1 .. (MaxSessions + 1)
  /\ log \subseteq [student : Students \cup {None}, camera : Cameras, ts : Time]
  /\ index \in [Cameras -> SUBSET Students]
  /\ opened \in [Cameras -> 0 .. MaxTime]
  /\ clock \in [Cameras -> Time]
  /\ pc \in [Cameras -> {"idle", "decided", "down"}]
  /\ txn \in [Cameras -> Txn \cup {NoTxn}]
  /\ admin \in SessionIds \cup {0}
  /\ job \subseteq SessionIds

(* Whatever overtakes whatever, a row is one of the two shapes the schema  *)
(* means: open with no exit data, or closed with an exit time and the      *)
(* duration of exactly that exit.  Its date is the local date of its entry *)
(* (midnight rollover), and its primary key has been handed out.           *)
SessionConsistent(i) ==
  /\ rows[i].date = LocalDate[rows[i].entry]
  /\ rows[i].student \in enrolled
  /\ i < nextId
  /\ \/ /\ Ongoing(i)
        /\ rows[i].exit = None /\ rows[i].duration = None
        /\ rows[i].camOut = None
     \/ /\ rows[i].status = "completed"
        /\ rows[i].exit # None
        /\ rows[i].duration = Duration(rows[i].entry, rows[i].exit)

SessionsConsistent ==
  \A i \in SessionIds : rows[i].status # "absent" => SessionConsistent(i)

(* The audit log explains every session: its opening is a logged sighting  *)
(* of that student at camera_in at the entry time, and a camera_out is     *)
(* there only for a logged sighting that may end the session: at an exit   *)
(* or both camera, or on a later date.  In particular an entry camera      *)
(* never ends a session of the same day.                                   *)
SessionsExplained ==
  \A i \in SessionIds : rows[i].status # "absent" =>
    /\ CamType[rows[i].camIn] # "exit"
    /\ LogRow(rows[i].student, rows[i].camIn, rows[i].entry) \in log
    /\ rows[i].camOut # None =>
         \E r \in log :
           /\ r.student = rows[i].student
           /\ r.camera = rows[i].camOut
           /\ \/ CamType[r.camera] # "entry"
              \/ rows[i].date < LocalDate[r.ts]

(* A session is history once written: while its student is enrolled the    *)
(* row stays, its entry side never changes, a closed session never opens   *)
(* again and a recorded exit camera is never erased.                       *)
HistoryKept ==
  [][\A i \in SessionIds :
       rows[i].status # "absent" /\ rows[i].student \in enrolled' =>
         /\ \A f \in {"student", "camIn", "entry", "date"} :
              rows'[i][f] = rows[i][f]
         /\ rows[i].status = "completed" => rows'[i].status = "completed"
         /\ rows[i].camOut # None => rows'[i].camOut # None]_vars

(* A student has at most one open session.  It holds where one live camera *)
(* opens sessions, however many exit cameras and closers there are.        *)
AtMostOneOpen ==
  \A i, j \in SessionIds :
    Ongoing(i) /\ Ongoing(j) /\ rows[i].student = rows[j].student => i = j

(* Sessions are numbered in the order of their entries, so the latest      *)
(* entry is the newest row and dates never run backwards.                  *)
EntriesInOrder ==
  \A i, j \in SessionIds :
    /\ rows[i].status # "absent" /\ rows[j].status # "absent"
    /\ i < j
    => rows[i].entry <= rows[j].entry

(* "entry camera and session already open today -> no-op"                  *)
(* (app/services/attendance.py:6): no two open sessions of one student     *)
(* carry the same date.                                                    *)
OneOpenPerDay ==
  \A i, j \in SessionIds :
    /\ Ongoing(i) /\ Ongoing(j)
    /\ rows[i].student = rows[j].student
    /\ rows[i].date = rows[j].date
    => i = j

-----------------------------------------------------------------------------
(* What the ledger promises about presence, when there is one entry point. *)
OneEntryPoint == Openers \subseteq Live /\ \A c, d \in Openers : c = d

Dates == {LocalDate[t] : t \in Time}

Inside(s) ==
  IF OpenOf(s) = {} THEN None ELSE rows[CHOOSE i \in OpenOf(s) : TRUE].date

Presence == INSTANCE Presence
              WITH Away <- None, inside <- [s \in Students |-> Inside(s)]

(* The ledger implements the abstract presence machine: a student is away  *)
(* or present since one date, and a presence ends by leaving or by moving  *)
(* to a later date, never by a second arrival.                             *)
ImplementsPresence == Presence!Spec

=============================================================================
