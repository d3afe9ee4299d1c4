-------------------------- MODULE AttendanceProofs --------------------------
(***************************************************************************)
(* Proofs about the attendance ledger, for every value of the constants    *)
(* that satisfies ConstantsAssumption.                                     *)
(***************************************************************************)
EXTENDS Attendance, TLAPS

USE ConstantsAssumption

-----------------------------------------------------------------------------
(* Rows keep their type when they are closed or inserted                   *)

(* Instants are natural numbers, and the wall clock only shows instants.   *)
LEMMA TimeFacts ==
  /\ Time \subseteq Nat
  /\ 0 \in Time
  /\ 0 .. MaxTime \subseteq Time
BY DEF Time

(* The duration written by a close is never negative.                      *)
LEMMA DurationNat ==
  ASSUME NEW entry \in Time, NEW exit \in Time
  PROVE  Duration(entry, exit) \in Nat
BY DEF Duration, Time

(* Closing a session (_close_session) yields a session with the same       *)
(* student and entry side, completed, with the duration of that exit.      *)
LEMMA ClosedSession ==
  ASSUME NEW row \in Session, NEW at \in Time, NEW c \in Cameras \cup {None}
  PROVE  /\ Closed(row, at, c) \in Session
         /\ Closed(row, at, c).student = row.student
         /\ Closed(row, at, c).camIn = row.camIn
         /\ Closed(row, at, c).camOut = IF c = None THEN row.camOut ELSE c
         /\ Closed(row, at, c).entry = row.entry
         /\ Closed(row, at, c).exit = at
         /\ Closed(row, at, c).date = row.date
         /\ Closed(row, at, c).status = "completed"
         /\ Closed(row, at, c).duration = Duration(row.entry, at)
BY DurationNat DEF Closed, Session

(* The row of a new session (an entry or a rollover) is a session.         *)
LEMMA InsertedSession ==
  ASSUME NEW s \in Students, NEW c \in Cameras, NEW ts \in Time
  PROVE  NewSession(s, c, ts) \in Session
BY DEF NewSession, Session

(* A row that is not there is told apart from every session.               *)
LEMMA AbsentIsNoSession == Absent \notin Session
BY DEF Absent, Session

(* What is known of the sighting a pipeline is about to commit.            *)
LEMMA OpenTxn ==
  ASSUME TypeOK, NEW c \in Cameras, txn[c].student \in enrolled
  PROVE  /\ txn[c] \in Txn
         /\ txn[c].ts \in Time
         /\ txn[c].student \in Students
         /\ txn[c].open \in SessionIds \cup {0}
BY DEF TypeOK, Txn, NoTxn

-----------------------------------------------------------------------------
(* Type correctness                                                        *)

(* A row that is there is a session.                                       *)
LEMMA RowTyped ==
  ASSUME TypeOK, NEW i \in SessionIds, rows[i].status # "absent"
  PROVE  rows[i] \in Session
BY DEF TypeOK, Absent

(* The empty ledger is typed.                                              *)
LEMMA TypeInit == Init => TypeOK
<1> SUFFICES ASSUME Init PROVE TypeOK
  OBVIOUS
<1>1. rows \in [SessionIds -> Session \cup {Absent}]
  BY DEF Init
<1>2. txn \in [Cameras -> Txn \cup {NoTxn}]
  BY DEF Init
<1>3. nextId \in 1 .. (MaxSessions + 1)
  BY DEF Init
<1> QED
  BY <1>1, <1>2, <1>3, TimeFacts DEF Init, TypeOK

(* What every commit of a pipeline leaves typed, and that the sighting it  *)
(* commits and the row it may insert are proper ones.                      *)
LEMMA TypeCommit ==
  ASSUME TypeOK, NEW c \in Cameras, Committing(c)
  PROVE  /\ log' \subseteq [student : Students \cup {None}, camera : Cameras,
                            ts : Time]
         /\ pc' \in [Cameras -> {"idle", "decided", "down"}]
         /\ txn' \in [Cameras -> Txn \cup {NoTxn}]
         /\ txn[c] \in Txn
         /\ Inserted(c) \in Session
<1>1. /\ txn[c] \in Txn
      /\ txn[c].ts \in Time
      /\ txn[c].student \in Students
  BY OpenTxn DEF Committing
<1>2. LogRow(txn[c].student, c, txn[c].ts)
        \in [student : Students \cup {None}, camera : Cameras, ts : Time]
  BY <1>1 DEF LogRow
<1>3. Inserted(c) \in Session
  BY <1>1, InsertedSession DEF Inserted
<1> QED
  BY <1>1, <1>2, <1>3 DEF Committing, TypeOK

-----------------------------------------------------------------------------
(* The inductive invariant                                                 *)

(* The session a pipeline read and its sighting: until its student is      *)
(* deleted the row is there and is the student's, and the sighting is the  *)
(* frame the pipeline last took.                                           *)
TxnKnown(c) ==
  /\ txn[c] \in Txn
  /\ txn[c].ts = clock[c]
  /\ txn[c].student \in enrolled /\ txn[c].open # 0 =>
       /\ rows[txn[c].open].status # "absent"
       /\ rows[txn[c].open].student = txn[c].student

TxnsKnown == \A c \in Cameras : pc[c] = "decided" => TxnKnown(c)

LedgerInv == TypeOK /\ SessionsConsistent /\ TxnsKnown

(* The four things a step can do to one row.                               *)
KeepRow(i) ==
  /\ rows'[i] = rows[i]
  /\ rows[i].status # "absent" => rows[i].student \in enrolled'

MayClose(i, at, c) ==
  /\ LogRow(rows[i].student, c, at) \in log'
  /\ CamType[c] # "entry" \/ rows[i].date < LocalDate[at]

CloseRow(i) ==
  /\ rows[i] \in Session
  /\ rows[i].student \in enrolled'
  /\ \E at \in Time, c \in Cameras \cup {None} :
       /\ rows'[i] = Closed(rows[i], at, c)
       /\ c # None => MayClose(i, at, c)

(* A pipeline inserts for the sighting it decided on, and closes the older *)
(* session with the same commit if it decided to roll over.                *)
InsertRow(i) ==
  /\ i = nextId
  /\ nextId' = nextId + 1
  /\ \E c \in Openers :
       /\ pc[c] = "decided" /\ pc'[c] # "decided"
       /\ txn[c].student \in enrolled' /\ txn[c].ts \in Time
       /\ rows'[i] = Inserted(c)
       /\ LogRow(txn[c].student, c, txn[c].ts) \in log'
       /\ \/ EntryOutcome(c)
          \/ RolloverOutcome(c) /\ rows'[txn[c].open].status = "completed"
       /\ \A j \in SessionIds \ {i, txn[c].open} : KeepRow(j)

DropRow(i) ==
  /\ rows'[i] = Absent
  /\ rows[i].student \notin enrolled'

RowStep(i) == KeepRow(i) \/ CloseRow(i) \/ InsertRow(i) \/ DropRow(i)

(* The shape of every step, which all the results below start from: the    *)
(* students only shrink, the log keeps the rows of those that remain, keys *)
(* only grow and are used once, and each session row is kept, closed,      *)
(* inserted or dropped with its student.                                   *)
LedgerStep ==
  /\ rows' = [i \in SessionIds |-> rows'[i]]
  /\ \A i \in SessionIds : RowStep(i)
  /\ nextId' \in 1 .. (MaxSessions + 1)
  /\ nextId <= nextId'
  /\ enrolled' \subseteq enrolled
  /\ \A r \in log : r.student \in enrolled' => r \in log'

(* A step that leaves the sessions alone and takes nothing from the log    *)
(* keeps every row.                                                        *)
LEMMA KeepAll ==
  ASSUME LedgerInv, UNCHANGED <<rows, nextId, enrolled>>, log \subseteq log'
  PROVE  LedgerStep
<1>1. ASSUME NEW i \in SessionIds PROVE KeepRow(i)
  BY DEF LedgerInv, SessionsConsistent, SessionConsistent, KeepRow
<1> QED
  BY <1>1 DEF LedgerStep, RowStep, LedgerInv, TypeOK

(* Committing an exit closes the session that was read, if it is still     *)
(* there, and keeps the others.                                            *)
LEMMA CommitExitStep ==
  ASSUME LedgerInv, NEW c \in Cameras, CommitExit(c)
  PROVE  LedgerStep
<1> DEFINE o == txn[c].open
<1>1. /\ txn[c] \in Txn /\ txn[c].ts \in Time
      /\ o \in SessionIds
      /\ rows[o].status # "absent" /\ rows[o].student \in enrolled
  BY OpenTxn DEF LedgerInv, CommitExit, Committing, ExitOutcome, TxnsKnown, TxnKnown
<1>2. rows[o] \in Session
  BY <1>1, RowTyped DEF LedgerInv
<1>3. rows' = [rows EXCEPT ![o] = Closed(rows[o], txn[c].ts, c)]
  BY DEF CommitExit
<1>4. enrolled' = enrolled /\ nextId' = nextId /\ log \subseteq log'
  BY DEF CommitExit, Committing
<1>5. CloseRow(o)
  <2>1. MayClose(o, txn[c].ts, c)
    BY <1>1 DEF MayClose, CommitExit, Committing, ExitOutcome, TxnsKnown, TxnKnown,
                LedgerInv
  <2> QED
    BY <1>1, <1>2, <1>3, <1>4, <2>1 DEF CloseRow, LedgerInv, TypeOK
<1>6. ASSUME NEW i \in SessionIds, i # o PROVE KeepRow(i)
  BY <1>3, <1>4, <1>6
  DEF KeepRow, LedgerInv, SessionsConsistent, SessionConsistent, TypeOK
<1>7. rows' = [i \in SessionIds |-> rows'[i]]
  BY <1>3 DEF LedgerInv, TypeOK
<1> QED
  BY <1>4, <1>5, <1>6, <1>7 DEF LedgerStep, RowStep, LedgerInv, TypeOK

(* Committing an entry inserts one row under a fresh key, with its sighting*)
(* in the log.                                                             *)
LEMMA CommitEntryStep ==
  ASSUME LedgerInv, NEW c \in Cameras, CommitEntry(c)
  PROVE  LedgerStep
<1>1. txn[c].ts \in Time /\ txn[c].student \in enrolled
  BY OpenTxn DEF LedgerInv, CommitEntry, Committing
<1>2. rows' = [rows EXCEPT ![nextId] = Inserted(c)]
  BY DEF CommitEntry
<1>3. /\ enrolled' = enrolled /\ nextId' = nextId + 1 /\ nextId \in SessionIds
      /\ log \subseteq log'
  BY DEF CommitEntry, Committing
<1>4. ASSUME NEW i \in SessionIds, i # nextId PROVE KeepRow(i)
  BY <1>2, <1>3, <1>4
  DEF KeepRow, LedgerInv, SessionsConsistent, SessionConsistent, TypeOK
<1>5. InsertRow(nextId)
  <2>1. c \in Openers /\ pc[c] = "decided" /\ EntryOutcome(c)
    BY DEF CommitEntry, Committing, EntryOutcome, Openers
  <2>2. LogRow(txn[c].student, c, txn[c].ts) \in log'
    BY DEF CommitEntry, Committing
  <2>3. rows'[nextId] = Inserted(c)
    BY <1>2, <1>3 DEF LedgerInv, TypeOK
  <2>4. pc'[c] # "decided"
    BY DEF CommitEntry, Committing, LedgerInv, TypeOK
  <2> QED
    BY <1>1, <1>3, <1>4, <2>1, <2>2, <2>3, <2>4 DEF InsertRow
<1>6. rows' = [i \in SessionIds |-> rows'[i]]
  BY <1>2 DEF LedgerInv, TypeOK
<1>7. nextId' \in 1 .. (MaxSessions + 1) /\ nextId <= nextId'
  BY <1>3 DEF SessionIds, LedgerInv, TypeOK
<1> QED
  BY <1>3, <1>5, <1>4, <1>6, <1>7 DEF LedgerStep, RowStep

(* Committing a rollover closes the session of the earlier day, if it is   *)
(* still there, and inserts one for the new day.                           *)
LEMMA CommitRolloverStep ==
  ASSUME LedgerInv, NEW c \in Cameras, CommitRollover(c)
  PROVE  LedgerStep
<1> DEFINE o == txn[c].open
<1>1. /\ txn[c] \in Txn /\ txn[c].ts \in Time
      /\ o \in SessionIds /\ txn[c].student \in enrolled
      /\ rows[o].status # "absent" /\ rows[o].student \in enrolled
  BY OpenTxn
  DEF LedgerInv, CommitRollover, Committing, RolloverOutcome, TxnsKnown, TxnKnown
<1>2. rows[o] \in Session
  BY <1>1, RowTyped DEF LedgerInv
<1>3. o < nextId
  BY <1>1 DEF LedgerInv, SessionsConsistent, SessionConsistent
<1>4. rows' = [rows EXCEPT ![o] = Closed(rows[o], txn[c].ts, c),
                           ![nextId] = Inserted(c)]
  BY <1>3 DEF CommitRollover
<1>5. /\ enrolled' = enrolled /\ nextId' = nextId + 1 /\ nextId \in SessionIds
      /\ log \subseteq log'
  BY DEF CommitRollover, Committing
<1>6. o # nextId
  BY <1>1, <1>3, <1>5 DEF SessionIds
<1>7. CloseRow(o) /\ rows'[o].status = "completed"
  <2>1. MayClose(o, txn[c].ts, c)
    BY <1>1 DEF MayClose, CommitRollover, Committing, RolloverOutcome, Today,
                TxnsKnown, TxnKnown, LedgerInv
  <2>2. rows'[o] = Closed(rows[o], txn[c].ts, c)
    BY <1>1, <1>4, <1>6 DEF LedgerInv, TypeOK
  <2> QED
    BY <1>1, <1>2, <1>5, <2>1, <2>2, ClosedSession DEF CloseRow
<1>8. ASSUME NEW i \in SessionIds, i # o, i # nextId PROVE KeepRow(i)
  BY <1>4, <1>5, <1>8
  DEF KeepRow, LedgerInv, SessionsConsistent, SessionConsistent, TypeOK
<1>9. InsertRow(nextId)
  <2>1. c \in Openers /\ pc[c] = "decided" /\ RolloverOutcome(c)
    BY DEF CommitRollover, Committing, RolloverOutcome, Openers
  <2>2. LogRow(txn[c].student, c, txn[c].ts) \in log'
    BY DEF CommitRollover, Committing
  <2>3. rows'[nextId] = Inserted(c)
    BY <1>1, <1>4, <1>5, <1>6 DEF LedgerInv, TypeOK
  <2>4. pc'[c] # "decided"
    BY DEF CommitRollover, Committing, LedgerInv, TypeOK
  <2> QED
    BY <1>1, <1>5, <1>7, <1>8, <2>1, <2>2, <2>3, <2>4 DEF InsertRow
<1>10. rows' = [i \in SessionIds |-> rows'[i]]
  BY <1>4 DEF LedgerInv, TypeOK
<1>11. nextId' \in 1 .. (MaxSessions + 1) /\ nextId <= nextId'
  BY <1>5 DEF SessionIds, LedgerInv, TypeOK
<1> QED
  BY <1>5, <1>7, <1>9, <1>8, <1>10, <1>11 DEF LedgerStep, RowStep

(* The administrator's close touches the one row that was read.            *)
LEMMA ForceCloseCommitStep ==
  ASSUME LedgerInv, ForceCloseCommit
  PROVE  LedgerStep
<1>1. UNCHANGED <<nextId, enrolled, log>> /\ admin \in SessionIds /\ now \in Time
  BY TimeFacts DEF ForceCloseCommit, LedgerInv, TypeOK
<1>2. CASE rows[admin].status = "absent"
  BY <1>1, <1>2, KeepAll DEF ForceCloseCommit
<1>3. CASE rows[admin].status # "absent"
  <2>1. rows' = [rows EXCEPT ![admin] = Closed(rows[admin], now, None)]
    BY <1>3 DEF ForceCloseCommit
  <2>2. rows[admin] \in Session /\ rows[admin].student \in enrolled
    BY <1>1, <1>3, RowTyped DEF LedgerInv, SessionsConsistent, SessionConsistent
  <2>3. CloseRow(admin)
    BY <1>1, <2>1, <2>2 DEF CloseRow, LedgerInv, TypeOK
  <2>4. ASSUME NEW i \in SessionIds, i # admin PROVE KeepRow(i)
    BY <1>1, <2>1, <2>4
    DEF KeepRow, LedgerInv, SessionsConsistent, SessionConsistent, TypeOK
  <2>5. rows' = [i \in SessionIds |-> rows'[i]]
    BY <2>1 DEF LedgerInv, TypeOK
  <2> QED
    BY <1>1, <2>3, <2>4, <2>5 DEF LedgerStep, RowStep, LedgerInv, TypeOK
<1> QED
  BY <1>2, <1>3

(* The stale-session job closes the rows it selected, or none of them.     *)
LEMMA StaleJobCommitStep ==
  ASSUME LedgerInv, StaleJobCommit
  PROVE  LedgerStep
<1>1. UNCHANGED <<nextId, enrolled, log>> /\ job \subseteq SessionIds /\ now \in Time
  BY TimeFacts DEF StaleJobCommit, LedgerInv, TypeOK
<1>2. CASE \E i \in job : rows[i].status = "absent"
  BY <1>1, <1>2, KeepAll DEF StaleJobCommit
<1>3. CASE ~ \E i \in job : rows[i].status = "absent"
  <2>1. rows' = [i \in SessionIds |->
                   IF i \in job THEN Closed(rows[i], now, None) ELSE rows[i]]
    BY <1>3 DEF StaleJobCommit
  <2>2. ASSUME NEW i \in SessionIds, i \in job PROVE CloseRow(i)
    <3>1. rows[i] \in Session /\ rows[i].student \in enrolled
      BY <1>3, <2>2, RowTyped DEF LedgerInv, SessionsConsistent, SessionConsistent
    <3> QED
      BY <1>1, <2>1, <2>2, <3>1 DEF CloseRow
  <2>3. ASSUME NEW i \in SessionIds, i \notin job PROVE KeepRow(i)
    BY <1>1, <2>1, <2>3
    DEF KeepRow, LedgerInv, SessionsConsistent, SessionConsistent
  <2> QED
    BY <1>1, <2>1, <2>2, <2>3 DEF LedgerStep, RowStep, LedgerInv, TypeOK
<1> QED
  BY <1>2, <1>3

(* Deleting a student drops exactly the rows of that student.              *)
LEMMA DeleteStudentStep ==
  ASSUME LedgerInv, NEW s \in Students, DeleteStudent(s)
  PROVE  LedgerStep
<1>1. /\ rows' = [i \in SessionIds |->
                     IF rows[i].student = s THEN Absent ELSE rows[i]]
      /\ enrolled' = enrolled \ {s}
      /\ nextId' = nextId
      /\ \A r \in log : r.student \in enrolled' => r \in log'
  BY DEF DeleteStudent
<1>2. ASSUME NEW i \in SessionIds, rows[i].student = s PROVE DropRow(i)
  BY <1>1, <1>2 DEF DropRow
<1>3. ASSUME NEW i \in SessionIds, rows[i].student # s PROVE KeepRow(i)
  BY <1>1, <1>3 DEF KeepRow, LedgerInv, SessionsConsistent, SessionConsistent
<1> QED
  BY <1>1, <1>2, <1>3 DEF LedgerStep, RowStep, LedgerInv, TypeOK

(* Every step of the system is a ledger step: each row is kept, closed,    *)
(* inserted or dropped.                                                    *)
LEMMA NextLedgerStep ==
  ASSUME LedgerInv, [Next]_vars
  PROVE  LedgerStep
<1>1. ASSUME NEW c \in Cameras, Pipeline(c) PROVE LedgerStep
  <2>1. ASSUME NEW s \in Students, NEW ts \in Time, Sight(c, s, ts)
        PROVE  LedgerStep
    BY <2>1, KeepAll DEF Sight
  <2>2. CASE CommitNone(c)
    BY <2>2, KeepAll DEF CommitNone, Committing
  <2>3. CASE CommitExit(c)
    BY <2>3, CommitExitStep
  <2>4. CASE CommitEntry(c)
    BY <2>4, CommitEntryStep
  <2>5. CASE CommitRollover(c)
    BY <2>5, CommitRolloverStep
  <2>6. CASE Die(c) \/ Restart(c) \/ RefreshIndex(c) \/ Reopen(c)
    BY <2>6, KeepAll DEF Die, Restart, RefreshIndex, Reopen
  <2> QED
    BY <1>1, <2>1, <2>2, <2>3, <2>4, <2>5, <2>6 DEF Pipeline
<1>2. ASSUME NEW i \in SessionIds, ForceCloseRead(i) PROVE LedgerStep
  BY <1>2, KeepAll DEF ForceCloseRead
<1>3. CASE ForceCloseCommit
  BY <1>3, ForceCloseCommitStep
<1>4. CASE StaleJobRead
  BY <1>4, KeepAll DEF StaleJobRead
<1>5. CASE StaleJobCommit
  BY <1>5, StaleJobCommitStep
<1>6. ASSUME NEW s \in Students, DeleteStudent(s) PROVE LedgerStep
  BY <1>6, DeleteStudentStep
<1>7. CASE Tick
  BY <1>7, KeepAll DEF Tick
<1>8. CASE UNCHANGED vars
  BY <1>8, KeepAll DEF vars
<1> QED
  BY <1>1, <1>2, <1>3, <1>4, <1>5, <1>6, <1>7, <1>8 DEF Next

-----------------------------------------------------------------------------
(* The invariant is inductive                                              *)

(* The sessions table stays typed through a ledger step.                   *)
LEMMA RowsTyped ==
  ASSUME TypeOK, LedgerStep
  PROVE  rows' \in [SessionIds -> Session \cup {Absent}]
<1>1. ASSUME NEW i \in SessionIds PROVE rows'[i] \in Session \cup {Absent}
  <2>1. CASE KeepRow(i)
    BY <2>1 DEF KeepRow, TypeOK
  <2>2. CASE CloseRow(i)
    BY <2>2, ClosedSession DEF CloseRow
  <2>3. CASE InsertRow(i)
    BY <2>3, InsertedSession DEF InsertRow, Inserted, Openers, LedgerStep, TypeOK
  <2>4. CASE DropRow(i)
    BY <2>4 DEF DropRow
  <2> QED
    BY <2>1, <2>2, <2>3, <2>4 DEF LedgerStep, RowStep
<1> QED
  BY <1>1 DEF LedgerStep

(* The typing of everything but rows, nextId and enrolled.                 *)
RestTyped ==
  /\ now \in 0 .. MaxTime
  /\ log \subseteq [student : Students \cup {None}, camera : Cameras, ts : Time]
  /\ index \in [Cameras -> SUBSET Students]
  /\ opened \in [Cameras -> 0 .. MaxTime]
  /\ clock \in [Cameras -> Time]
  /\ pc \in [Cameras -> {"idle", "decided", "down"}]
  /\ txn \in [Cameras -> Txn \cup {NoTxn}]
  /\ admin \in SessionIds \cup {0}
  /\ job \subseteq SessionIds

(* Reading the open session leaves everything but the sessions typed.      *)
LEMMA SightTyped ==
  ASSUME TypeOK, NEW c \in Cameras, NEW s \in Students, NEW ts \in Time,
         Sight(c, s, ts)
  PROVE  RestTyped'
<1>1. PICK o \in LatestOpen(s) :
        txn' = [txn EXCEPT ![c] = [student |-> s, ts |-> ts, open |-> o]]
  BY DEF Sight
<1>2. o \in SessionIds \cup {0}
  BY DEF LatestOpen, OpenOf
<1>3. txn' \in [Cameras -> Txn \cup {NoTxn}]
  BY <1>1, <1>2 DEF Txn, TypeOK
<1> QED
  BY <1>3 DEF Sight, TypeOK, RestTyped

(* So does every step of a pipeline, ...                                   *)
LEMMA PipelineTyped ==
  ASSUME TypeOK, NEW c \in Cameras, Pipeline(c)
  PROVE  RestTyped'
<1>1. ASSUME NEW s \in Students, NEW ts \in Time, Sight(c, s, ts)
      PROVE  RestTyped'
  BY <1>1, SightTyped
<1>2. CASE Committing(c)
  BY <1>2, TypeCommit DEF Committing, TypeOK, RestTyped
<1>3. CASE Die(c)
  BY <1>3 DEF Die, TypeOK, RestTyped
<1>4. CASE Restart(c)
  BY <1>4, TimeFacts DEF Restart, TypeOK, RestTyped
<1>5. CASE RefreshIndex(c)
  BY <1>5 DEF RefreshIndex, TypeOK, RestTyped
<1>6. CASE Reopen(c)
  BY <1>6, TimeFacts DEF Reopen, TypeOK, RestTyped
<1> QED
  BY <1>1, <1>2, <1>3, <1>4, <1>5, <1>6
  DEF Pipeline, CommitNone, CommitExit, CommitEntry, CommitRollover

(* ... and every step of the system.                                       *)
LEMMA NextTyped ==
  ASSUME TypeOK, [Next]_vars
  PROVE  RestTyped'
<1>1. ASSUME NEW c \in Cameras, Pipeline(c) PROVE RestTyped'
  BY <1>1, PipelineTyped
<1>2. ASSUME NEW i \in SessionIds, ForceCloseRead(i) PROVE RestTyped'
  BY <1>2 DEF ForceCloseRead, cameraVars, TypeOK, RestTyped
<1>3. CASE ForceCloseCommit
  BY <1>3 DEF ForceCloseCommit, cameraVars, TypeOK, RestTyped
<1>4. CASE StaleJobRead
  BY <1>4 DEF StaleJobRead, cameraVars, TypeOK, RestTyped
<1>5. CASE StaleJobCommit
  BY <1>5 DEF StaleJobCommit, cameraVars, TypeOK, RestTyped
<1>6. ASSUME NEW s \in Students, DeleteStudent(s) PROVE RestTyped'
  <2>1. ASSUME NEW r \in log
        PROVE  (IF r.student = s THEN [r EXCEPT !.student = None] ELSE r)
                 \in [student : Students \cup {None}, camera : Cameras, ts : Time]
    BY <2>1 DEF TypeOK
  <2>2. log' \subseteq [student : Students \cup {None}, camera : Cameras, ts : Time]
    BY <1>6, <2>1 DEF DeleteStudent
  <2> QED
    BY <1>6, <2>2 DEF DeleteStudent, cameraVars, TypeOK, RestTyped
<1>7. CASE Tick
  BY <1>7 DEF Tick, cameraVars, TypeOK, RestTyped
<1>8. CASE UNCHANGED vars
  BY <1>8 DEF vars, cameraVars, TypeOK, RestTyped
<1> QED
  BY <1>1, <1>2, <1>3, <1>4, <1>5, <1>6, <1>7, <1>8 DEF Next

(* Types are kept by every step.                                           *)
LEMMA TypeStep ==
  ASSUME LedgerInv, [Next]_vars
  PROVE  TypeOK'
<1>1. LedgerStep
  BY NextLedgerStep
<1>2. rows' \in [SessionIds -> Session \cup {Absent}]
  BY <1>1, RowsTyped DEF LedgerInv
<1>3. RestTyped'
  BY NextTyped DEF LedgerInv
<1> QED
  BY <1>1, <1>2, <1>3 DEF LedgerStep, RestTyped, TypeOK, LedgerInv

(* Rows stay consistent through a ledger step.                             *)
LEMMA ConsistentStep ==
  ASSUME LedgerInv, LedgerStep
  PROVE  SessionsConsistent'
<1> SUFFICES ASSUME NEW i \in SessionIds, rows'[i].status # "absent"
             PROVE  SessionConsistent(i)'
  BY DEF SessionsConsistent
<1>1. nextId \in Int /\ nextId' \in Int /\ nextId <= nextId' /\ i \in Int
  BY DEF LedgerInv, LedgerStep, TypeOK, SessionIds
<1>2. CASE KeepRow(i)
  BY <1>1, <1>2
  DEF KeepRow, LedgerInv, SessionsConsistent, SessionConsistent, Ongoing
<1>3. CASE CloseRow(i)
  <2>1. PICK at \in Time, c \in Cameras \cup {None} :
          rows'[i] = Closed(rows[i], at, c)
    BY <1>3 DEF CloseRow
  <2>2. SessionConsistent(i) /\ rows[i] \in Session /\ rows[i].student \in enrolled'
    BY <1>3, AbsentIsNoSession
    DEF CloseRow, Session, LedgerInv, SessionsConsistent
  <2>3. at # None
    BY DEF Time
  <2>4. /\ rows'[i].student = rows[i].student /\ rows'[i].entry = rows[i].entry
        /\ rows'[i].date = rows[i].date /\ rows'[i].exit = at
        /\ rows'[i].status = "completed"
        /\ rows'[i].duration = Duration(rows[i].entry, at)
    BY <2>1, <2>2, ClosedSession
  <2>5. rows[i].date = LocalDate[rows[i].entry] /\ i < nextId
    BY <2>2 DEF SessionConsistent
  <2> QED
    BY <1>1, <2>2, <2>3, <2>4, <2>5 DEF SessionConsistent
<1>4. CASE InsertRow(i)
  BY <1>1, <1>4 DEF InsertRow, Inserted, NewSession, SessionConsistent, Ongoing
<1>5. CASE DropRow(i)
  BY <1>5 DEF DropRow, Absent
<1> QED
  BY <1>2, <1>3, <1>4, <1>5 DEF LedgerStep, RowStep

(* A decided sighting stays good while others commit: the row it read can  *)
(* be closed under it, but not replaced.                                   *)
LEMMA TxnStays ==
  ASSUME LedgerInv, LedgerStep, NEW d \in Cameras, TxnKnown(d),
         txn'[d] = txn[d], clock'[d] = clock[d]
  PROVE  TxnKnown(d)'
<1> DEFINE o == txn[d].open
<1> SUFFICES ASSUME txn[d].student \in enrolled', o # 0
             PROVE  /\ rows'[o].status # "absent"
                    /\ rows'[o].student = txn[d].student
  BY DEF TxnKnown
<1>1. /\ o \in SessionIds /\ rows[o].status # "absent"
      /\ rows[o].student = txn[d].student
  BY DEF TxnKnown, Txn, LedgerStep
<1>2. CASE KeepRow(o)
  BY <1>1, <1>2 DEF KeepRow
<1>3. CASE CloseRow(o)
  BY <1>1, <1>3, ClosedSession DEF CloseRow
<1>4. CASE InsertRow(o)
  <2>1. o < nextId
    BY <1>1 DEF LedgerInv, SessionsConsistent, SessionConsistent
  <2> QED
    BY <1>1, <1>4, <2>1 DEF InsertRow, SessionIds
<1>5. CASE DropRow(o)
  BY <1>1, <1>5 DEF DropRow
<1> QED
  BY <1>1, <1>2, <1>3, <1>4, <1>5 DEF LedgerStep, RowStep

(* What a sighting has just read is known of the session it read.          *)
LEMMA SightKnown ==
  ASSUME LedgerInv, NEW c \in Cameras, NEW s \in Students, NEW ts \in Time,
         Sight(c, s, ts)
  PROVE  TxnKnown(c)'
<1>1. PICK o \in LatestOpen(s) :
        txn' = [txn EXCEPT ![c] = [student |-> s, ts |-> ts, open |-> o]]
  BY DEF Sight
<1>2. o \in SessionIds \cup {0}
  BY DEF LatestOpen, OpenOf
<1>3. o # 0 => Ongoing(o) /\ rows[o].student = s
  BY DEF LatestOpen, OpenOf, SessionIds
<1>4. txn'[c] = [student |-> s, ts |-> ts, open |-> o] /\ clock'[c] = ts
  BY <1>1 DEF Sight, LedgerInv, TypeOK
<1> QED
  BY <1>2, <1>3, <1>4 DEF Sight, TxnKnown, Txn, Ongoing

(* A step of another process, or of another pipeline, leaves a pipeline's  *)
(* transaction alone; its own steps start one or end it.                   *)
LEMMA DecidedStep ==
  ASSUME LedgerInv, [Next]_vars, NEW d \in Cameras, pc'[d] = "decided"
  PROVE  \/ /\ pc[d] = "decided"
            /\ txn'[d] = txn[d] /\ clock'[d] = clock[d]
         \/ \E s \in Students, ts \in Time : Sight(d, s, ts)
<1>1. ASSUME NEW c \in Cameras, Pipeline(c), c # d
      PROVE  pc[d] = "decided" /\ txn'[d] = txn[d] /\ clock'[d] = clock[d]
  BY <1>1
  DEF Pipeline, Sight, CommitNone, CommitExit, CommitEntry, CommitRollover,
      Committing, Die, Restart, RefreshIndex, Reopen, LedgerInv, TypeOK
<1>2. ASSUME Pipeline(d)
      PROVE  \E s \in Students, ts \in Time : Sight(d, s, ts)
  BY <1>2
  DEF Pipeline, CommitNone, CommitExit, CommitEntry, CommitRollover,
      Committing, Die, Restart, RefreshIndex, Reopen, LedgerInv, TypeOK
<1>3. ASSUME \/ \E i \in SessionIds : ForceCloseRead(i)
             \/ ForceCloseCommit \/ StaleJobRead \/ StaleJobCommit
             \/ \E s \in Students : DeleteStudent(s)
             \/ Tick \/ UNCHANGED vars
      PROVE  pc[d] = "decided" /\ txn'[d] = txn[d] /\ clock'[d] = clock[d]
  BY <1>3
  DEF ForceCloseRead, ForceCloseCommit, StaleJobRead, StaleJobCommit,
      DeleteStudent, Tick, vars, cameraVars
<1> QED
  BY <1>1, <1>2, <1>3 DEF Next

(* What open transactions know of the session they read survives every     *)
(* step, also those of other pipelines, request and job.                   *)
LEMMA TxnsStep ==
  ASSUME LedgerInv, [Next]_vars
  PROVE  TxnsKnown'
<1> SUFFICES ASSUME NEW d \in Cameras, pc'[d] = "decided"
             PROVE  TxnKnown(d)'
  BY DEF TxnsKnown
<1>1. CASE pc[d] = "decided" /\ txn'[d] = txn[d] /\ clock'[d] = clock[d]
  BY <1>1, NextLedgerStep, TxnStays DEF LedgerInv, TxnsKnown
<1>2. CASE \E s \in Students, ts \in Time : Sight(d, s, ts)
  BY <1>2, SightKnown
<1> QED
  BY <1>1, <1>2, DecidedStep

(* The inductive invariant holds of the empty ledger.                      *)
LEMMA LedgerInit == Init => LedgerInv
<1> SUFFICES ASSUME Init PROVE LedgerInv
  OBVIOUS
<1>1. SessionsConsistent
  BY DEF Init, SessionsConsistent, Absent
<1>2. TxnsKnown
  BY DEF Init, TxnsKnown
<1> QED
  BY <1>1, <1>2, TypeInit DEF LedgerInv

(* The inductive invariant of the ledger, whatever cameras there are.      *)
THEOREM LedgerInvariant == Spec => []LedgerInv
<1>1. LedgerInv /\ [Next]_vars => LedgerInv'
  BY TypeStep, NextLedgerStep, ConsistentStep, TxnsStep DEF LedgerInv
<1> QED
  BY <1>1, LedgerInit, PTL DEF Spec

(* Type correctness of the ledger.                                         *)
THEOREM TypeCorrect == Spec => []TypeOK
<1>1. LedgerInv => TypeOK
  BY DEF LedgerInv
<1> QED
  BY <1>1, LedgerInvariant, PTL

(* However transactions interleave, every session row is either open with  *)
(* no exit data or closed with the duration of its own exit time, and it   *)
(* is dated by its entry: concurrent closes of _close_session never leave  *)
(* the fields of two closes mixed.                                         *)
THEOREM SessionsStayConsistent == Spec => []SessionsConsistent
<1>1. LedgerInv => SessionsConsistent
  BY DEF LedgerInv
<1> QED
  BY <1>1, LedgerInvariant, PTL

-----------------------------------------------------------------------------
(* History                                                                 *)

(* A ledger step rewrites no entry side, reopens nothing and erases no exit*)
(* camera.                                                                 *)
LEMMA HistoryStep ==
  ASSUME LedgerInv, LedgerStep, NEW i \in SessionIds,
         rows[i].status # "absent", rows[i].student \in enrolled'
  PROVE  /\ \A f \in {"student", "camIn", "entry", "date"} :
              rows'[i][f] = rows[i][f]
         /\ rows[i].status = "completed" => rows'[i].status = "completed"
         /\ rows[i].camOut # None => rows'[i].camOut # None
<1>1. CASE KeepRow(i)
  BY <1>1 DEF KeepRow
<1>2. CASE CloseRow(i)
  <2>1. PICK at \in Time, c \in Cameras \cup {None} :
          rows'[i] = Closed(rows[i], at, c)
    BY <1>2 DEF CloseRow
  <2>2. rows[i] \in Session
    BY <1>2 DEF CloseRow
  <2> QED
    BY <2>1, <2>2, ClosedSession
<1>3. CASE InsertRow(i)
  <2>1. i < nextId
    BY DEF LedgerInv, SessionsConsistent, SessionConsistent
  <2> QED
    BY <1>3, <2>1 DEF InsertRow, SessionIds
<1>4. CASE DropRow(i)
  BY <1>4 DEF DropRow
<1> QED
  BY <1>1, <1>2, <1>3, <1>4 DEF LedgerStep, RowStep

(* No pipeline, request or job rewrites how a session began, reopens a     *)
(* closed one or forgets the camera at which it ended.                     *)
THEOREM HistoryIsKept == Spec => HistoryKept
<1>1. LedgerInv /\ [Next]_vars =>
        [\A i \in SessionIds :
           rows[i].status # "absent" /\ rows[i].student \in enrolled' =>
             /\ \A f \in {"student", "camIn", "entry", "date"} :
                  rows'[i][f] = rows[i][f]
             /\ rows[i].status = "completed" => rows'[i].status = "completed"
             /\ rows[i].camOut # None => rows'[i].camOut # None]_vars
  BY NextLedgerStep, HistoryStep
<1> QED
  BY <1>1, LedgerInvariant, PTL DEF Spec, HistoryKept

(* The log goes on explaining every session through a ledger step.         *)
LEMMA ExplainedStep ==
  ASSUME LedgerInv, SessionsExplained, LedgerStep
  PROVE  SessionsExplained'
<1> DEFINE Opening(row, l) ==
             /\ CamType[row.camIn] # "exit"
             /\ LogRow(row.student, row.camIn, row.entry) \in l
           Ending(row, l) ==
             row.camOut # None =>
               \E r \in l :
                 /\ r.student = row.student
                 /\ r.camera = row.camOut
                 /\ \/ CamType[r.camera] # "entry"
                    \/ row.date < LocalDate[r.ts]
<1> SUFFICES ASSUME NEW i \in SessionIds, rows'[i].status # "absent"
             PROVE  Opening(rows'[i], log') /\ Ending(rows'[i], log')
  BY DEF SessionsExplained
<1>1. \A r \in log : r.student \in enrolled' => r \in log'
  BY DEF LedgerStep
<1>2. ASSUME rows[i].status # "absent", rows[i].student \in enrolled'
      PROVE  Opening(rows[i], log') /\ Ending(rows[i], log')
  <2>1. Opening(rows[i], log) /\ Ending(rows[i], log)
    BY <1>2 DEF SessionsExplained
  <2>2. LogRow(rows[i].student, rows[i].camIn, rows[i].entry).student
          = rows[i].student
    BY DEF LogRow
  <2> QED
    BY <1>1, <1>2, <2>1, <2>2
<1>3. CASE KeepRow(i)
  BY <1>2, <1>3 DEF KeepRow
<1>4. CASE CloseRow(i)
  <2>1. PICK at \in Time, c \in Cameras \cup {None} :
          rows'[i] = Closed(rows[i], at, c) /\ (c # None => MayClose(i, at, c))
    BY <1>4 DEF CloseRow
  <2>2. /\ rows[i] \in Session /\ rows[i].student \in enrolled'
        /\ rows[i].status # "absent"
    BY <1>4 DEF CloseRow, Session
  <2>3. /\ rows'[i].student = rows[i].student /\ rows'[i].camIn = rows[i].camIn
        /\ rows'[i].entry = rows[i].entry /\ rows'[i].date = rows[i].date
        /\ rows'[i].camOut = IF c = None THEN rows[i].camOut ELSE c
    BY <2>1, <2>2, ClosedSession
  <2>4. Opening(rows'[i], log')
    BY <1>2, <2>2, <2>3
  <2>5. CASE c = None
    BY <1>2, <2>2, <2>3, <2>4, <2>5
  <2>6. CASE c # None
    <3>1. LogRow(rows[i].student, c, at) \in log'
      BY <2>1, <2>6 DEF MayClose
    <3>2. /\ LogRow(rows[i].student, c, at).student = rows[i].student
          /\ LogRow(rows[i].student, c, at).camera = c
          /\ LogRow(rows[i].student, c, at).ts = at
      BY DEF LogRow
    <3>3. CamType[c] # "entry" \/ rows[i].date < LocalDate[at]
      BY <2>1, <2>6 DEF MayClose
    <3> QED
      BY <2>3, <2>4, <2>6, <3>1, <3>2, <3>3
  <2> QED
    BY <2>5, <2>6
<1>5. CASE InsertRow(i)
  <2>1. PICK c \in Openers :
          /\ rows'[i] = Inserted(c)
          /\ LogRow(txn[c].student, c, txn[c].ts) \in log'
    BY <1>5 DEF InsertRow
  <2> QED
    BY <2>1 DEF Inserted, NewSession, Openers
<1>6. CASE DropRow(i)
  BY <1>6 DEF DropRow, Absent
<1> QED
  BY <1>3, <1>4, <1>5, <1>6 DEF LedgerStep, RowStep

(* The audit log, written in the same transaction as the session change,   *)
(* always explains the sessions: each was opened by a logged sighting, and *)
(* the camera it names as its exit sighted the student and was entitled to *)
(* end it.                                                                 *)
THEOREM SessionsStayExplained == Spec => []SessionsExplained
<1>1. Init => SessionsExplained
  BY DEF Init, SessionsExplained, Absent
<1>2. LedgerInv /\ SessionsExplained /\ [Next]_vars => SessionsExplained'
  BY NextLedgerStep, ExplainedStep
<1> QED
  BY <1>1, <1>2, LedgerInvariant, PTL DEF Spec

-----------------------------------------------------------------------------
(* One entry point                                                         *)

(* With a single live camera opening sessions, its clock bounds every      *)
(* entry, and the session it read is the only one that can still be open   *)
(* when it commits: others only close.  The first part rules out the       *)
(* fall-through of process_recognition, the second the stale read.         *)
EntriesBelowClock ==
  \A c \in Openers :
    /\ clock[c] <= now
    /\ \A i \in SessionIds : rows[i].status # "absent" => rows[i].entry <= clock[c]

OpenIsKnown ==
  \A c \in Openers :
    pc[c] = "decided" /\ txn[c].student \in enrolled =>
      \A i \in OpenOf(txn[c].student) : i = txn[c].open

EntryPointInv ==
  EntriesBelowClock /\ OpenIsKnown /\ AtMostOneOpen /\ EntriesInOrder

(* The timestamps of the one entry point, a live camera, only grow and     *)
(* never pass the wall clock.                                              *)
LEMMA ClockStep ==
  ASSUME OneEntryPoint, TypeOK, [Next]_vars, NEW c \in Openers, clock[c] <= now
  PROVE  clock[c] <= clock'[c] /\ clock'[c] <= now'
<1>0. /\ c \in Cameras /\ c \in Live
      /\ clock \in [Cameras -> Time] /\ now \in Int /\ clock[c] \in Int
  BY DEF OneEntryPoint, Openers, TypeOK, Time
<1>1. ASSUME NEW d \in Cameras, Pipeline(d)
      PROVE  clock[c] <= clock'[c] /\ clock'[c] <= now'
  <2>1. ASSUME NEW s \in Students, NEW ts \in Time, Sight(d, s, ts)
        PROVE  clock[c] <= clock'[c] /\ clock'[c] <= now'
    <3>1. CASE d = c
      <4>1. ts \in clock[c] .. now
        BY <1>0, <2>1, <3>1 DEF Sight, FrameTimes
      <4>2. clock'[c] = ts /\ now' = now
        BY <1>0, <2>1, <3>1 DEF Sight
      <4> QED
        BY <1>0, <4>1, <4>2
    <3>2. CASE d # c
      BY <1>0, <2>1, <3>2 DEF Sight
    <3> QED
      BY <3>1, <3>2
  <2>2. CASE Committing(d) \/ Die(d) \/ RefreshIndex(d)
    BY <1>0, <2>2 DEF Committing, Die, RefreshIndex
  <2>3. CASE Restart(d)
    BY <1>0, <2>3 DEF Restart
  <2>4. CASE Reopen(d)
    BY <1>0, <2>4 DEF Reopen
  <2> QED
    BY <1>1, <2>1, <2>2, <2>3, <2>4
    DEF Pipeline, CommitNone, CommitExit, CommitEntry, CommitRollover
<1>2. ASSUME \/ \E i \in SessionIds : ForceCloseRead(i)
             \/ ForceCloseCommit \/ StaleJobRead \/ StaleJobCommit
             \/ \E s \in Students : DeleteStudent(s)
             \/ Tick \/ UNCHANGED vars
      PROVE  clock[c] <= clock'[c] /\ clock'[c] <= now'
  BY <1>0, <1>2
  DEF ForceCloseRead, ForceCloseCommit, StaleJobRead, StaleJobCommit,
      DeleteStudent, Tick, vars, cameraVars
<1> QED
  BY <1>1, <1>2 DEF Next

(* An insertion comes from the one entry point, at its clock.              *)
LEMMA InsertFacts ==
  ASSUME OneEntryPoint, LedgerInv, NEW i \in SessionIds, InsertRow(i),
         NEW c \in Openers
  PROVE  /\ pc[c] = "decided" /\ pc'[c] # "decided"
         /\ txn[c].student \in enrolled'
         /\ rows'[i].student = txn[c].student
         /\ rows'[i].entry = clock[c]
         /\ rows'[i].date = LocalDate[clock[c]]
         /\ rows'[i].status = "ongoing"
         /\ \/ EntryOutcome(c)
            \/ RolloverOutcome(c) /\ rows'[txn[c].open].status = "completed"
         /\ \A j \in SessionIds \ {i, txn[c].open} : KeepRow(j)
<1>1. PICK d \in Openers :
        /\ pc[d] = "decided" /\ pc'[d] # "decided"
        /\ txn[d].student \in enrolled'
        /\ rows'[i] = Inserted(d)
        /\ \/ EntryOutcome(d)
           \/ RolloverOutcome(d) /\ rows'[txn[d].open].status = "completed"
        /\ \A j \in SessionIds \ {i, txn[d].open} : KeepRow(j)
  BY DEF InsertRow
<1>2. d = c
  BY DEF OneEntryPoint
<1>3. txn[c].ts = clock[c]
  BY <1>1, <1>2 DEF LedgerInv, TxnsKnown, TxnKnown, Openers
<1> QED
  BY <1>1, <1>2, <1>3 DEF Inserted, NewSession

(* No session has an entry later than the clock of the one entry point.    *)
LEMMA BelowClockStep ==
  ASSUME OneEntryPoint, LedgerInv, EntryPointInv, [Next]_vars
  PROVE  EntriesBelowClock'
<1> SUFFICES ASSUME NEW c \in Openers
             PROVE  /\ clock'[c] <= now'
                    /\ \A i \in SessionIds :
                         rows'[i].status # "absent" => rows'[i].entry <= clock'[c]
  BY DEF EntriesBelowClock
<1>1. clock[c] <= clock'[c] /\ clock'[c] <= now'
  BY ClockStep DEF LedgerInv, EntryPointInv, EntriesBelowClock
<1>2. LedgerStep /\ TypeOK' /\ TypeOK
  BY NextLedgerStep, TypeStep DEF LedgerInv
<1>3. clock[c] \in Int /\ clock'[c] \in Int
  BY <1>2 DEF TypeOK, Openers, Time
<1>4. ASSUME NEW i \in SessionIds, rows'[i].status # "absent"
      PROVE  rows'[i].entry <= clock'[c]
  <2>0. ASSUME rows[i].status # "absent"
        PROVE  rows[i].entry <= clock[c] /\ rows[i].entry \in Int
    BY <2>0, RowTyped DEF LedgerInv, EntryPointInv, EntriesBelowClock, Session, Time
  <2>1. CASE KeepRow(i)
    BY <1>1, <1>3, <1>4, <2>0, <2>1 DEF KeepRow
  <2>2. CASE CloseRow(i)
    <3>1. rows'[i].entry = rows[i].entry /\ rows[i].status # "absent"
      BY <2>2, ClosedSession DEF CloseRow, Session
    <3> QED
      BY <1>1, <1>3, <2>0, <3>1
  <2>3. CASE InsertRow(i)
    BY <1>1, <1>3, <2>3, InsertFacts
  <2>4. CASE DropRow(i)
    BY <1>4, <2>4 DEF DropRow, Absent
  <2> QED
    BY <1>2, <2>1, <2>2, <2>3, <2>4 DEF LedgerStep, RowStep
<1> QED
  BY <1>1, <1>4

(* A row that is open after a step was open before, or is the inserted one. *)
LEMMA OpenAfter ==
  ASSUME LedgerInv, LedgerStep, NEW i \in SessionIds, rows'[i].status = "ongoing"
  PROVE  \/ rows'[i] = rows[i] /\ rows[i].student \in enrolled'
         \/ InsertRow(i)
<1>1. CASE CloseRow(i)
  BY <1>1, ClosedSession DEF CloseRow
<1>2. CASE DropRow(i)
  BY <1>2 DEF DropRow, Absent
<1>3. CASE KeepRow(i)
  BY <1>3 DEF KeepRow
<1> QED
  BY <1>1, <1>2, <1>3 DEF LedgerStep, RowStep

(* While the one entry point holds a decision, the student's open session, *)
(* if any, is the one it read.                                             *)
LEMMA OpenKnownStep ==
  ASSUME OneEntryPoint, LedgerInv, EntryPointInv, [Next]_vars
  PROVE  OpenIsKnown'
<1> SUFFICES ASSUME NEW c \in Openers, pc'[c] = "decided",
                    txn'[c].student \in enrolled',
                    NEW i \in SessionIds, rows'[i].status = "ongoing",
                    rows'[i].student = txn'[c].student
             PROVE  i = txn'[c].open
  BY DEF OpenIsKnown, OpenOf, Ongoing
<1>0. LedgerStep /\ c \in Cameras
  BY NextLedgerStep DEF Openers
<1>1. CASE pc[c] = "decided" /\ txn'[c] = txn[c] /\ clock'[c] = clock[c]
  <2>1. CASE rows'[i] = rows[i] /\ rows[i].student \in enrolled'
    BY <1>0, <1>1, <2>1 DEF EntryPointInv, OpenIsKnown, OpenOf, Ongoing, LedgerStep
  <2>2. CASE InsertRow(i)
    BY <2>2, InsertFacts
  <2> QED
    BY <1>0, <2>1, <2>2, OpenAfter
<1>2. ASSUME NEW s \in Students, NEW ts \in Time, Sight(c, s, ts)
      PROVE  i = txn'[c].open
  <2>1. PICK o \in LatestOpen(s) :
          txn' = [txn EXCEPT ![c] = [student |-> s, ts |-> ts, open |-> o]]
    BY <1>2 DEF Sight
  <2>2. txn'[c] = [student |-> s, ts |-> ts, open |-> o] /\ rows' = rows
    BY <1>0, <1>2, <2>1 DEF Sight, LedgerInv, TypeOK
  <2>3. i \in OpenOf(s)
    BY <2>2 DEF OpenOf, Ongoing
  <2>4. o \in OpenOf(s)
    BY <2>3 DEF LatestOpen
  <2> QED
    BY <2>2, <2>3, <2>4 DEF OpenOf, EntryPointInv, AtMostOneOpen
<1> QED
  BY <1>0, <1>1, <1>2, DecidedStep

(* No step gives a student a second open session.                          *)
LEMMA OneOpenStep ==
  ASSUME OneEntryPoint, LedgerInv, EntryPointInv, LedgerStep
  PROVE  AtMostOneOpen'
<1>1. ASSUME NEW i \in SessionIds, NEW j \in SessionIds, InsertRow(i),
             rows'[j] = rows[j], rows[j].student \in enrolled',
             rows[j].status = "ongoing", rows[j].student = rows'[i].student
      PROVE  FALSE
  <2>1. PICK c \in Openers : TRUE
    BY <1>1 DEF InsertRow
  <2>2. /\ pc[c] = "decided" /\ txn[c].student \in enrolled'
        /\ rows[j].student = txn[c].student
        /\ \/ EntryOutcome(c)
           \/ RolloverOutcome(c) /\ rows'[txn[c].open].status = "completed"
    BY <1>1, <2>1, InsertFacts
  <2>3. j = txn[c].open
    BY <1>1, <2>2 DEF EntryPointInv, OpenIsKnown, OpenOf, Ongoing, LedgerStep
  <2>4. rows[j].date <= Today(c)
    <3>1. /\ rows[j].date = LocalDate[rows[j].entry]
          /\ rows[j].entry <= clock[c] /\ txn[c].ts = clock[c]
      BY <1>1, <2>2
      DEF LedgerInv, SessionsConsistent, SessionConsistent, EntryPointInv,
          EntriesBelowClock, TxnsKnown, TxnKnown, Openers
    <3>2. rows[j].entry \in Time /\ clock[c] \in Time
      BY <1>1, RowTyped DEF LedgerInv, TypeOK, Session, Openers
    <3> QED
      BY <3>1, <3>2 DEF Today
  <2>5. rows[j].date \in Int /\ Today(c) \in Int
    <3>1. rows[j] \in Session
      BY <1>1, RowTyped DEF LedgerInv
    <3>2. txn[c].ts \in Time
      BY <2>2 DEF LedgerInv, TxnsKnown, TxnKnown, Txn, Openers
    <3> QED
      BY <3>1, <3>2 DEF Session, Today
  <2>6. ~ EntryOutcome(c)
    BY <2>3, <2>4, <2>5 DEF EntryOutcome, SessionIds
  <2> QED
    BY <1>1, <2>2, <2>3, <2>6
<1> SUFFICES ASSUME NEW i \in SessionIds, NEW j \in SessionIds,
                    rows'[i].status = "ongoing", rows'[j].status = "ongoing",
                    rows'[i].student = rows'[j].student
             PROVE  i = j
  BY DEF AtMostOneOpen, Ongoing
<1>2. CASE rows'[i] = rows[i] /\ rows'[j] = rows[j]
  BY <1>2 DEF EntryPointInv, AtMostOneOpen, Ongoing
<1>3. CASE InsertRow(i) /\ InsertRow(j)
  BY <1>3 DEF InsertRow
<1> QED
  BY <1>1, <1>2, <1>3, OpenAfter

(* An inserted row has the latest entry of all.                            *)
LEMMA OrderStep ==
  ASSUME OneEntryPoint, LedgerInv, EntryPointInv, LedgerStep
  PROVE  EntriesInOrder'
<1>1. ASSUME NEW i \in SessionIds, rows'[i].status # "absent"
      PROVE  \/ rows[i].status # "absent" /\ rows'[i].entry = rows[i].entry
             \/ InsertRow(i)
  <2>1. CASE KeepRow(i)
    BY <1>1, <2>1 DEF KeepRow
  <2>2. CASE CloseRow(i)
    BY <2>2, ClosedSession DEF CloseRow, Session
  <2>3. CASE DropRow(i)
    BY <1>1, <2>3 DEF DropRow, Absent
  <2> QED
    BY <2>1, <2>2, <2>3 DEF LedgerStep, RowStep
<1>2. ASSUME NEW i \in SessionIds, rows[i].status # "absent" PROVE i < nextId
  BY <1>2 DEF LedgerInv, SessionsConsistent, SessionConsistent
<1> SUFFICES ASSUME NEW i \in SessionIds, NEW j \in SessionIds,
                    rows'[i].status # "absent", rows'[j].status # "absent", i < j
             PROVE  rows'[i].entry <= rows'[j].entry
  BY DEF EntriesInOrder
<1>3. i \in Int /\ j \in Int
  BY DEF SessionIds
<1>4. CASE /\ rows[i].status # "absent" /\ rows'[i].entry = rows[i].entry
          /\ rows[j].status # "absent" /\ rows'[j].entry = rows[j].entry
  BY <1>4 DEF EntryPointInv, EntriesInOrder
<1>5. CASE InsertRow(j) /\ rows[i].status # "absent" /\ rows'[i].entry = rows[i].entry
  <2>1. PICK c \in Openers : TRUE
    BY <1>5 DEF InsertRow
  <2> QED
    BY <1>5, <2>1, InsertFacts DEF EntryPointInv, EntriesBelowClock
<1>6. CASE InsertRow(i)
  BY <1>1, <1>2, <1>3, <1>6 DEF InsertRow, LedgerInv, TypeOK
<1> QED
  BY <1>1, <1>4, <1>5, <1>6

(* The invariant of one entry point holds of the empty ledger.             *)
LEMMA EntryPointInit == Init => EntryPointInv
<1> SUFFICES ASSUME Init PROVE EntryPointInv
  OBVIOUS
<1>1. EntriesBelowClock
  BY DEF Init, EntriesBelowClock, Absent, Openers
<1> QED
  BY <1>1
  DEF Init, EntryPointInv, OpenIsKnown, AtMostOneOpen, EntriesInOrder, Openers,
      Ongoing, Absent

(* With one entry point, its invariant holds in every state.               *)
LEMMA EntryPointInvariant == OneEntryPoint /\ Spec => []EntryPointInv
<1>1. OneEntryPoint /\ LedgerInv /\ EntryPointInv /\ [Next]_vars => EntryPointInv'
  BY NextLedgerStep, BelowClockStep, OpenKnownStep, OneOpenStep, OrderStep
  DEF EntryPointInv
<1> SUFFICES ASSUME OneEntryPoint PROVE Spec => []EntryPointInv
  OBVIOUS
<1>2. LedgerInv /\ EntryPointInv /\ [Next]_vars => EntryPointInv'
  BY <1>1
<1> QED
  BY <1>2, EntryPointInit, LedgerInvariant, PTL DEF Spec

(* Where one live camera opens sessions, process_recognition keeps a       *)
(* student to one open session, in spite of exit cameras, force-closes,    *)
(* stale-session jobs, deletions and crashes interleaving with it.         *)
THEOREM OneEntryPointOneOpen == OneEntryPoint /\ Spec => []AtMostOneOpen
<1>1. EntryPointInv => AtMostOneOpen
  BY DEF EntryPointInv
<1> QED
  BY <1>1, EntryPointInvariant, PTL

(* ... and numbers its sessions in the order they were entered.            *)
THEOREM OneEntryPointInOrder == OneEntryPoint /\ Spec => []EntriesInOrder
<1>1. EntryPointInv => EntriesInOrder
  BY DEF EntryPointInv
<1> QED
  BY <1>1, EntryPointInvariant, PTL

-----------------------------------------------------------------------------
(* Any cameras, within one day                                             *)

(* Every instant has the same local date: no midnight is passed.           *)
OneDay == \A t, u \in Time : LocalDate[t] = LocalDate[u]

(* A student has at most one open session from each camera.  Two cameras   *)
(* that decide side by side both insert (OneOpenPerDay does not hold), but *)
(* the same camera does not insert again while its session is open: the    *)
(* duplicates of process_recognition are bounded by the opening cameras.   *)
OneOpenPerCamera ==
  \A i, j \in SessionIds :
    /\ Ongoing(i) /\ Ongoing(j)
    /\ rows[i].student = rows[j].student
    /\ rows[i].camIn = rows[j].camIn
    => i = j

(* A camera that decided on no open session still has none of its own:     *)
(* whoever inserted one since then is another camera.                      *)
NoneOfItsOwn ==
  \A c \in Cameras :
    pc[c] = "decided" /\ txn[c].student \in enrolled /\ txn[c].open = 0 =>
      \A i \in OpenOf(txn[c].student) : rows[i].camIn # c

OneDayInv == OneOpenPerCamera /\ NoneOfItsOwn

(* Within one day a session of an earlier or a later date is never read,   *)
(* so a camera inserts only if it read no open session.                    *)
LEMMA SameDayInsert ==
  ASSUME OneDay, LedgerInv, LedgerStep, NEW i \in SessionIds, InsertRow(i)
  PROVE  \E c \in Openers :
           /\ pc[c] = "decided" /\ pc'[c] # "decided"
           /\ txn[c].student \in enrolled' /\ txn[c].open = 0
           /\ rows'[i].student = txn[c].student /\ rows'[i].camIn = c
<1>1. PICK c \in Openers :
        /\ pc[c] = "decided" /\ pc'[c] # "decided"
        /\ txn[c].student \in enrolled'
        /\ rows'[i] = Inserted(c)
        /\ EntryOutcome(c) \/ RolloverOutcome(c)
  BY DEF InsertRow
<1>2. rows'[i].student = txn[c].student /\ rows'[i].camIn = c
  BY <1>1 DEF Inserted, NewSession
<1>3. ASSUME txn[c].open # 0, txn[c].student \in enrolled
      PROVE  FALSE
  <2> DEFINE o == txn[c].open
  <2>1. /\ txn[c] \in Txn /\ o \in SessionIds
        /\ rows[o].status # "absent"
    BY <1>1, <1>3 DEF LedgerInv, TxnsKnown, TxnKnown, Openers, Txn
  <2>2. rows[o] \in Session /\ rows[o].date = LocalDate[rows[o].entry]
    BY <2>1, RowTyped DEF LedgerInv, SessionsConsistent, SessionConsistent
  <2>3. rows[o].entry \in Time /\ rows[o].date \in Nat /\ txn[c].ts \in Time
    BY <2>1, <2>2 DEF Session, Txn
  <2>4. rows[o].date = Today(c)
    BY <2>2, <2>3 DEF OneDay, Today
  <2> QED
    BY <1>1, <1>3, <2>3, <2>4 DEF EntryOutcome, RolloverOutcome
<1> QED
  BY <1>1, <1>2, <1>3 DEF LedgerStep

(* No step gives a student a second open session from the same camera.     *)
LEMMA PerCameraStep ==
  ASSUME OneDay, LedgerInv, OneDayInv, LedgerStep
  PROVE  OneOpenPerCamera'
<1>1. ASSUME NEW i \in SessionIds, NEW j \in SessionIds, InsertRow(i),
             rows'[j] = rows[j], rows[j].status = "ongoing",
             rows[j].student = rows'[i].student,
             rows[j].camIn = rows'[i].camIn
      PROVE  FALSE
  <2>1. PICK c \in Openers :
          /\ pc[c] = "decided" /\ txn[c].student \in enrolled'
          /\ txn[c].open = 0
          /\ rows'[i].student = txn[c].student /\ rows'[i].camIn = c
    BY <1>1, SameDayInsert
  <2>2. j \in OpenOf(txn[c].student) /\ c \in Cameras
    BY <1>1, <2>1 DEF OpenOf, Ongoing, Openers
  <2> QED
    BY <1>1, <2>1, <2>2 DEF OneDayInv, NoneOfItsOwn, LedgerStep
<1> SUFFICES ASSUME NEW i \in SessionIds, NEW j \in SessionIds,
                    rows'[i].status = "ongoing", rows'[j].status = "ongoing",
                    rows'[i].student = rows'[j].student,
                    rows'[i].camIn = rows'[j].camIn
             PROVE  i = j
  BY DEF OneOpenPerCamera, Ongoing
<1>2. CASE rows'[i] = rows[i] /\ rows'[j] = rows[j]
  BY <1>2 DEF OneDayInv, OneOpenPerCamera, Ongoing
<1>3. CASE InsertRow(i) /\ InsertRow(j)
  BY <1>3 DEF InsertRow
<1> QED
  BY <1>1, <1>2, <1>3, OpenAfter

(* Others insert for themselves, and a camera's own insertion ends its     *)
(* transaction: a decision on no open session stays true of the camera.    *)
LEMMA NoneOfItsOwnStep ==
  ASSUME OneDay, LedgerInv, OneDayInv, [Next]_vars
  PROVE  NoneOfItsOwn'
<1> SUFFICES ASSUME NEW c \in Cameras, pc'[c] = "decided",
                    txn'[c].student \in enrolled', txn'[c].open = 0,
                    NEW i \in SessionIds, rows'[i].status = "ongoing",
                    rows'[i].student = txn'[c].student,
                    rows'[i].camIn = c
             PROVE  FALSE
  BY DEF NoneOfItsOwn, OpenOf, Ongoing
<1>0. LedgerStep
  BY NextLedgerStep
<1>1. CASE pc[c] = "decided" /\ txn'[c] = txn[c]
  <2>1. CASE rows'[i] = rows[i]
    <3>1. i \in OpenOf(txn[c].student) /\ rows[i].camIn = c
      BY <1>1, <2>1 DEF OpenOf, Ongoing
    <3> QED
      BY <1>0, <1>1, <3>1 DEF OneDayInv, NoneOfItsOwn, LedgerStep
  <2>2. CASE InsertRow(i)
    BY <1>0, <2>2, SameDayInsert
  <2> QED
    BY <1>0, <2>1, <2>2, OpenAfter
<1>2. ASSUME NEW s \in Students, NEW ts \in Time, Sight(c, s, ts)
      PROVE  FALSE
  <2>1. PICK o \in LatestOpen(s) :
          txn' = [txn EXCEPT ![c] = [student |-> s, ts |-> ts, open |-> o]]
    BY <1>2 DEF Sight
  <2>2. txn'[c] = [student |-> s, ts |-> ts, open |-> o] /\ rows' = rows
    BY <1>2, <2>1 DEF Sight, LedgerInv, TypeOK
  <2>3. i \in OpenOf(s)
    BY <2>2 DEF OpenOf, Ongoing
  <2>4. o \in OpenOf(s)
    BY <2>3 DEF LatestOpen
  <2> QED
    BY <2>2, <2>4 DEF OpenOf, SessionIds
<1> QED
  BY <1>1, <1>2, DecidedStep

(* Before any sighting there is no session and no transaction.             *)
LEMMA OneDayInit == Init => OneDayInv
BY DEF Init, OneDayInv, OneOpenPerCamera, NoneOfItsOwn, Ongoing, Absent

(* Within one day, however many cameras open sessions and however their    *)
(* transactions, the closers, deletions and crashes interleave, the race   *)
(* of process_recognition costs at most one open session per camera.       *)
THEOREM OneDayOneOpenPerCamera == OneDay /\ Spec => []OneOpenPerCamera
<1>1. OneDay /\ LedgerInv /\ OneDayInv /\ [Next]_vars => OneDayInv'
  BY NextLedgerStep, PerCameraStep, NoneOfItsOwnStep DEF OneDayInv
<1>2. OneDayInv => OneOpenPerCamera
  BY DEF OneDayInv
<1> SUFFICES ASSUME OneDay PROVE Spec => []OneOpenPerCamera
  OBVIOUS
<1>3. LedgerInv /\ OneDayInv /\ [Next]_vars => OneDayInv'
  BY <1>1
<1> QED
  BY <1>2, <1>3, OneDayInit, LedgerInvariant, PTL DEF Spec

-----------------------------------------------------------------------------
(* The ledger implements the presence machine                              *)

(* With at most one open session, a student is inside since the date of any*)
(* open session, ...                                                       *)
LEMMA InsideIsDate ==
  ASSUME AtMostOneOpen, NEW s \in Students, NEW i \in OpenOf(s)
  PROVE  Inside(s) = rows[i].date
<1>1. ASSUME NEW j \in OpenOf(s) PROVE j = i
  BY <1>1 DEF AtMostOneOpen, OpenOf
<1>2. (CHOOSE j \in OpenOf(s) : TRUE) = i
  BY <1>1
<1> QED
  BY <1>2 DEF Inside

(* ... and the same after a step.                                          *)
LEMMA InsideIsDateNext ==
  ASSUME AtMostOneOpen', NEW s \in Students, NEW i \in OpenOf(s)'
  PROVE  Inside(s)' = rows'[i].date
<1>1. ASSUME NEW j \in OpenOf(s)' PROVE j = i
  BY <1>1 DEF AtMostOneOpen, OpenOf
<1>2. (CHOOSE j \in OpenOf(s)' : TRUE) = i
  BY <1>1
<1> QED
  BY <1>2 DEF Inside

(* An insertion moves one student, to the date of the entry point's clock. *)
LEMMA InsertRefines ==
  ASSUME OneEntryPoint, LedgerInv, EntryPointInv, LedgerStep, AtMostOneOpen',
         NEW i \in SessionIds, InsertRow(i)
  PROVE  Presence!Next
<1>1. PICK c \in Openers : TRUE
  BY DEF InsertRow
<1>2. /\ txn[c] \in Txn /\ txn[c].ts = clock[c] /\ clock[c] \in Time
      /\ txn[c].student \in Students /\ txn[c].open \in SessionIds \cup {0}
  BY <1>1, InsertFacts
  DEF LedgerInv, TypeOK, TxnsKnown, TxnKnown, Txn, Openers
<1>3. PICK s0 \in Students : s0 = txn[c].student
  BY <1>2
<1>4. PICK o \in SessionIds \cup {0} : o = txn[c].open
  BY <1>2
<1>5. PICK d \in Dates : d = LocalDate[clock[c]]
  BY <1>2 DEF Dates
<1>6. /\ pc[c] = "decided"
      /\ s0 \in enrolled'
      /\ rows'[i].student = s0
      /\ rows'[i].date = d
      /\ rows'[i].status = "ongoing"
      /\ EntryOutcome(c) \/ RolloverOutcome(c)
      /\ \A j \in SessionIds \ {i, o} : KeepRow(j)
  BY <1>1, <1>3, <1>4, <1>5, InsertFacts
<1>7. /\ s0 \in enrolled
      /\ o # 0 => o \in SessionIds /\ rows[o].status # "absent"
                  /\ rows[o].student = s0
  BY <1>3, <1>4, <1>6 DEF LedgerInv, TxnsKnown, TxnKnown, Openers, LedgerStep
<1>8. Inside(s0)' = d
  <2>1. i \in OpenOf(s0)'
    BY <1>6 DEF OpenOf, Ongoing
  <2> QED
    BY <1>6, <1>7, <2>1, InsideIsDateNext
<1>9. ASSUME NEW s \in Students, s # s0 PROVE Inside(s)' = Inside(s)
  <2>1. ASSUME NEW j \in SessionIds
        PROVE  /\ j \in OpenOf(s)' <=> j \in OpenOf(s)
               /\ j \in OpenOf(s) => rows'[j] = rows[j]
    <3>1. CASE j = i
      <4>1. rows[i].status = "absent"
        BY DEF InsertRow, LedgerInv, SessionsConsistent, SessionConsistent, SessionIds
      <4> QED
        BY <1>6, <1>9, <3>1, <4>1 DEF OpenOf, Ongoing
    <3>2. CASE j = o /\ j # i
      <4>1. j \notin OpenOf(s)
        BY <1>7, <1>9, <3>2 DEF OpenOf, SessionIds
      <4>2. ASSUME rows'[j].status = "ongoing" PROVE rows'[j] = rows[j]
        BY <3>2, <4>2, OpenAfter DEF InsertRow
      <4> QED
        BY <4>1, <4>2 DEF OpenOf, Ongoing
    <3>3. CASE j # i /\ j # o
      BY <1>6, <3>3 DEF KeepRow, OpenOf, Ongoing
    <3> QED
      BY <3>1, <3>2, <3>3
  <2>2. OpenOf(s)' = OpenOf(s)
    BY <2>1 DEF OpenOf
  <2>3. CASE OpenOf(s) = {}
    BY <2>2, <2>3 DEF Inside
  <2>4. CASE OpenOf(s) # {}
    <3>1. PICK j \in OpenOf(s) : TRUE
      BY <2>4
    <3>2. j \in OpenOf(s)' /\ rows'[j] = rows[j]
      BY <2>1, <2>2, <3>1 DEF OpenOf
    <3>3. Inside(s) = rows[j].date
      BY <3>1, InsideIsDate DEF EntryPointInv
    <3>4. Inside(s)' = rows'[j].date
      BY <3>2, InsideIsDateNext
    <3> QED
      BY <3>2, <3>3, <3>4
  <2> QED
    BY <2>3, <2>4
<1>10. [s \in Students |-> Inside(s)]' =
        [[s \in Students |-> Inside(s)] EXCEPT ![s0] = d]
  BY <1>7, <1>8, <1>9
<1>11. CASE OpenOf(s0) = {}
  <2>1. Inside(s0) = None
    BY <1>11 DEF Inside
  <2>2. Presence!Arrive(s0, d)
    BY <1>7, <1>10, <2>1 DEF Presence!Arrive
  <2> QED
    BY <2>2 DEF Presence!Next
<1>12. CASE OpenOf(s0) # {}
  <2>1. PICK j \in OpenOf(s0) : TRUE
    BY <1>12
  <2>2. j = o /\ j \in SessionIds /\ rows[j].status = "ongoing"
    BY <1>3, <1>4, <1>6, <1>7, <2>1
    DEF EntryPointInv, OpenIsKnown, OpenOf, Ongoing
  <2>3. rows[j] \in Session
    BY <2>2, RowTyped DEF LedgerInv
  <2>4. /\ rows[j].date = LocalDate[rows[j].entry] /\ rows[j].entry \in Time
        /\ rows[j].entry <= clock[c]
    BY <2>2, <2>3
    DEF LedgerInv, SessionsConsistent, SessionConsistent, Session, EntryPointInv,
        EntriesBelowClock
  <2>5. rows[j].date <= d /\ rows[j].date \in Dates /\ rows[j].date \in Int
        /\ d \in Int
    BY <1>2, <1>5, <2>4 DEF Dates
  <2>6. rows[j].date < d
    BY <1>2, <1>4, <1>5, <1>6, <2>2, <2>5
    DEF EntryOutcome, RolloverOutcome, Today, SessionIds
  <2>7. Inside(s0) = rows[j].date
    BY <1>7, <2>1, InsideIsDate DEF EntryPointInv
  <2>8. Presence!Rollover(s0, d)
    BY <1>7, <1>10, <2>5, <2>6, <2>7 DEF Presence!Rollover
  <2> QED
    BY <2>8 DEF Presence!Next
<1> QED
  BY <1>11, <1>12

(* Without an insertion, students only leave.                              *)
LEMMA OthersRefine ==
  ASSUME LedgerInv, EntryPointInv, LedgerStep, AtMostOneOpen',
         \A i \in SessionIds : ~ InsertRow(i)
  PROVE  Presence!Next
<1> DEFINE S == {s \in Students : OpenOf(s) # {} /\ OpenOf(s)' = {}}
<1>1. ASSUME NEW s \in Students, NEW i \in OpenOf(s)'
      PROVE  i \in OpenOf(s) /\ rows'[i] = rows[i]
  BY <1>1, OpenAfter DEF OpenOf, Ongoing
<1>2. ASSUME NEW s \in S PROVE Inside(s) # None /\ Inside(s)' = None
  <2>1. PICK i \in OpenOf(s) : TRUE
    BY <1>2
  <2>2. rows[i] \in Session
    BY <2>1, RowTyped DEF LedgerInv, OpenOf, Ongoing
  <2>3. Inside(s) = rows[i].date
    BY <1>2, <2>1, InsideIsDate DEF EntryPointInv
  <2>4. Inside(s)' = None
    BY <1>2 DEF Inside
  <2> QED
    BY <2>2, <2>3, <2>4 DEF Session
<1>3. ASSUME NEW s \in Students, s \notin S PROVE Inside(s)' = Inside(s)
  <2>1. CASE OpenOf(s) = {}
    <3>1. OpenOf(s)' = {}
      BY <1>1, <2>1
    <3> QED
      BY <2>1, <3>1 DEF Inside
  <2>2. CASE OpenOf(s)' # {}
    <3>1. PICK i \in OpenOf(s)' : TRUE
      BY <2>2
    <3>2. i \in OpenOf(s) /\ rows'[i] = rows[i]
      BY <1>1, <3>1
    <3>3. Inside(s)' = rows'[i].date
      BY <3>1, InsideIsDateNext
    <3>4. Inside(s) = rows[i].date
      BY <3>2, InsideIsDate DEF EntryPointInv
    <3> QED
      BY <3>2, <3>3, <3>4
  <2> QED
    BY <1>3, <2>1, <2>2
<1>4. Presence!Leave(S)
  <2>1. \A s \in S : [t \in Students |-> Inside(t)][s] # None
    BY <1>2
  <2>2. [s \in Students |-> Inside(s)]' =
          [s \in Students |->
             IF s \in S THEN None ELSE [t \in Students |-> Inside(t)][s]]
    BY <1>2, <1>3
  <2> QED
    BY <2>1, <2>2 DEF Presence!Leave
<1> QED
  BY <1>4 DEF Presence!Next

(* Every behaviour of the ledger with one live entry point is a behaviour  *)
(* of the presence machine: process_recognition and everything that races  *)
(* with it amount to arrivals, departures and date rollovers.              *)
THEOREM LedgerImplementsPresence == OneEntryPoint /\ Spec => ImplementsPresence
<1> SUFFICES ASSUME OneEntryPoint PROVE Spec => Presence!Spec
  BY DEF ImplementsPresence
<1>1. Init => Presence!Init
  BY DEF Init, Presence!Init, Inside, OpenOf, Ongoing, Absent
<1>2. LedgerInv /\ EntryPointInv /\ EntryPointInv' /\ [Next]_vars => Presence!Next
  BY NextLedgerStep, InsertRefines, OthersRefine DEF EntryPointInv
<1>3. Spec => []EntryPointInv
  BY EntryPointInvariant
<1> QED
  BY <1>1, <1>2, <1>3, LedgerInvariant, PTL DEF Spec, Presence!Spec

=============================================================================
