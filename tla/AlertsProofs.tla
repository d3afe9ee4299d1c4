-------------------------- MODULE AlertsProofs --------------------------
(* Proofs about PeriodAlerts and LiveFeed, for every number of students,   *)
(* jobs, administrators and dashboards, every timetable and every calendar.*)
EXTENDS PeriodAlerts, SequenceTheorems, FiniteSetTheorems, WellFoundedInduction,
        TLAPS

Rows ==
    [student : Students \cup {None}, period : PeriodIds \cup {None},
     date : Int, entry : Nat, exit : Nat \cup {None}]
Kinds == {"student_absent", "student_late", "early_exit"}
AlertRows ==
    [kind : Kinds, student : Students \cup {None}, period : PeriodIds \cup {None},
     date : Int, created : Nat, acked : Nat \cup {None}, resolved : Nat \cup {None},
     raced : BOOLEAN, looked : Nat]
DuePeriods == PeriodIds \X Period
Runs ==
    [pc : {"period", "student", "check", "insert"}, now : Nat, todo : SUBSET DuePeriods,
     at : {<<>>} \cup DuePeriods, expected : SUBSET Students, due : Seq(Kinds \X Students),
     looked : Nat, raced : BOOLEAN]

(* What an update writes makes a period of every period.                   *)
Fitting(change) == \A period \in Period : Changed(period, change) \in Period

Typed ==
    /\ now \in 0 .. MaxTime /\ ops \in 0 .. MaxOps
    /\ enrolled \subseteq Students /\ edited \subseteq PeriodIds
    /\ periods = [p \in DOMAIN periods |-> periods[p]] /\ DOMAIN periods \subseteq PeriodIds
    /\ \A p \in DOMAIN periods : periods[p] \in Period
    /\ DOMAIN periods # {} => Timetables # {}
    /\ sessions \in Seq(Rows)
    /\ alerts \in Seq(AlertRows)
    /\ job \in [Jobs -> Runs \cup {Resting}]
    /\ admin = [a \in Admins |-> admin[a]]
    /\ \A a \in Admins :
        /\ admin[a].pc \in {"idle", "ack", "resolve", "create", "update"}
        /\ admin[a].pc = "create" => admin[a].period \in Timetables
        /\ admin[a].pc = "update" => admin[a].id \in PeriodIds /\ Fitting(admin[a].change)

(* Sessions and alerts refer to what is there.                             *)
References ==
    /\ \A i \in DOMAIN sessions :
        /\ sessions[i].student \in enrolled \cup {None}
        /\ sessions[i].period \in DOMAIN periods \cup {None}
        /\ sessions[i].entry <= now
        /\ sessions[i].exit = None \/ sessions[i].entry <= sessions[i].exit
    /\ \A i \in DOMAIN alerts :
        /\ alerts[i].student \in enrolled \cup {None}
        /\ alerts[i].period \in DOMAIN periods \cup {None}
        /\ alerts[i].created <= now
        /\ alerts[i].looked <= Len(sessions)

(* A request knows its alert; an acknowledgement it has seen is still there*)
ReadStamps ==
    \A a \in Admins :
        /\ admin[a].pc \in {"ack", "resolve"} => admin[a].alert \in DOMAIN alerts
        /\ admin[a].pc = "resolve" /\ admin[a].acked # None => alerts[admin[a].alert].acked # None

(* The student a run reports absent had no session when it asked; an alert *)
(* it is about to insert has no older one that it could have found.        *)
Ready(run) ==
    /\ run.looked <= Len(sessions)
    /\ run.pc \in {"check", "insert"} => run.due # <<>>
    /\ run.pc \in {"period", "student"} => run.due = <<>>
    /\ run.pc # "period" => run.at # <<>>
    /\ \A n \in DOMAIN run.due, k \in DOMAIN sessions :
        (/\ run.due[n][1] = "student_absent"
         /\ None \notin {sessions[k].student, sessions[k].period}
         /\ sessions[k].student = run.due[n][2]
         /\ sessions[k].period = run.at[1]
         /\ sessions[k].date = LocalDate(run.now)) => k > run.looked
    /\ run.pc = "insert" =>
        \A i \in DOMAIN alerts :
            (/\ None \notin {alerts[i].student, alerts[i].period}
             /\ Same(alerts[i], Head(run.due)[1], run.at[1], Head(run.due)[2])
             /\ alerts[i].date = LocalDate(run.now)) =>
                run.raced \/ alerts[i].created < UtcMidnight(alerts[i].date)

ReadyRuns == \A j \in Jobs : job[j] # Resting => Ready(job[j])

AlertsInvariant ==
    /\ Typed /\ References /\ ReadStamps /\ ReadyRuns
    /\ ResolvedAcked /\ AbsentExplained /\ DuplicatesExplained /\ PeriodsSound

-----------------------------------------------------------------------------
(* The constants have their types; None is none of the instants and ids.   *)
LEMMA Constants ==
    /\ DayLength \in Nat \ {0} /\ Offset \in Int /\ MaxTime \in Nat /\ MaxOps \in Nat
    /\ None = -1 /\ None \notin Nat /\ None \notin PeriodIds
    /\ Timetables \subseteq Period
    /\ PeriodIds \subseteq Nat
  BY AlertsAssumption DEF None

(* Local dates and times.                                                  *)
LEMMA Calendar ==
    ASSUME NEW t \in Int
    PROVE  /\ LocalDate(t) \in Int /\ LocalTime(t) \in 0 .. DayLength - 1
           /\ UtcMidnight(LocalDate(t)) \in Int
           /\ \A m \in Int : LocalTime(t) < m => t < Instant(LocalDate(t), m)
  <1>1. LocalDate(t) \in Int /\ LocalTime(t) \in 0 .. DayLength - 1
    BY Constants DEF LocalDate, LocalTime
  <1>2. t + Offset = (LocalDate(t) * DayLength) + LocalTime(t)
    BY Constants DEF LocalDate, LocalTime
  <1> DEFINE d == LocalDate(t) * DayLength
  <1>3. d \in Int
    BY <1>1, Constants
  <1>4. ASSUME NEW m \in Int, LocalTime(t) < m PROVE t < Instant(LocalDate(t), m)
    <2>1. t + Offset = d + LocalTime(t)
      BY <1>2
    <2>2. Instant(LocalDate(t), m) = d + m - Offset
      BY DEF Instant
    <2> HIDE DEF d
    <2>3. t < d + m - Offset
      BY <1>1, <1>3, <1>4, <2>1, Constants
    <2> QED BY <2>2, <2>3
  <1> QED BY <1>1, <1>3, <1>4 DEF UtcMidnight

(* What a run does next is one of four things.                             *)
LEMMA OnwardIs ==
    ASSUME NEW run \in Runs
    PROVE  \/ run.due # <<>> /\ Onward(run) = [run EXCEPT !.pc = "check"]
           \/ run.due = <<>> /\ run.expected # {} /\ Onward(run) = [run EXCEPT !.pc = "student"]
           \/ Onward(run) = Begun(run.now, run.todo)
           \/ Onward(run) = Resting
  BY DEF Onward

(* Its type.                                                               *)
LEMMA OnwardTyped ==
    ASSUME NEW run \in Runs
    PROVE  /\ Onward(run) \in Runs \cup {Resting}
           /\ Onward(run).pc # "insert"
  <1>1. CASE Onward(run) = [run EXCEPT !.pc = "check"]
    BY <1>1 DEF Runs
  <1>2. CASE Onward(run) = [run EXCEPT !.pc = "student"]
    BY <1>2 DEF Runs
  <1>3. CASE Onward(run) = Begun(run.now, run.todo)
    <2>1. <<>> \in Seq(Kinds \X Students)
      OBVIOUS
    <2>2. run.now \in Nat /\ run.todo \in SUBSET DuePeriods
      BY DEF Runs
    <2>3. Begun(run.now, run.todo) \in Runs
      BY <2>1, <2>2 DEF Begun, Runs
    <2>4. Begun(run.now, run.todo).pc = "period"
      BY DEF Begun
    <2> QED BY <1>3, <2>3, <2>4
  <1>4. CASE Onward(run) = Resting
    BY <1>4 DEF Resting
  <1> QED BY <1>1, <1>2, <1>3, <1>4, OnwardIs

(* Runs are not at rest.                                                   *)
LEMMA RunsRun ==
    ASSUME NEW run \in Runs
    PROVE  run # Resting /\ run.pc # "idle"
  BY DEF Runs, Resting

(* Elements of a sequence are replaced, each in its place.                 *)
LEMMA Rewritten ==
    ASSUME NEW S, NEW s \in Seq(S), NEW t, t = [i \in DOMAIN s |-> t[i]], \A i \in DOMAIN s : t[i] \in S
    PROVE  t \in Seq(S) /\ Len(t) = Len(s) /\ DOMAIN t = DOMAIN s /\ DOMAIN s = 1 .. Len(s) /\ Len(s) \in Nat
  <1>1. Len(s) \in Nat /\ DOMAIN s = 1 .. Len(s)
    BY LenProperties
  <1>2. t \in [1 .. Len(s) -> S]
    BY <1>1
  <1>3. t \in Seq(S)
    BY <1>1, <1>2, IsASeq
  <1>4. DOMAIN t = 1 .. Len(t) /\ Len(t) \in Nat
    BY <1>3, LenProperties
  <1>5. DOMAIN t = 1 .. Len(s)
    BY <1>2
  <1>6. Len(t) = Len(s)
    BY <1>1, <1>4, <1>5
  <1> QED BY <1>1, <1>3, <1>5, <1>6

(* The fields of rows.                                                     *)
LEMMA RowFields ==
    ASSUME Typed
    PROVE  /\ DOMAIN sessions = 1 .. Len(sessions) /\ Len(sessions) \in Nat
           /\ DOMAIN alerts = 1 .. Len(alerts) /\ Len(alerts) \in Nat
           /\ \A i \in DOMAIN sessions :
                /\ sessions[i] \in Rows
                /\ sessions[i].date \in Int /\ sessions[i].entry \in Nat
                /\ sessions[i].exit \in Nat \cup {None}
           /\ \A i \in DOMAIN alerts :
                /\ alerts[i] \in AlertRows
                /\ alerts[i].date \in Int /\ alerts[i].created \in Nat /\ alerts[i].looked \in Nat
                /\ alerts[i].acked \in Nat \cup {None} /\ alerts[i].resolved \in Nat \cup {None}
  <1>1. /\ DOMAIN sessions = 1 .. Len(sessions) /\ Len(sessions) \in Nat
        /\ DOMAIN alerts = 1 .. Len(alerts) /\ Len(alerts) \in Nat
    BY LenProperties DEF Typed
  <1>2. /\ \A i \in DOMAIN sessions : sessions[i] \in Rows
        /\ \A i \in DOMAIN alerts : alerts[i] \in AlertRows
    BY DEF Typed
  <1>3. \A x \in Rows : x.date \in Int /\ x.entry \in Nat /\ x.exit \in Nat \cup {None}
    BY DEF Rows
  <1>4. \A x \in AlertRows :
            /\ x.date \in Int /\ x.created \in Nat /\ x.looked \in Nat
            /\ x.acked \in Nat \cup {None} /\ x.resolved \in Nat \cup {None}
    BY DEF AlertRows
  <1> QED BY <1>1, <1>2, <1>3, <1>4

-----------------------------------------------------------------------------
(* Rows lose references and get their exits and stamps, and new ones come  *)
(* at the end: what runs and alerts say of the others stays true.          *)
SessionsKept ==
    /\ Len(sessions') \in Nat /\ Len(sessions) <= Len(sessions')
    /\ DOMAIN sessions' = 1 .. Len(sessions')
    /\ \A k \in DOMAIN sessions :
        None \notin {sessions'[k].student, sessions'[k].period} =>
            /\ sessions'[k].student = sessions[k].student
            /\ sessions'[k].period = sessions[k].period
            /\ sessions'[k].date = sessions[k].date

AlertsKept ==
    /\ DOMAIN alerts' = DOMAIN alerts
    /\ \A i \in DOMAIN alerts :
        None \notin {alerts'[i].student, alerts'[i].period} =>
            /\ alerts'[i].kind = alerts[i].kind
            /\ alerts'[i].student = alerts[i].student
            /\ alerts'[i].period = alerts[i].period
            /\ alerts'[i].date = alerts[i].date
            /\ alerts'[i].created = alerts[i].created
            /\ alerts'[i].raced = alerts[i].raced
            /\ alerts'[i].looked = alerts[i].looked

(* Without a change they are kept.                                         *)
LEMMA SameKept ==
    ASSUME Typed
    PROVE  /\ UNCHANGED sessions => SessionsKept
           /\ UNCHANGED alerts => AlertsKept
  <1>1. ASSUME UNCHANGED sessions PROVE SessionsKept
    BY <1>1, RowFields DEF SessionsKept
  <1>2. ASSUME UNCHANGED alerts PROVE AlertsKept
    BY <1>2 DEF AlertsKept
  <1> QED BY <1>1, <1>2

(* A run that does not step stays ready.                                   *)
LEMMA ReadyKept ==
    ASSUME AlertsInvariant, SessionsKept, AlertsKept, NEW run \in Runs, Ready(run)
    PROVE  Ready(run)'
  <1>1. run.looked \in Nat
    BY DEF Runs
  <1>2. /\ DOMAIN sessions = 1 .. Len(sessions) /\ Len(sessions) \in Nat
    BY RowFields DEF AlertsInvariant
  <1>3. run.looked <= Len(sessions) /\ run.looked <= Len(sessions')
    BY <1>1, <1>2 DEF Ready, SessionsKept
  <1>4. ASSUME NEW n \in DOMAIN run.due, NEW k \in DOMAIN sessions',
               run.due[n][1] = "student_absent",
               None \notin {sessions'[k].student, sessions'[k].period},
               sessions'[k].student = run.due[n][2],
               sessions'[k].period = run.at[1],
               sessions'[k].date = LocalDate(run.now)
        PROVE  k > run.looked
    <2>1. CASE k \in DOMAIN sessions
      BY <1>4, <2>1 DEF Ready, SessionsKept
    <2>2. CASE k \notin DOMAIN sessions
      BY <1>1, <1>2, <1>3, <2>2 DEF SessionsKept
    <2> QED BY <2>1, <2>2
  <1>5. ASSUME run.pc = "insert", NEW i \in DOMAIN alerts',
               None \notin {alerts'[i].student, alerts'[i].period},
               alerts'[i].kind = Head(run.due)[1], alerts'[i].period = run.at[1],
               alerts'[i].student = Head(run.due)[2],
               alerts'[i].date = LocalDate(run.now)
        PROVE  run.raced \/ alerts'[i].created < UtcMidnight(alerts'[i].date)
    BY <1>5 DEF Ready, AlertsKept, Same
  <1>6. /\ run.pc \in {"check", "insert"} => run.due # <<>>
        /\ run.pc \in {"period", "student"} => run.due = <<>>
        /\ run.pc # "period" => run.at # <<>>
    BY DEF Ready
  <1> QED BY <1>3, <1>4, <1>5, <1>6 DEF Ready, Same

(* The runs are ready if each is one of these.                             *)
LEMMA AllReady ==
    ASSUME \A j \in Jobs : job'[j] = Resting \/ \E run \in Runs : job'[j] = run /\ Ready(run)'
    PROVE  ReadyRuns'
  <1>1. ASSUME NEW j \in Jobs, NEW run \in Runs, job'[j] = run, Ready(run)'
        PROVE  Ready(job[j])'
    BY <1>1 DEF Ready
  <1> QED BY <1>1 DEF ReadyRuns

(* If no run steps and no alert is inserted, everything that is said about *)
(* runs and alerts stays true.                                             *)
LEMMA QuietKept ==
    ASSUME AlertsInvariant, SessionsKept, AlertsKept, UNCHANGED job
    PROVE  ReadyRuns' /\ AbsentExplained' /\ DuplicatesExplained'
  <1>1. ReadyRuns'
    <2>1. ASSUME NEW j \in Jobs
          PROVE  job'[j] = Resting \/ \E run \in Runs : job'[j] = run /\ Ready(run)'
      <3>1. CASE job[j] = Resting
        BY <3>1
      <3>2. CASE job[j] # Resting
        <4>1. PICK run \in Runs : run = job[j]
          BY <3>2 DEF AlertsInvariant, Typed
        <4>2. Ready(run)
          BY <3>2, <4>1 DEF AlertsInvariant, ReadyRuns
        <4>3. Ready(run)'
          BY <4>2, ReadyKept
        <4> QED BY <4>1, <4>3
      <3> QED BY <3>1, <3>2
    <2> QED BY <2>1, AllReady
  <1>2. AbsentExplained'
    <2>1. ASSUME NEW i \in DOMAIN alerts', NEW k \in DOMAIN sessions',
                 alerts'[i].kind = "student_absent",
                 None \notin {alerts'[i].student, alerts'[i].period},
                 sessions'[k].student = alerts'[i].student,
                 sessions'[k].period = alerts'[i].period,
                 sessions'[k].date = alerts'[i].date
          PROVE  k > alerts'[i].looked
      <3>1. /\ i \in DOMAIN alerts /\ alerts[i].looked \in Nat /\ alerts'[i].looked = alerts[i].looked
            /\ alerts[i].looked <= Len(sessions)
            /\ DOMAIN sessions = 1 .. Len(sessions) /\ Len(sessions) \in Nat
        BY <2>1, RowFields DEF AlertsInvariant, AlertsKept, References
      <3>2. CASE k \in DOMAIN sessions
        BY <2>1, <3>1, <3>2 DEF AlertsInvariant, AbsentExplained, SessionsKept, AlertsKept
      <3>3. CASE k \notin DOMAIN sessions
        BY <3>1, <3>3 DEF SessionsKept
      <3> QED BY <3>2, <3>3
    <2> QED BY <2>1 DEF AbsentExplained
  <1>3. DuplicatesExplained'
    <2>1. ASSUME NEW i \in DOMAIN alerts', NEW k \in DOMAIN alerts', i < k,
                 None \notin {alerts'[i].student, alerts'[i].period},
                 alerts'[k].kind = alerts'[i].kind,
                 alerts'[k].period = alerts'[i].period,
                 alerts'[k].student = alerts'[i].student,
                 alerts'[i].date = alerts'[k].date
          PROVE  alerts'[k].raced \/ alerts'[i].created < UtcMidnight(alerts'[i].date)
      BY <2>1 DEF AlertsInvariant, DuplicatesExplained, AlertsKept, Same
    <2> QED BY <2>1 DEF DuplicatesExplained, Same
  <1> QED BY <1>1, <1>2, <1>3

-----------------------------------------------------------------------------
(* Steps of the job that insert nothing.                                   *)

(* What a run has to know before it goes on.                               *)
Founded(run) ==
    /\ run.looked <= Len(sessions)
    /\ run.due # <<>> \/ run.expected # {} => run.at # <<>>
    /\ \A n \in DOMAIN run.due, k \in DOMAIN sessions :
        (/\ run.due[n][1] = "student_absent"
         /\ None \notin {sessions[k].student, sessions[k].period}
         /\ sessions[k].student = run.due[n][2]
         /\ sessions[k].period = run.at[1]
         /\ sessions[k].date = LocalDate(run.now)) => k > run.looked

(* A run that knows this is ready when it goes on.                         *)
LEMMA OnwardReady ==
    ASSUME Typed, NEW run \in Runs, Founded(run)
    PROVE  Onward(run) = Resting \/ (Onward(run) \in Runs /\ Ready(Onward(run)))
  <1> DEFINE next == Onward(run)
  <1>1. next \in Runs \cup {Resting} /\ next.pc # "insert"
    BY OnwardTyped
  <1>2. Len(sessions) \in Nat
    BY RowFields
  <1>3. DOMAIN <<>> = {}
    OBVIOUS
  <1>4. CASE run.due # <<>> /\ next = [run EXCEPT !.pc = "check"]
    <2>1. /\ next.pc = "check" /\ next.due = run.due /\ next.at = run.at /\ next.looked = run.looked
          /\ next.now = run.now
      BY <1>4 DEF Runs
    <2> HIDE DEF next
    <2> QED BY <1>1, <1>4, <2>1, OnwardTyped DEF Ready, Founded, next, Resting
  <1>5. CASE run.due = <<>> /\ run.expected # {} /\ next = [run EXCEPT !.pc = "student"]
    <2>1. /\ next.pc = "student" /\ next.due = <<>> /\ next.at = run.at /\ next.looked = run.looked
      BY <1>5 DEF Runs
    <2> HIDE DEF next
    <2> QED BY <1>1, <1>3, <1>5, <2>1 DEF Ready, Founded, next, Resting
  <1>6. CASE next = Begun(run.now, run.todo)
    <2>1. next.pc = "period" /\ next.due = <<>> /\ next.looked = 0
      BY <1>6 DEF Begun
    <2> HIDE DEF next
    <2> QED BY <1>1, <1>2, <1>3, <2>1 DEF Ready, next, Resting
  <1>7. CASE next = Resting
    BY <1>7
  <1> QED BY <1>4, <1>5, <1>6, <1>7, OnwardIs

(* A step of one run.                                                      *)
LEMMA JobOnlyKeeps ==
    ASSUME AlertsInvariant,
           UNCHANGED <<now, enrolled, periods, edited, sessions, alerts, admin>>, ops' \in 0 .. MaxOps,
           NEW j \in Jobs, NEW run, run = Resting \/ (run \in Runs /\ Ready(run)),
           job' = [k \in Jobs |-> IF k = j THEN run ELSE job[k]]
    PROVE  AlertsInvariant'
  <1>1. SessionsKept /\ AlertsKept
    BY SameKept DEF AlertsInvariant
  <1>2. ASSUME NEW k \in Jobs
        PROVE  job'[k] = Resting \/ \E x \in Runs : job'[k] = x /\ Ready(x)'
    <2>1. PICK x : x = job'[k]
      OBVIOUS
    <2>2. x = Resting \/ (x \in Runs /\ Ready(x))
      <3>1. CASE k = j
        BY <2>1, <3>1
      <3>2. CASE k # j
        BY <2>1, <3>2 DEF AlertsInvariant, ReadyRuns, Typed
      <3> QED BY <3>1, <3>2
    <2>3. x \in Runs /\ Ready(x) => Ready(x)'
      BY <1>1, ReadyKept
    <2> QED BY <2>1, <2>2, <2>3
  <1>3. ReadyRuns'
    BY <1>2, AllReady
  <1>4. job' \in [Jobs -> Runs \cup {Resting}]
    BY DEF AlertsInvariant, Typed
  <1>5. Typed'
    BY <1>4 DEF AlertsInvariant, Typed
  <1>6. References' /\ ReadStamps' /\ ResolvedAcked'
    BY DEF AlertsInvariant, References, ReadStamps, ResolvedAcked
  <1>7. AbsentExplained' /\ DuplicatesExplained' /\ PeriodsSound'
    BY DEF AlertsInvariant, AbsentExplained, DuplicatesExplained, PeriodsSound, Same, Fits
  <1> QED BY <1>3, <1>5, <1>6, <1>7 DEF AlertsInvariant

(* The job begins: it has found nothing yet.                               *)
LEMMA JobBeginKeeps ==
    ASSUME AlertsInvariant, NEW j \in Jobs, JobBegin(j)
    PROVE  AlertsInvariant'
  <1>1. PICK todo : todo = {<<p, periods[p]>> : p \in {p \in DOMAIN periods : Due(periods[p], now)}}
    OBVIOUS
  <1>2. PICK t : t = now
    OBVIOUS
  <1> DEFINE run == Begun(t, todo)
  <1>3. run \in Runs /\ Founded(run)
    <2>1. todo \in SUBSET DuePeriods /\ t \in Nat
      BY <1>1, <1>2, Constants DEF AlertsInvariant, Typed, DuePeriods
    <2>2. <<>> \in Seq(Kinds \X Students) /\ DOMAIN <<>> = {}
      OBVIOUS
    <2>3. run \in Runs
      BY <2>1, <2>2 DEF Begun, Runs
    <2>4. run.due = <<>> /\ run.expected = {} /\ run.looked = 0
      BY DEF Begun
    <2>5. Len(sessions) \in Nat
      BY RowFields DEF AlertsInvariant
    <2> HIDE DEF run
    <2> QED BY <2>2, <2>3, <2>4, <2>5 DEF Founded
  <1>4. job' = [k \in Jobs |-> IF k = j THEN Onward(run) ELSE job[k]]
    BY <1>1, <1>2 DEF JobBegin, Goes
  <1>5. UNCHANGED <<now, enrolled, periods, edited, sessions, alerts, admin>> /\ ops' \in 0 .. MaxOps
    BY Constants DEF JobBegin, Counted, AlertsInvariant, Typed
  <1> HIDE DEF run
  <1>6. PICK next : next = Onward(run)
    OBVIOUS
  <1>7. next = Resting \/ (next \in Runs /\ Ready(next))
    BY <1>3, <1>6, OnwardReady DEF AlertsInvariant
  <1> QED BY <1>4, <1>5, <1>6, <1>7, JobOnlyKeeps

(* It takes up a period.                                                   *)
LEMMA JobPeriodKeeps ==
    ASSUME AlertsInvariant, NEW j \in Jobs, JobPeriod(j)
    PROVE  AlertsInvariant'
  <1>1. PICK next \in job[j].todo :
            Goes(j, [job[j] EXCEPT !.todo = @ \ {next}, !.at = next,
                                   !.expected = {s \in enrolled : Meant(next[2], s)}])
    BY DEF JobPeriod
  <1>2. job[j].pc = "period" /\ job[j] \in Runs /\ Ready(job[j])
    BY DEF JobPeriod, AlertsInvariant, Typed, ReadyRuns, Resting
  <1>3. PICK run : run = [job[j] EXCEPT !.todo = job[j].todo \ {next}, !.at = next,
                                        !.expected = {s \in enrolled : Meant(next[2], s)}]
    OBVIOUS
  <1>4. run \in Runs /\ run.due = <<>> /\ run.at = next /\ run.looked = job[j].looked
    <2>1. job[j].todo \in SUBSET DuePeriods /\ next \in DuePeriods
      BY <1>2 DEF Runs
    <2>2. {s \in enrolled : Meant(next[2], s)} \subseteq Students
      BY DEF AlertsInvariant, Typed
    <2>3. job[j].due = <<>>
      BY <1>2 DEF Ready
    <2> HIDE DEF Meant
    <2> QED BY <1>2, <1>3, <2>1, <2>2, <2>3 DEF Runs
  <1>5. next # <<>>
    <2>1. next \in DuePeriods
      BY <1>2 DEF Runs
    <2>2. DOMAIN next = {1, 2}
      BY <2>1 DEF DuePeriods
    <2> QED BY <2>2
  <1>6. Founded(run)
    <2>1. DOMAIN <<>> = {}
      OBVIOUS
    <2> QED BY <1>2, <1>4, <1>5, <2>1 DEF Founded, Ready
  <1>7. job' = [k \in Jobs |-> IF k = j THEN Onward(run) ELSE job[k]]
    BY <1>1, <1>3 DEF Goes
  <1>8. UNCHANGED <<now, enrolled, periods, edited, sessions, alerts, admin>> /\ ops' \in 0 .. MaxOps
    BY DEF JobPeriod, AlertsInvariant, Typed
  <1>9. PICK x : x = Onward(run)
    OBVIOUS
  <1>10. x = Resting \/ (x \in Runs /\ Ready(x))
    BY <1>4, <1>6, <1>9, OnwardReady DEF AlertsInvariant
  <1> QED BY <1>7, <1>8, <1>9, <1>10, JobOnlyKeeps

(* The alerts that are due have a kind each, and absence is due alone.     *)
LEMMA DueTyped ==
    ASSUME Typed, NEW period, NEW date, NEW attended \in SUBSET DOMAIN sessions
    PROVE  /\ DueFor(period, date, attended) \in Seq(Kinds)
           /\ \A n \in DOMAIN DueFor(period, date, attended) :
                DueFor(period, date, attended)[n] = "student_absent" => attended = {}
  <1> DEFINE late == \A i \in attended :
                        sessions[i].entry > Instant(date, period.start) + LateGrace
             early == {i \in attended :
                        /\ sessions[i].exit # None
                        /\ sessions[i].exit < Instant(date, period.end) - EarlyGrace}
             a == IF late THEN <<"student_late">> ELSE <<>>
             b == [i \in 1 .. Cardinality(early) |-> "early_exit"]
             Others == {"student_late", "early_exit"}
             due == DueFor(period, date, attended)
  <1>1. due = IF attended = {} THEN <<"student_absent">> ELSE a \o b
    BY DEF DueFor
  <1>2. Cardinality(early) \in Nat
    <2>1. DOMAIN sessions = 1 .. Len(sessions) /\ Len(sessions) \in Nat
      BY RowFields
    <2>2. IsFiniteSet(1 .. Len(sessions))
      <3>1. 1 \in Int /\ Len(sessions) \in Int
        BY <2>1
      <3> QED BY <3>1, FS_Interval
    <2>3. early \subseteq 1 .. Len(sessions)
      BY <2>1
    <2> HIDE DEF early
    <2> QED BY <2>2, <2>3, FS_Subset, FS_CardinalityType
  <1> HIDE DEF late, early
  <1>3. a \in Seq(Others)
    <2>1. <<>> \in Seq(Others)
      OBVIOUS
    <2>2. <<"student_late">> \in Seq(Others)
      OBVIOUS
    <2> HIDE DEF Others
    <2> QED BY <2>1, <2>2
  <1>4. b \in Seq(Others)
    <2>1. b \in [1 .. Cardinality(early) -> Others]
      OBVIOUS
    <2> HIDE DEF b, Others
    <2> QED BY <1>2, <2>1, IsASeq
  <1> HIDE DEF a, b
  <1>5. a \o b \in Seq(Others)
    <2> HIDE DEF Others
    <2> QED BY <1>3, <1>4, ConcatProperties
  <1> HIDE DEF due
  <1>6. CASE attended = {}
    <2>1. due = <<"student_absent">>
      BY <1>1, <1>6
    <2>2. <<"student_absent">> \in Seq(Kinds)
      BY DEF Kinds
    <2> QED BY <1>6, <2>1, <2>2 DEF due
  <1>7. CASE attended # {}
    <2>1. due \in Seq(Others)
      BY <1>1, <1>5, <1>7
    <2>2. \A n \in DOMAIN due : due[n] \in Others
      BY <2>1
    <2>3. due \in Seq(Kinds)
      <3>1. due \in [1 .. Len(due) -> Others] /\ Len(due) \in Nat
        BY <2>1, LenProperties
      <3>2. due \in [1 .. Len(due) -> Kinds]
        BY <3>1 DEF Kinds
      <3> QED BY <3>1, <3>2, IsASeq
    <2> QED BY <2>2, <2>3 DEF due
  <1> QED BY <1>6, <1>7

(* It takes up a student.                                                  *)
LEMMA JobStudentKeeps ==
    ASSUME AlertsInvariant, NEW j \in Jobs, JobStudent(j)
    PROVE  AlertsInvariant'
  <1>1. job[j].pc = "student" /\ job[j] \in Runs /\ Ready(job[j])
    BY DEF JobStudent, AlertsInvariant, Typed, ReadyRuns, Resting
  <1>2. PICK s \in job[j].expected :
            LET date == LocalDate(job[j].now)
                kinds == DueFor(job[j].at[2], date, Attended(job[j].at[1], s, date))
            IN Goes(j, [job[j] EXCEPT !.expected = @ \ {s}, !.looked = Len(sessions),
                                      !.due = [i \in DOMAIN kinds |-> <<kinds[i], s>>]])
    BY DEF JobStudent
  <1>3. PICK attended : attended = Attended(job[j].at[1], s, LocalDate(job[j].now))
    OBVIOUS
  <1>4. PICK kinds : kinds = DueFor(job[j].at[2], LocalDate(job[j].now), attended)
    OBVIOUS
  <1>5. PICK due : due = [i \in DOMAIN kinds |-> <<kinds[i], s>>]
    OBVIOUS
  <1>6. PICK run : run = [job[j] EXCEPT !.expected = job[j].expected \ {s}, !.looked = Len(sessions),
                                        !.due = due]
    OBVIOUS
  <1>7. /\ kinds \in Seq(Kinds)
        /\ \A n \in DOMAIN kinds : kinds[n] = "student_absent" => attended = {}
    <2>1. attended \in SUBSET DOMAIN sessions
      BY <1>3 DEF Attended
    <2> QED BY <1>4, <2>1, DueTyped DEF AlertsInvariant
  <1>8. s \in Students
    BY <1>1, <1>2 DEF Runs
  <1>9. due \in Seq(Kinds \X Students) /\ DOMAIN due = DOMAIN kinds
    <2>1. DOMAIN kinds = 1 .. Len(kinds) /\ Len(kinds) \in Nat /\ \A i \in DOMAIN kinds : kinds[i] \in Kinds
      BY <1>7, LenProperties
    <2>2. due \in [1 .. Len(kinds) -> Kinds \X Students]
      BY <1>5, <1>8, <2>1
    <2>3. due \in Seq(Kinds \X Students)
      BY <2>1, <2>2, IsASeq
    <2> QED BY <1>5, <2>3
  <1>10. Len(sessions) \in Nat
    BY RowFields DEF AlertsInvariant
  <1>11. /\ run \in Runs /\ run.due = due /\ run.at = job[j].at /\ run.looked = Len(sessions)
         /\ run.now = job[j].now
    BY <1>1, <1>6, <1>9, <1>10 DEF Runs
  <1>12. Founded(run)
    <2>1. job[j].at # <<>>
      BY <1>1 DEF Ready
    <2>2. ASSUME NEW n \in DOMAIN due, NEW k \in DOMAIN sessions, due[n][1] = "student_absent",
                 sessions[k].student = due[n][2], sessions[k].period = job[j].at[1],
                 sessions[k].date = LocalDate(job[j].now)
          PROVE  FALSE
      <3>1. due[n] = <<kinds[n], s>> /\ n \in DOMAIN kinds
        BY <1>5, <2>2
      <3>2. kinds[n] = "student_absent" /\ sessions[k].student = s
        BY <2>2, <3>1
      <3>3. k \in attended
        BY <1>3, <2>2, <3>2 DEF Attended
      <3> QED BY <1>7, <3>1, <3>2, <3>3
    <2> QED BY <1>10, <1>11, <2>1, <2>2 DEF Founded
  <1>13. job' = [k \in Jobs |-> IF k = j THEN Onward(run) ELSE job[k]]
    BY <1>2, <1>3, <1>4, <1>5, <1>6 DEF Goes
  <1>14. UNCHANGED <<now, enrolled, periods, edited, sessions, alerts, admin>> /\ ops' \in 0 .. MaxOps
    BY DEF JobStudent, AlertsInvariant, Typed
  <1>15. PICK x : x = Onward(run)
    OBVIOUS
  <1>16. x = Resting \/ (x \in Runs /\ Ready(x))
    BY <1>11, <1>12, <1>15, OnwardReady DEF AlertsInvariant
  <1> QED BY <1>13, <1>14, <1>15, <1>16, JobOnlyKeeps

(* One alert less is due.                                                  *)
LEMMA LessDue ==
    ASSUME AlertsInvariant, NEW run \in Runs, Ready(run), run.due # <<>>, NEW raced \in BOOLEAN,
           NEW less, less = [run EXCEPT !.due = Tail(run.due), !.raced = raced]
    PROVE  less \in Runs /\ Founded(less)
  <1> DEFINE t == Tail(run.due)
  <1>1. run.due \in Seq(Kinds \X Students)
    BY DEF Runs
  <1>2. t \in Seq(Kinds \X Students) /\ \A n \in DOMAIN t : n + 1 \in DOMAIN run.due /\ t[n] = run.due[n + 1]
    <2>1. /\ t \in Seq(Kinds \X Students) /\ Len(t) = Len(run.due) - 1
          /\ \A i \in 1 .. Len(t) : t[i] = run.due[i + 1]
      BY <1>1, HeadTailProperties
    <2>2. DOMAIN run.due = 1 .. Len(run.due) /\ Len(run.due) \in Nat
      BY <1>1, LenProperties
    <2>3. DOMAIN t = 1 .. Len(t)
      BY <2>1, LenProperties
    <2> HIDE DEF t
    <2> QED BY <2>1, <2>2, <2>3
  <1> HIDE DEF t
  <1>3. less = [run EXCEPT !.due = t, !.raced = raced]
    BY DEF t
  <1>4. /\ less \in Runs /\ less.due = t /\ less.at = run.at /\ less.looked = run.looked
        /\ less.now = run.now /\ less.pc = run.pc
    BY <1>2, <1>3 DEF Runs
  <1>5. run.at # <<>> /\ run.looked <= Len(sessions)
    BY DEF Ready, Runs
  <1>6. Founded(less)
    BY <1>2, <1>4, <1>5 DEF Founded, Ready
  <1> QED BY <1>4, <1>6

(* It looks for an alert of the same kind.                                 *)
LEMMA JobCheckKeeps ==
    ASSUME AlertsInvariant, NEW j \in Jobs, JobCheck(j)
    PROVE  AlertsInvariant'
  <1>1. job[j].pc = "check" /\ job[j] \in Runs /\ Ready(job[j])
    BY DEF JobCheck, AlertsInvariant, Typed, ReadyRuns, Resting
  <1>2. UNCHANGED <<now, enrolled, periods, edited, sessions, alerts, admin>> /\ ops' \in 0 .. MaxOps
    BY DEF JobCheck, AlertsInvariant, Typed
  <1>3. job[j].due # <<>>
    BY <1>1 DEF Ready
  <1> DEFINE Found == \E i \in DOMAIN alerts :
                        /\ Same(alerts[i], Head(job[j].due)[1], job[j].at[1], Head(job[j].due)[2])
                        /\ alerts[i].created >= UtcMidnight(LocalDate(job[j].now))
  <1>4. IF Found THEN Goes(j, [job[j] EXCEPT !.due = Tail(@)])
        ELSE job' = [job EXCEPT ![j].pc = "insert", ![j].raced = FALSE]
    BY DEF JobCheck
  <1>5. CASE Found
    <2>1. PICK run : run = [job[j] EXCEPT !.due = Tail(job[j].due)]
      OBVIOUS
    <2>2. run = [job[j] EXCEPT !.due = Tail(job[j].due), !.raced = job[j].raced]
      BY <1>1, <2>1 DEF Runs
    <2>3. run \in Runs /\ Founded(run)
      <3>1. job[j].raced \in BOOLEAN
        BY <1>1 DEF Runs
      <3> QED BY <1>1, <1>3, <2>2, <3>1, LessDue
    <2>4. job' = [k \in Jobs |-> IF k = j THEN Onward(run) ELSE job[k]]
      BY <1>4, <1>5, <2>1 DEF Goes
    <2>5. PICK x : x = Onward(run)
      OBVIOUS
    <2>6. x = Resting \/ (x \in Runs /\ Ready(x))
      BY <2>3, <2>5, OnwardReady DEF AlertsInvariant
    <2> QED BY <1>2, <2>4, <2>5, <2>6, JobOnlyKeeps
  <1>6. CASE ~Found
    <2>1. PICK x : x = [job[j] EXCEPT !.pc = "insert", !.raced = FALSE]
      OBVIOUS
    <2>2. /\ x \in Runs /\ x.pc = "insert" /\ x.due = job[j].due /\ x.at = job[j].at
          /\ x.now = job[j].now /\ x.looked = job[j].looked
      BY <1>1, <2>1 DEF Runs
    <2>3. job' = [k \in Jobs |-> IF k = j THEN x ELSE job[k]]
      BY <1>4, <1>6, <2>1 DEF AlertsInvariant, Typed
    <2>4. Ready(x)
      <3>1. ASSUME NEW i \in DOMAIN alerts,
                   Same(alerts[i], Head(job[j].due)[1], job[j].at[1], Head(job[j].due)[2]),
                   alerts[i].date = LocalDate(job[j].now)
            PROVE  alerts[i].created < UtcMidnight(alerts[i].date)
        <4>1. ~(alerts[i].created >= UtcMidnight(LocalDate(job[j].now)))
          BY <1>6, <3>1
        <4>2. alerts[i].created \in Nat /\ UtcMidnight(LocalDate(job[j].now)) \in Int
          <5>1. job[j].now \in Int
            BY <1>1 DEF Runs
          <5> QED BY <5>1, Calendar, RowFields DEF AlertsInvariant
        <4> QED BY <3>1, <4>1, <4>2
      <3> QED BY <1>1, <1>3, <2>2, <3>1 DEF Ready
    <2> QED BY <1>2, <2>2, <2>3, <2>4, JobOnlyKeeps
  <1> QED BY <1>5, <1>6

-----------------------------------------------------------------------------
(* Readiness that does not depend on the alerts.                           *)
LEMMA ReadyBefore ==
    ASSUME NEW run \in Runs, Ready(run), run.pc # "insert", UNCHANGED sessions
    PROVE  Ready(run)'
  BY DEF Ready

(* An alert is inserted, or the run ends for want of a student or period.  *)
LEMMA JobInsertKeeps ==
    ASSUME AlertsInvariant, NEW j \in Jobs, JobInsert(j)
    PROVE  AlertsInvariant'
  <1>1. job[j].pc = "insert" /\ job[j] \in Runs /\ Ready(job[j])
    BY DEF JobInsert, AlertsInvariant, Typed, ReadyRuns, Resting
  <1>2. job[j].due # <<>> /\ job[j].at # <<>>
    BY <1>1 DEF Ready
  <1>3. PICK kind, s, p : kind = Head(job[j].due)[1] /\ s = Head(job[j].due)[2] /\ p = job[j].at[1]
    OBVIOUS
  <1>4. UNCHANGED <<now, enrolled, periods, edited, sessions, admin, ops>>
    BY DEF JobInsert
  <1>5. CASE s \notin enrolled \/ p \notin DOMAIN periods
    <2>1. job' = [job EXCEPT ![j] = Resting] /\ UNCHANGED alerts
      BY <1>3, <1>5 DEF JobInsert
    <2>2. PICK x : x = Resting
      OBVIOUS
    <2>3. job' = [k \in Jobs |-> IF k = j THEN x ELSE job[k]]
      BY <2>1, <2>2 DEF AlertsInvariant, Typed
    <2>4. ops' \in 0 .. MaxOps
      BY <1>4 DEF AlertsInvariant, Typed
    <2> QED BY <1>4, <2>1, <2>2, <2>3, <2>4, JobOnlyKeeps
  <1>6. CASE s \in enrolled /\ p \in DOMAIN periods
    <2> DEFINE new == [kind |-> kind, student |-> s, period |-> p, date |-> LocalDate(job[j].now),
                       created |-> now, acked |-> None, resolved |-> None,
                       raced |-> job[j].raced, looked |-> job[j].looked]
               last == Len(alerts) + 1
    <2>1. alerts' = Append(alerts, new)
      BY <1>3, <1>6 DEF JobInsert
    <2>2. PICK less : less = [job[j] EXCEPT !.due = Tail(job[j].due), !.raced = FALSE]
      OBVIOUS
    <2>3. PICK next : next = Onward(less)
      OBVIOUS
    <2>4. job' = [k \in Jobs |->
                    IF k = j THEN next
                    ELSE IF Inserting(k, kind, p, s) THEN [job[k] EXCEPT !.raced = TRUE]
                    ELSE job[k]]
      BY <1>3, <1>6, <2>2, <2>3 DEF JobInsert
    <2>5. /\ Head(job[j].due) \in Kinds \X Students /\ Head(job[j].due) = job[j].due[1]
          /\ 1 \in DOMAIN job[j].due
      <3>1. job[j].due \in Seq(Kinds \X Students)
        BY <1>1 DEF Runs
      <3>2. Len(job[j].due) \in Nat \ {0} /\ DOMAIN job[j].due = 1 .. Len(job[j].due)
        BY <1>2, <3>1, EmptySeq, LenProperties
      <3>3. Head(job[j].due) \in Kinds \X Students
        BY <1>2, <3>1, HeadTailProperties
      <3> QED BY <3>2, <3>3
    <2>6. new \in AlertRows
      <3>1. kind \in Kinds /\ s \in Students /\ p \in PeriodIds /\ now \in Nat
        BY <1>3, <1>6, <2>5, Constants DEF AlertsInvariant, Typed
      <3>2. LocalDate(job[j].now) \in Int /\ job[j].raced \in BOOLEAN /\ job[j].looked \in Nat
        <4>1. job[j].now \in Int /\ job[j].raced \in BOOLEAN /\ job[j].looked \in Nat
          BY <1>1 DEF Runs
        <4> QED BY <4>1, Calendar
      <3> HIDE DEF Kinds
      <3> QED BY <3>1, <3>2 DEF AlertRows
    <2>7. /\ new.kind = kind /\ new.student = s /\ new.period = p /\ new.date = LocalDate(job[j].now)
          /\ new.created = now /\ new.acked = None /\ new.resolved = None /\ new.raced = job[j].raced
          /\ new.looked = job[j].looked
      OBVIOUS
    <2> HIDE DEF new
    <2>8. /\ alerts' \in Seq(AlertRows) /\ DOMAIN alerts' = 1 .. last /\ DOMAIN alerts = 1 .. Len(alerts)
          /\ Len(alerts) \in Nat
          /\ \A i \in DOMAIN alerts : alerts'[i] = alerts[i]
          /\ alerts'[last] = new
      <3>1. /\ alerts' \in Seq(AlertRows) /\ Len(alerts') = Len(alerts) + 1
            /\ \A i \in 1 .. Len(alerts) : alerts'[i] = alerts[i]
            /\ alerts'[Len(alerts) + 1] = new
        BY <2>1, <2>6, AppendProperties DEF AlertsInvariant, Typed
      <3>2. DOMAIN alerts' = 1 .. Len(alerts')
        BY <3>1, LenProperties
      <3>3. DOMAIN alerts = 1 .. Len(alerts) /\ Len(alerts) \in Nat
        BY RowFields DEF AlertsInvariant
      <3> QED BY <3>1, <3>2, <3>3
    <2>9. \A i \in DOMAIN alerts' : i \in DOMAIN alerts \/ i = last
      BY <2>8
    <2>10. last \in DOMAIN alerts' /\ last \notin DOMAIN alerts
      BY <2>8
    <2>11. next = Resting \/ (next \in Runs /\ Ready(next) /\ next.pc # "insert")
      <3>1. less \in Runs /\ Founded(less)
        BY <1>1, <1>2, <2>2, LessDue
      <3> QED BY <2>3, <3>1, OnwardReady, OnwardTyped DEF AlertsInvariant
    <2> HIDE DEF last
    <2>12. ReadyRuns'
      <3>1. ASSUME NEW k \in Jobs
            PROVE  job'[k] = Resting \/ \E x \in Runs : job'[k] = x /\ Ready(x)'
        <4>1. CASE k = j
          <5>1. job'[k] = next
            BY <2>4, <4>1
          <5>2. next # Resting => Ready(next)'
            BY <1>4, <2>11, ReadyBefore
          <5> QED BY <2>11, <5>1, <5>2
        <4>2. CASE k # j /\ job[k] = Resting
          <5>1. ~Inserting(k, kind, p, s)
            BY <4>2 DEF Inserting, Resting
          <5> QED BY <2>4, <4>2, <5>1
        <4>3. CASE k # j /\ job[k] # Resting /\ Inserting(k, kind, p, s)
          <5>1. PICK x : x = [job[k] EXCEPT !.raced = TRUE]
            OBVIOUS
          <5>2. job[k] \in Runs /\ Ready(job[k])
            BY <4>3 DEF AlertsInvariant, Typed, ReadyRuns
          <5>3. /\ x \in Runs /\ x.raced = TRUE /\ x.pc = job[k].pc /\ x.due = job[k].due
                /\ x.at = job[k].at /\ x.looked = job[k].looked /\ x.now = job[k].now
            BY <5>1, <5>2 DEF Runs
          <5>4. Ready(x)'
            BY <1>4, <5>2, <5>3 DEF Ready
          <5>5. job'[k] = x
            BY <2>4, <4>3, <5>1
          <5> QED BY <5>3, <5>4, <5>5
        <4>4. CASE k # j /\ job[k] # Resting /\ ~Inserting(k, kind, p, s)
          <5>1. PICK x \in Runs : x = job[k]
            BY <4>4 DEF AlertsInvariant, Typed
          <5>2. Ready(x)
            BY <4>4, <5>1 DEF AlertsInvariant, ReadyRuns
          <5>3. job'[k] = x
            BY <2>4, <4>4, <5>1
          <5>4. x.pc = "insert" => ~(x.at[1] = p /\ Head(x.due)[1] = kind /\ Head(x.due)[2] = s)
            <6>1. x.pc = "insert" => Head(x.due) \in Kinds \X Students
              BY <5>2, HeadTailProperties DEF Ready, Runs
            <6>2. ASSUME x.pc = "insert", Head(x.due)[1] = kind, Head(x.due)[2] = s
                  PROVE  Head(x.due) = <<kind, s>>
              BY <6>1, <6>2
            <6> QED BY <4>4, <5>1, <6>2 DEF Inserting
          <5>5. ASSUME x.pc = "insert", NEW i \in DOMAIN alerts',
                       None \notin {alerts'[i].student, alerts'[i].period},
                       Same(alerts'[i], Head(x.due)[1], x.at[1], Head(x.due)[2]),
                       alerts'[i].date = LocalDate(x.now)
                PROVE  x.raced \/ alerts'[i].created < UtcMidnight(alerts'[i].date)
            <6>1. CASE i \in DOMAIN alerts
              BY <2>8, <5>2, <5>5, <6>1 DEF Ready
            <6>2. CASE i = last
              <7>1. x.at[1] = p /\ Head(x.due)[1] = kind /\ Head(x.due)[2] = s
                BY <2>7, <2>8, <5>5, <6>2 DEF Same
              <7> QED BY <5>4, <5>5, <7>1
            <6> QED BY <2>9, <6>1, <6>2
          <5>6. Ready(x)'
            BY <1>4, <5>2, <5>5 DEF Ready
          <5> QED BY <5>3, <5>6
        <4> QED BY <4>1, <4>2, <4>3, <4>4
      <3> QED BY <3>1, AllReady
    <2>13. Typed'
      <3>1. job' \in [Jobs -> Runs \cup {Resting}]
        <4>1. ASSUME NEW k \in Jobs, Inserting(k, kind, p, s)
              PROVE  [job[k] EXCEPT !.raced = TRUE] \in Runs
          <5>1. job[k] \in Runs
            BY <4>1 DEF AlertsInvariant, Typed, Inserting, Resting
          <5> QED BY <5>1 DEF Runs
        <4>2. \A k \in Jobs : job[k] \in Runs \cup {Resting}
          BY DEF AlertsInvariant, Typed
        <4> QED BY <2>4, <2>11, <4>1, <4>2
      <3> QED BY <1>4, <2>8, <3>1 DEF AlertsInvariant, Typed
    <2>14. References'
      <3>1. new.looked <= Len(sessions)
        BY <1>1, <2>7 DEF Ready
      <3>2. new.created <= now
        BY <2>7, Constants DEF AlertsInvariant, Typed
      <3>3. ASSUME NEW i \in DOMAIN alerts'
            PROVE  /\ alerts'[i].student \in enrolled \cup {None}
                   /\ alerts'[i].period \in DOMAIN periods \cup {None}
                   /\ alerts'[i].created <= now
                   /\ alerts'[i].looked <= Len(sessions)
        <4>1. CASE i \in DOMAIN alerts
          BY <2>8, <4>1 DEF AlertsInvariant, References
        <4>2. CASE i = last
          BY <1>6, <2>7, <2>8, <3>1, <3>2, <4>2
        <4> QED BY <2>9, <4>1, <4>2
      <3> QED BY <1>4, <3>3 DEF AlertsInvariant, References
    <2>15. ReadStamps'
      BY <1>4, <2>8, <2>9, <2>10 DEF AlertsInvariant, ReadStamps
    <2>16. ResolvedAcked'
      <3>1. ASSUME NEW i \in DOMAIN alerts'
            PROVE  /\ alerts'[i].resolved # None => alerts'[i].acked # None
                   /\ \A stamp \in {alerts'[i].acked, alerts'[i].resolved} :
                        stamp # None => alerts'[i].created <= stamp
        <4>1. CASE i \in DOMAIN alerts
          BY <2>8, <4>1 DEF AlertsInvariant, ResolvedAcked
        <4>2. CASE i = last
          BY <2>7, <2>8, <4>2
        <4> QED BY <2>9, <4>1, <4>2
      <3> QED BY <3>1 DEF ResolvedAcked
    <2>17. PeriodsSound'
      BY <1>4 DEF AlertsInvariant, PeriodsSound, Fits
    <2>18. AbsentExplained'
      <3>1. ASSUME NEW i \in DOMAIN alerts', NEW k \in DOMAIN sessions',
                   alerts'[i].kind = "student_absent",
                   None \notin {alerts'[i].student, alerts'[i].period},
                   sessions'[k].student = alerts'[i].student,
                   sessions'[k].period = alerts'[i].period,
                   sessions'[k].date = alerts'[i].date
            PROVE  k > alerts'[i].looked
        <4>1. CASE i \in DOMAIN alerts
          BY <1>4, <2>8, <3>1, <4>1 DEF AlertsInvariant, AbsentExplained
        <4>2. CASE i = last
          <5>1. /\ alerts'[i] = new /\ kind = "student_absent" /\ k \in DOMAIN sessions
                /\ sessions[k].student = s /\ sessions[k].period = p
                /\ sessions[k].date = LocalDate(job[j].now) /\ None \notin {s, p}
            BY <1>4, <2>7, <2>8, <3>1, <4>2
          <5> QED BY <1>1, <1>3, <2>5, <2>7, <5>1 DEF Ready
        <4> QED BY <2>9, <4>1, <4>2
      <3> QED BY <3>1 DEF AbsentExplained
    <2>19. DuplicatesExplained'
      <3>1. ASSUME NEW i \in DOMAIN alerts', NEW k \in DOMAIN alerts', i < k,
                   None \notin {alerts'[i].student, alerts'[i].period},
                   alerts'[k].kind = alerts'[i].kind,
                   alerts'[k].period = alerts'[i].period,
                   alerts'[k].student = alerts'[i].student,
                   alerts'[i].date = alerts'[k].date
            PROVE  alerts'[k].raced \/ alerts'[i].created < UtcMidnight(alerts'[i].date)
        <4>1. i \in DOMAIN alerts
          BY <2>8, <2>9, <3>1 DEF last
        <4>2. CASE k \in DOMAIN alerts
          BY <2>8, <3>1, <4>1, <4>2 DEF AlertsInvariant, DuplicatesExplained, Same
        <4>3. CASE k = last
          <5>1. /\ alerts'[k] = new /\ alerts'[i] = alerts[i]
                /\ Same(alerts[i], kind, p, s) /\ alerts[i].date = LocalDate(job[j].now)
                /\ None \notin {alerts[i].student, alerts[i].period}
            BY <2>7, <2>8, <3>1, <4>1, <4>3 DEF Same
          <5>2. job[j].raced \/ alerts[i].created < UtcMidnight(alerts[i].date)
            BY <1>1, <1>3, <4>1, <5>1 DEF Ready
          <5> QED BY <2>7, <5>1, <5>2
        <4> QED BY <2>9, <4>2, <4>3
      <3> QED BY <3>1 DEF DuplicatesExplained, Same
    <2> QED BY <2>12, <2>13, <2>14, <2>15, <2>16, <2>17, <2>18, <2>19 DEF AlertsInvariant
  <1> QED BY <1>5, <1>6

-----------------------------------------------------------------------------
(* Steps of time, dashboards and requests that only read.                  *)

RequestTyped(r) ==
    /\ r.pc \in {"idle", "ack", "resolve", "create", "update"}
    /\ r.pc = "create" => r.period \in Timetables
    /\ r.pc = "update" => r.id \in PeriodIds /\ Fitting(r.change)
Requests ==
    /\ admin = [a \in Admins |-> admin[a]]
    /\ \A a \in Admins : RequestTyped(admin[a])

(* An administrator's request begins or ends.                              *)
LEMMA Asked ==
    ASSUME Typed, NEW a \in Admins, NEW r, RequestTyped(r), admin' = [admin EXCEPT ![a] = r]
    PROVE  Requests'
  <1>1. admin = [b \in Admins |-> admin[b]] /\ \A b \in Admins : RequestTyped(admin[b])
    BY DEF Typed, RequestTyped
  <1>2. admin' = [b \in Admins |-> IF b = a THEN r ELSE admin[b]]
    BY <1>1
  <1>3. ASSUME NEW b \in Admins PROVE RequestTyped(admin'[b])
    BY <1>1, <1>2
  <1> QED BY <1>2, <1>3 DEF Requests, RequestTyped

(* No request is one that reads nothing of the alerts.                     *)
LEMMA RestingTyped == RequestTyped(Resting) /\ Resting.pc \notin {"ack", "resolve"}
  BY DEF RequestTyped, Resting

(* What the requests have seen is still there.                             *)
LEMMA StampsKept ==
    ASSUME Typed, ReadStamps, NEW a \in Admins, NEW r, admin' = [admin EXCEPT ![a] = r],
           DOMAIN alerts' = DOMAIN alerts,
           \A i \in DOMAIN alerts : alerts[i].acked # None => alerts'[i].acked # None,
           r.pc \in {"ack", "resolve"} => r.alert \in DOMAIN alerts,
           r.pc = "resolve" /\ r.acked # None => alerts[r.alert].acked # None
    PROVE  ReadStamps'
  <1>1. admin' = [b \in Admins |-> IF b = a THEN r ELSE admin[b]]
    BY DEF Typed
  <1>2. ASSUME NEW b \in Admins
        PROVE  /\ admin'[b].pc \in {"ack", "resolve"} => admin'[b].alert \in DOMAIN alerts'
               /\ admin'[b].pc = "resolve" /\ admin'[b].acked # None
                    => alerts'[admin'[b].alert].acked # None
    <2>1. CASE b = a
      BY <1>1, <2>1
    <2>2. CASE b # a
      <3>1. admin'[b] = admin[b]
        BY <1>1, <2>2
      <3> QED BY <3>1 DEF ReadStamps
    <2> QED BY <2>1, <2>2
  <1> QED BY <1>2 DEF ReadStamps

(* Timetable, sessions, alerts and runs stay as they are.                  *)
LEMMA StillKeeps ==
    ASSUME AlertsInvariant, UNCHANGED <<enrolled, periods, edited, sessions, alerts, job>>,
           now' \in 0 .. MaxTime, now <= now', ops' \in 0 .. MaxOps,
           Requests', ReadStamps'
    PROVE  AlertsInvariant'
  <1>1. SessionsKept /\ AlertsKept
    BY SameKept DEF AlertsInvariant
  <1>2. ReadyRuns' /\ AbsentExplained' /\ DuplicatesExplained'
    BY <1>1, QuietKept
  <1>3. Typed'
    BY DEF AlertsInvariant, Typed, Requests, RequestTyped
  <1>4. References'
    <2>1. /\ \A i \in DOMAIN sessions : sessions[i].entry \in Nat
          /\ \A i \in DOMAIN alerts : alerts[i].created \in Nat
          /\ now \in Nat /\ now' \in Nat
      BY RowFields, Constants DEF AlertsInvariant, Typed
    <2>2. /\ \A i \in DOMAIN sessions : sessions[i].entry <= now'
          /\ \A i \in DOMAIN alerts : alerts[i].created <= now'
      BY <2>1 DEF AlertsInvariant, References
    <2> QED BY <2>2 DEF AlertsInvariant, References
  <1>5. ResolvedAcked'
    BY DEF AlertsInvariant, ResolvedAcked
  <1>6. PeriodsSound'
    BY DEF AlertsInvariant, PeriodsSound, Fits
  <1> QED BY <1>2, <1>3, <1>4, <1>5, <1>6 DEF AlertsInvariant

(* Time passes.                                                            *)
LEMMA TickKeeps ==
    ASSUME AlertsInvariant, Tick
    PROVE  AlertsInvariant'
  <1>1. now' \in 0 .. MaxTime /\ now <= now'
    BY Constants DEF Tick, AlertsInvariant, Typed
  <1>2. Requests' /\ ReadStamps' /\ ops' \in 0 .. MaxOps
    BY DEF Tick, AlertsInvariant, Typed, Requests, RequestTyped, ReadStamps
  <1> QED BY <1>1, <1>2, StillKeeps DEF Tick

(* A dashboard opens, goes on or closes.                                   *)
LEMMA WatchKeeps ==
    ASSUME AlertsInvariant, NEW c \in Clients, Watch(c)
    PROVE  AlertsInvariant'
  <1>1. UNCHANGED <<now, enrolled, periods, edited, sessions, alerts, job, admin>>
    BY DEF Watch
  <1>2. now' \in 0 .. MaxTime /\ now <= now' /\ ops' \in 0 .. MaxOps
    BY <1>1, Constants DEF Watch, Counted, AlertsInvariant, Typed
  <1>3. Requests' /\ ReadStamps'
    BY <1>1 DEF AlertsInvariant, Typed, Requests, RequestTyped, ReadStamps
  <1> QED BY <1>1, <1>2, <1>3, StillKeeps

(* A request has read what it needs.                                       *)
LEMMA AskKeeps ==
    ASSUME AlertsInvariant, NEW a \in Admins, NEW r, Ask(a, r), RequestTyped(r),
           r.pc \in {"ack", "resolve"} => r.alert \in DOMAIN alerts,
           r.pc = "resolve" /\ r.acked # None => alerts[r.alert].acked # None
    PROVE  AlertsInvariant'
  <1>1. UNCHANGED <<now, enrolled, periods, edited, sessions, alerts, job>>
        /\ admin' = [admin EXCEPT ![a] = r]
    BY DEF Ask
  <1>2. now' \in 0 .. MaxTime /\ now <= now' /\ ops' \in 0 .. MaxOps
    BY <1>1, Constants DEF Ask, Counted, AlertsInvariant, Typed
  <1>3. Requests'
    BY <1>1, Asked DEF AlertsInvariant
  <1>4. ReadStamps'
    BY <1>1, StampsKept DEF AlertsInvariant
  <1> QED BY <1>1, <1>2, <1>3, <1>4, StillKeeps

(* An acknowledgement or a resolution has read its alert.                  *)
LEMMA StampReadsKeep ==
    ASSUME AlertsInvariant, NEW a \in Admins, AckRead(a) \/ ResolveRead(a)
    PROVE  AlertsInvariant'
  <1>1. CASE AckRead(a)
    <2>1. PICK i \in DOMAIN alerts : Ask(a, [pc |-> "ack", alert |-> i])
      BY <1>1 DEF AckRead
    <2> DEFINE r == [pc |-> "ack", alert |-> i]
    <2>2. r.pc = "ack" /\ r.alert = i /\ RequestTyped(r)
      BY DEF RequestTyped
    <2>3. Ask(a, r)
      BY <2>1
    <2> HIDE DEF r
    <2> QED BY <2>2, <2>3, AskKeeps
  <1>2. CASE ResolveRead(a)
    <2>1. PICK i \in DOMAIN alerts :
            Ask(a, [pc |-> "resolve", alert |-> i, acked |-> alerts[i].acked])
      BY <1>2 DEF ResolveRead
    <2>2. PICK stamp : stamp = alerts[i].acked
      OBVIOUS
    <2> DEFINE r == [pc |-> "resolve", alert |-> i, acked |-> stamp]
    <2>3. r.pc = "resolve" /\ r.alert = i /\ r.acked = stamp /\ RequestTyped(r)
      BY DEF RequestTyped
    <2>4. Ask(a, r)
      BY <2>1, <2>2
    <2> HIDE DEF r
    <2> QED BY <2>2, <2>3, <2>4, AskKeeps
  <1> QED BY <1>1, <1>2

(* A change that suits the periods administrators write suits every period.*)
LEMMA ChangesFit ==
    ASSUME NEW p \in Period, NEW change \in Changes, Timetables # {}, NEW F
    PROVE  Fitting(Restrict(change, {f \in DOMAIN change : f \in F}))
  <1> DEFINE Fields == {"name", "start", "end", "days", "section"}
             less == Restrict(change, {f \in DOMAIN change : f \in F})
             Right(f, v) == /\ f = "name" => v \in STRING
                            /\ f = "start" => v \in 0 .. DayLength - 1
                            /\ f = "end" => v \in 0 .. DayLength
                            /\ f = "days" => v \in SUBSET (0 .. WeekLength - 1)
                            /\ f = "section" => v \in Sections \cup {Anyone}
  <1>1. PICK model \in Timetables : TRUE
    OBVIOUS
  <1>2. model \in Period /\ Changed(model, change) \in Period
    BY AlertsAssumption
  <1>3. DOMAIN model = Fields
    BY <1>2 DEF Period
  <1>4. ASSUME NEW f \in Fields \cap DOMAIN change PROVE Right(f, change[f])
    <2>1. Changed(model, change)[f] = change[f]
      BY <1>3 DEF Changed
    <2>2. \A x \in Period : Right(f, x[f])
      BY DEF Period
    <2> HIDE DEF Right
    <2> QED BY <1>2, <2>1, <2>2
  <1>5. \A f \in DOMAIN less : f \in DOMAIN change /\ less[f] = change[f]
    BY DEF Restrict
  <1> HIDE DEF less
  <1>6. ASSUME NEW period \in Period PROVE Changed(period, less) \in Period
    <2> DEFINE pick(f) == IF f \in DOMAIN less THEN less[f] ELSE period[f]
               q == [name |-> pick("name"), start |-> pick("start"), end |-> pick("end"),
                     days |-> pick("days"), section |-> pick("section")]
    <2>1. DOMAIN period = Fields
      BY DEF Period
    <2>2. \A f \in Fields : Right(f, pick(f))
      <3>1. \A f \in Fields : Right(f, period[f])
        BY DEF Period
      <3> HIDE DEF Right, Fields
      <3> QED BY <1>4, <1>5, <3>1
    <2>3. \A f \in Fields : q[f] = pick(f)
      OBVIOUS
    <2>4. Changed(period, less) = [f \in Fields |-> pick(f)]
      BY <2>1 DEF Changed
    <2>5. q = [f \in Fields |-> pick(f)]
      OBVIOUS
    <2>6. pick("name") \in STRING /\ pick("start") \in 0 .. DayLength - 1 /\ pick("end") \in 0 .. DayLength
      BY <2>2
    <2>7. pick("days") \in SUBSET (0 .. WeekLength - 1) /\ pick("section") \in Sections \cup {Anyone}
      BY <2>2
    <2> HIDE DEF pick
    <2>8. q \in Period
      BY <2>6, <2>7 DEF Period
    <2> HIDE DEF q
    <2> QED BY <2>4, <2>5, <2>8
  <1> QED BY <1>6 DEF Fitting, less

(* A creation or a change has read the timetable.                          *)
LEMMA TimetableReadsKeep ==
    ASSUME AlertsInvariant, NEW a \in Admins, CreateRead(a) \/ UpdateRead(a)
    PROVE  AlertsInvariant'
  <1>1. CASE CreateRead(a)
    <2>1. PICK period \in Timetables : Ask(a, [pc |-> "create", period |-> period])
      BY <1>1 DEF CreateRead
    <2> DEFINE r == [pc |-> "create", period |-> period]
    <2>2. r.pc = "create" /\ RequestTyped(r)
      BY DEF RequestTyped
    <2>3. Ask(a, r)
      BY <2>1
    <2> HIDE DEF r
    <2> QED BY <2>2, <2>3, AskKeeps
  <1>2. CASE UpdateRead(a)
    <2>1. PICK p \in DOMAIN periods, change \in Changes :
            Ask(a, [pc |-> "update", id |-> p,
                    change |-> Restrict(change, {f \in DOMAIN change : change[f] # periods[p][f]})])
      BY <1>2 DEF UpdateRead
    <2>2. PICK F : F = {f \in DOMAIN change : change[f] # periods[p][f]}
      OBVIOUS
    <2>3. PICK new : new = Restrict(change, F)
      OBVIOUS
    <2>4. F = {f \in DOMAIN change : f \in F}
      BY <2>2
    <2>5. Fitting(new)
      <3>1. periods[p] \in Period /\ Timetables # {}
        BY DEF AlertsInvariant, Typed
      <3>2. new = Restrict(change, {f \in DOMAIN change : f \in F})
        BY <2>3, <2>4
      <3> QED BY <3>1, <3>2, ChangesFit
    <2> DEFINE r == [pc |-> "update", id |-> p, change |-> new]
    <2>6. r.pc = "update" /\ RequestTyped(r)
      BY <2>5 DEF RequestTyped, AlertsInvariant, Typed
    <2>7. Ask(a, r)
      BY <2>1, <2>2, <2>3
    <2> HIDE DEF r
    <2> QED BY <2>6, <2>7, AskKeeps
  <1> QED BY <1>1, <1>2

-----------------------------------------------------------------------------
(* Commits.                                                                *)

(* A stamp is set.                                                         *)
LEMMA StampKeeps ==
    ASSUME AlertsInvariant, NEW a \in Admins, NEW n \in DOMAIN alerts,
           UNCHANGED <<now, enrolled, periods, edited, sessions, job, ops>>,
           admin' = [admin EXCEPT ![a] = Resting],
           NEW acked \in Nat \cup {None}, NEW resolved \in Nat \cup {None},
           alerts' = [alerts EXCEPT ![n] = [alerts[n] EXCEPT !.acked = acked, !.resolved = resolved]],
           alerts[n].acked # None => acked # None,
           resolved # None => acked # None,
           acked \in {now, alerts[n].acked} /\ resolved \in {now, alerts[n].resolved}
    PROVE  AlertsInvariant'
  <1>1. /\ DOMAIN alerts = 1 .. Len(alerts) /\ alerts \in Seq(AlertRows)
        /\ \A i \in DOMAIN alerts : alerts[i] \in AlertRows
        /\ DOMAIN sessions = 1 .. Len(sessions)
    BY RowFields DEF AlertsInvariant, Typed
  <1>2. PICK row : row = [alerts[n] EXCEPT !.acked = acked, !.resolved = resolved]
    OBVIOUS
  <1>3. /\ row \in AlertRows /\ row.acked = acked /\ row.resolved = resolved
        /\ row.kind = alerts[n].kind /\ row.student = alerts[n].student
        /\ row.period = alerts[n].period /\ row.date = alerts[n].date
        /\ row.created = alerts[n].created /\ row.raced = alerts[n].raced
        /\ row.looked = alerts[n].looked
    BY <1>1, <1>2 DEF AlertRows
  <1>4. alerts' = [i \in DOMAIN alerts |-> IF i = n THEN row ELSE alerts[i]]
    BY <1>1, <1>2
  <1>5. \A i \in DOMAIN alerts : alerts'[i] = IF i = n THEN row ELSE alerts[i]
    BY <1>4
  <1>6. alerts' \in Seq(AlertRows) /\ DOMAIN alerts' = DOMAIN alerts
    <2>1. PICK t : t = alerts'
      OBVIOUS
    <2>2. t = [i \in DOMAIN alerts |-> t[i]] /\ \A i \in DOMAIN alerts : t[i] \in AlertRows
      BY <1>1, <1>3, <1>4, <2>1
    <2> QED BY <1>1, <2>1, <2>2, Rewritten
  <1>7. AlertsKept
    BY <1>3, <1>5, <1>6 DEF AlertsKept
  <1>8. SessionsKept
    BY SameKept DEF AlertsInvariant
  <1>9. ReadyRuns' /\ AbsentExplained' /\ DuplicatesExplained'
    BY <1>7, <1>8, QuietKept
  <1>10. Requests'
    BY Asked, RestingTyped DEF AlertsInvariant
  <1>11. Typed'
    BY <1>6, <1>10 DEF AlertsInvariant, Typed, Requests, RequestTyped
  <1>12. References'
    BY <1>3, <1>5, <1>6 DEF AlertsInvariant, References
  <1>13. ReadStamps'
    <2>1. \A i \in DOMAIN alerts : alerts[i].acked # None => alerts'[i].acked # None
      BY <1>3, <1>5
    <2>2. PICK r : r = Resting
      OBVIOUS
    <2>3. r.pc \notin {"ack", "resolve"}
      BY <2>2, RestingTyped
    <2> QED BY <1>6, <2>1, <2>2, <2>3, StampsKept DEF AlertsInvariant
  <1>14. ResolvedAcked'
    <2>1. ASSUME NEW i \in DOMAIN alerts
          PROVE  /\ alerts'[i].resolved # None => alerts'[i].acked # None
                 /\ \A stamp \in {alerts'[i].acked, alerts'[i].resolved} :
                        stamp # None => alerts'[i].created <= stamp
      <3>1. CASE i = n
        <4>1. /\ alerts[n].created <= now
              /\ alerts[n].acked # None => alerts[n].created <= alerts[n].acked
              /\ alerts[n].resolved # None => alerts[n].created <= alerts[n].resolved
          BY DEF AlertsInvariant, ResolvedAcked, References
        <4>2. alerts'[i] = row
          BY <1>5, <3>1
        <4>3. row.resolved # None => row.acked # None
          BY <1>3
        <4>4. acked # None => row.created <= acked
          BY <1>3, <4>1
        <4>5. resolved # None => row.created <= resolved
          BY <1>3, <4>1
        <4> QED BY <1>3, <4>2, <4>3, <4>4, <4>5
      <3>2. CASE i # n
        BY <1>5, <3>2 DEF AlertsInvariant, ResolvedAcked
      <3> QED BY <3>1, <3>2
    <2> QED BY <1>6, <2>1 DEF ResolvedAcked
  <1>15. PeriodsSound'
    BY DEF AlertsInvariant, PeriodsSound, Fits
  <1> QED BY <1>9, <1>11, <1>12, <1>13, <1>14, <1>15 DEF AlertsInvariant

(* An alert is acknowledged.                                               *)
LEMMA AckCommitKeeps ==
    ASSUME AlertsInvariant, NEW a \in Admins, AckCommit(a)
    PROVE  AlertsInvariant'
  <1>1. PICK n : n = admin[a].alert
    OBVIOUS
  <1>2. n \in DOMAIN alerts
    BY <1>1 DEF AckCommit, AlertsInvariant, ReadStamps
  <1>3. /\ alerts[n] \in AlertRows /\ alerts[n].resolved \in Nat \cup {None}
        /\ now \in Nat /\ now # None
    BY <1>2, RowFields, Constants DEF AlertsInvariant, Typed
  <1>4. PICK row : row = [alerts[n] EXCEPT !.acked = now, !.resolved = alerts[n].resolved]
    OBVIOUS
  <1>5. row = [alerts[n] EXCEPT !.acked = now]
    BY <1>3, <1>4 DEF AlertRows
  <1>6. alerts' = [alerts EXCEPT ![n] = row]
    BY <1>1, <1>5 DEF AckCommit
  <1>7. UNCHANGED <<now, enrolled, periods, edited, sessions, job, ops>>
        /\ admin' = [admin EXCEPT ![a] = Resting]
    BY DEF AckCommit
  <1>8. PICK acked, resolved : acked = now /\ resolved = alerts[n].resolved
    OBVIOUS
  <1>9. alerts' = [alerts EXCEPT ![n] = [alerts[n] EXCEPT !.acked = acked, !.resolved = resolved]]
    BY <1>4, <1>6, <1>8
  <1> QED BY <1>2, <1>3, <1>7, <1>8, <1>9, StampKeeps

(* An alert is resolved.                                                   *)
LEMMA ResolveCommitKeeps ==
    ASSUME AlertsInvariant, NEW a \in Admins, ResolveCommit(a)
    PROVE  AlertsInvariant'
  <1>1. PICK n : n = admin[a].alert
    OBVIOUS
  <1>2. n \in DOMAIN alerts /\ (admin[a].acked # None => alerts[n].acked # None)
    BY <1>1 DEF ResolveCommit, AlertsInvariant, ReadStamps
  <1>3. /\ alerts[n] \in AlertRows /\ alerts[n].acked \in Nat \cup {None}
        /\ now \in Nat /\ now # None
    BY <1>2, RowFields, Constants DEF AlertsInvariant, Typed
  <1>4. PICK acked : acked = IF admin[a].acked = None THEN now ELSE alerts[n].acked
    OBVIOUS
  <1>5. alerts' = [alerts EXCEPT ![n] = [alerts[n] EXCEPT !.acked = acked, !.resolved = now]]
    <2>1. alerts' = [alerts EXCEPT ![n].resolved = now,
                       ![n].acked = IF admin[a].acked = None THEN now ELSE @]
      BY <1>1 DEF ResolveCommit
    <2>2. alerts = [i \in DOMAIN alerts |-> alerts[i]]
      BY DEF AlertsInvariant, Typed
    <2>3. alerts' = [i \in DOMAIN alerts |->
                        IF i = n THEN [[alerts[n] EXCEPT !.resolved = now] EXCEPT !.acked = acked]
                        ELSE alerts[i]]
      BY <1>2, <1>3, <1>4, <2>1, <2>2 DEF AlertRows
    <2>4. [[alerts[n] EXCEPT !.resolved = now] EXCEPT !.acked = acked]
            = [alerts[n] EXCEPT !.acked = acked, !.resolved = now]
      BY <1>3 DEF AlertRows
    <2> QED BY <2>2, <2>3, <2>4
  <1>6. UNCHANGED <<now, enrolled, periods, edited, sessions, job, ops>>
        /\ admin' = [admin EXCEPT ![a] = Resting]
    BY DEF ResolveCommit
  <1>7. PICK resolved : resolved = now
    OBVIOUS
  <1>8. alerts' = [alerts EXCEPT ![n] = [alerts[n] EXCEPT !.acked = acked, !.resolved = resolved]]
    BY <1>5, <1>7
  <1>9. acked \in Nat \cup {None} /\ acked # None /\ acked \in {now, alerts[n].acked}
    BY <1>2, <1>3, <1>4
  <1> QED BY <1>2, <1>3, <1>6, <1>7, <1>8, <1>9, StampKeeps

(* A period is written: the ids that do not count as edited keep theirs.   *)
LEMMA TimetableKeeps ==
    ASSUME AlertsInvariant, NEW a \in Admins,
           UNCHANGED <<now, enrolled, sessions, alerts, job, ops>>,
           admin' = [admin EXCEPT ![a] = Resting],
           periods' = [p \in DOMAIN periods' |-> periods'[p]],
           DOMAIN periods \subseteq DOMAIN periods', DOMAIN periods' \subseteq PeriodIds,
           Timetables # {},
           edited \subseteq edited', edited' \subseteq PeriodIds,
           \A p \in DOMAIN periods' : periods'[p] \in Period /\ InRange(periods'[p]),
           \A p, q \in DOMAIN periods' : periods'[p].name = periods'[q].name => p = q,
           \A p \in DOMAIN periods \ edited' :
              /\ periods'[p].start = periods[p].start /\ periods'[p].end = periods[p].end
              /\ periods'[p].days = periods[p].days /\ periods'[p].section = periods[p].section
    PROVE  AlertsInvariant'
  <1>1. SessionsKept /\ AlertsKept
    BY SameKept DEF AlertsInvariant
  <1>2. ReadyRuns' /\ AbsentExplained' /\ DuplicatesExplained'
    BY <1>1, QuietKept
  <1>3. Requests'
    BY Asked, RestingTyped DEF AlertsInvariant
  <1>4. Typed'
    BY <1>3 DEF AlertsInvariant, Typed, Requests, RequestTyped
  <1>5. References'
    BY DEF AlertsInvariant, References
  <1>6. ReadStamps'
    <2>1. PICK r : r = Resting
      OBVIOUS
    <2>2. r.pc \notin {"ack", "resolve"}
      BY <2>1, RestingTyped
    <2> QED BY <2>1, <2>2, StampsKept DEF AlertsInvariant
  <1>7. ResolvedAcked'
    BY DEF AlertsInvariant, ResolvedAcked
  <1>8. PeriodsSound'
    <2>1. ASSUME NEW i \in DOMAIN sessions,
                 None \notin {sessions[i].student, sessions[i].period},
                 sessions[i].period \notin edited'
          PROVE  /\ Fits(sessions[i].period, sessions[i].entry, sessions[i].student)'
                 /\ sessions[i].entry < Instant(sessions[i].date, periods'[sessions[i].period].end)
      <3>1. PICK p : p = sessions[i].period
        OBVIOUS
      <3>2. p \in DOMAIN periods /\ p \notin edited
        BY <2>1, <3>1 DEF AlertsInvariant, References
      <3>3. /\ Fits(p, sessions[i].entry, sessions[i].student)
            /\ sessions[i].entry < Instant(sessions[i].date, periods[p].end)
        BY <2>1, <3>1, <3>2 DEF AlertsInvariant, PeriodsSound
      <3>4. /\ periods'[p].start = periods[p].start /\ periods'[p].end = periods[p].end
            /\ periods'[p].days = periods[p].days /\ periods'[p].section = periods[p].section
        BY <2>1, <3>1, <3>2
      <3>5. sessions[i].entry < Instant(sessions[i].date, periods'[p].end)
        BY <3>3, <3>4
      <3> QED BY <3>1, <3>3, <3>4, <3>5 DEF Fits, Meant
    <2> QED BY <2>1 DEF PeriodsSound
  <1> QED BY <1>2, <1>4, <1>5, <1>6, <1>7, <1>8 DEF AlertsInvariant

(* A period is created, unless its name is taken.                          *)
LEMMA CreateCommitKeeps ==
    ASSUME AlertsInvariant, NEW a \in Admins, CreateCommit(a)
    PROVE  AlertsInvariant'
  <1>1. PICK period \in Timetables : period = admin[a].period
    BY DEF CreateCommit, AlertsInvariant, Typed
  <1>2. /\ UNCHANGED <<now, enrolled, edited, sessions, alerts, job, ops>>
        /\ admin' = [admin EXCEPT ![a] = Resting]
    BY DEF CreateCommit
  <1>3. CASE Named(period.name) # {}
    <2>1. UNCHANGED periods
      BY <1>1, <1>3 DEF CreateCommit
    <2>2. Timetables # {}
      BY <1>1
    <2> QED BY <1>2, <2>1, <2>2, TimetableKeeps DEF AlertsInvariant, Typed, PeriodsSound
  <1>4. CASE Named(period.name) = {}
    <2>1. PICK p \in PeriodIds \ (DOMAIN periods \cup edited) :
            periods' = [q \in DOMAIN periods \cup {p} |-> IF q = p THEN period ELSE periods[q]]
      BY <1>1, <1>4 DEF CreateCommit
    <2>2. DOMAIN periods' = DOMAIN periods \cup {p} /\ periods'[p] = period
          /\ \A q \in DOMAIN periods : periods'[q] = periods[q]
      BY <2>1
    <2>3. period \in Period /\ InRange(period)
      BY <1>1, AlertsAssumption
    <2>4. \A q \in DOMAIN periods : periods[q].name # period.name
      BY <1>4 DEF Named
    <2>5. \A q \in DOMAIN periods' : periods'[q] \in Period /\ InRange(periods'[q])
      BY <2>2, <2>3 DEF AlertsInvariant, Typed, PeriodsSound
    <2>6. \A q, r \in DOMAIN periods' : periods'[q].name = periods'[r].name => q = r
      BY <2>2, <2>4 DEF AlertsInvariant, PeriodsSound
    <2>7. DOMAIN periods \subseteq DOMAIN periods' /\ DOMAIN periods' \subseteq PeriodIds
      BY <2>2 DEF AlertsInvariant, Typed
    <2>8. periods' = [q \in DOMAIN periods' |-> periods'[q]]
      BY <2>1
    <2> QED BY <1>1, <1>2, <2>2, <2>5, <2>6, <2>7, <2>8, TimetableKeeps DEF AlertsInvariant, Typed
  <1> QED BY <1>3, <1>4

(* A period is changed, unless the database refuses.                       *)
LEMMA UpdateCommitKeeps ==
    ASSUME AlertsInvariant, NEW a \in Admins, UpdateCommit(a)
    PROVE  AlertsInvariant'
  <1>1. PICK p, change : p = admin[a].id /\ change = admin[a].change
    OBVIOUS
  <1>2. /\ UNCHANGED <<now, enrolled, sessions, alerts, job, ops>>
        /\ admin' = [admin EXCEPT ![a] = Resting]
    BY DEF UpdateCommit
  <1>3. p \in PeriodIds /\ Fitting(change)
    BY <1>1 DEF UpdateCommit, AlertsInvariant, Typed
  <1> DEFINE Accepted == /\ p \in DOMAIN periods
                         /\ "name" \in DOMAIN change => Named(change.name) \subseteq {p}
                         /\ InRange(Changed(periods[p], change))
  <1>4. IF Accepted
        THEN /\ periods' = [periods EXCEPT ![p] = Changed(periods[p], change)]
             /\ edited' = edited \cup (IF DOMAIN change \subseteq {"name"} THEN {} ELSE {p})
        ELSE UNCHANGED <<periods, edited>>
    BY <1>1 DEF UpdateCommit
  <1>5. CASE Accepted
    <2>1. PICK new : new = Changed(periods[p], change)
      OBVIOUS
    <2>2. new \in Period /\ InRange(new) /\ periods[p] \in Period
      BY <1>3, <1>5, <2>1 DEF Fitting, AlertsInvariant, Typed
    <2>3. /\ DOMAIN periods' = DOMAIN periods /\ periods'[p] = new
          /\ \A q \in DOMAIN periods : q # p => periods'[q] = periods[q]
          /\ periods' = [q \in DOMAIN periods' |-> periods'[q]]
      <3>1. periods' = [q \in DOMAIN periods |-> IF q = p THEN new ELSE periods[q]]
        BY <1>4, <1>5, <2>1 DEF AlertsInvariant, Typed
      <3> QED BY <1>5, <3>1
    <2>4. \A f \in DOMAIN periods[p] : new[f] = IF f \in DOMAIN change THEN change[f] ELSE periods[p][f]
      BY <2>1 DEF Changed
    <2>5. DOMAIN periods[p] = {"name", "start", "end", "days", "section"}
      BY <2>2 DEF Period
    <2>6. ASSUME NEW q \in DOMAIN periods, q # p PROVE periods[q].name # new.name
      <3>1. CASE "name" \in DOMAIN change
        <4>1. new.name = change.name
          BY <2>4, <2>5, <3>1
        <4> QED BY <1>5, <2>6, <3>1, <4>1 DEF Named
      <3>2. CASE "name" \notin DOMAIN change
        <4>1. new.name = periods[p].name
          BY <2>4, <2>5, <3>2
        <4> QED BY <1>5, <2>6, <4>1 DEF AlertsInvariant, PeriodsSound
      <3> QED BY <3>1, <3>2
    <2>7. ASSUME DOMAIN change \subseteq {"name"}
          PROVE  /\ new.start = periods[p].start /\ new.end = periods[p].end
                 /\ new.days = periods[p].days /\ new.section = periods[p].section
      BY <2>4, <2>5, <2>7
    <2>8. \A q \in DOMAIN periods' : periods'[q] \in Period /\ InRange(periods'[q])
      BY <2>2, <2>3 DEF AlertsInvariant, Typed, PeriodsSound
    <2>9. \A q, r \in DOMAIN periods' : periods'[q].name = periods'[r].name => q = r
      BY <2>3, <2>6 DEF AlertsInvariant, PeriodsSound
    <2>10. edited \subseteq edited' /\ edited' \subseteq PeriodIds
      BY <1>3, <1>4, <1>5 DEF AlertsInvariant, Typed
    <2>11. \A q \in DOMAIN periods \ edited' :
              /\ periods'[q].start = periods[q].start /\ periods'[q].end = periods[q].end
              /\ periods'[q].days = periods[q].days /\ periods'[q].section = periods[q].section
      <3>1. ASSUME NEW q \in DOMAIN periods \ edited'
            PROVE  /\ periods'[q].start = periods[q].start /\ periods'[q].end = periods[q].end
                   /\ periods'[q].days = periods[q].days /\ periods'[q].section = periods[q].section
        <4>1. CASE q = p
          BY <1>4, <1>5, <2>3, <2>7, <3>1, <4>1
        <4>2. CASE q # p
          BY <2>3, <4>2
        <4> QED BY <4>1, <4>2
      <3> QED BY <3>1
    <2>12. Timetables # {} /\ DOMAIN periods \subseteq PeriodIds
      BY <1>5 DEF AlertsInvariant, Typed
    <2> QED BY <1>2, <2>3, <2>8, <2>9, <2>10, <2>11, <2>12, TimetableKeeps
  <1>6. CASE ~Accepted
    <2>1. UNCHANGED <<periods, edited>>
      BY <1>4, <1>6
    <2>2. Requests'
      BY <1>2, Asked, RestingTyped DEF AlertsInvariant
    <2>3. PICK r : r = Resting
      OBVIOUS
    <2>4. r.pc \notin {"ack", "resolve"}
      BY <2>3, RestingTyped
    <2>5. ReadStamps'
      BY <1>2, <2>3, <2>4, StampsKept DEF AlertsInvariant
    <2>6. now' \in 0 .. MaxTime /\ now <= now' /\ ops' \in 0 .. MaxOps
      BY <1>2, Constants DEF AlertsInvariant, Typed
    <2> QED BY <1>2, <2>1, <2>2, <2>5, <2>6, StillKeeps
  <1> QED BY <1>5, <1>6

-----------------------------------------------------------------------------
(* Deletions.                                                              *)

(* Sessions and alerts lose references to what goes.                       *)
LEMMA UnreferKeeps ==
    ASSUME AlertsInvariant, UNCHANGED <<now, job, admin>>, ops' \in 0 .. MaxOps,
           enrolled' \subseteq enrolled,
           DOMAIN periods' \subseteq DOMAIN periods,
           periods' = [p \in DOMAIN periods' |-> periods[p]],
           edited \subseteq edited', edited' \subseteq PeriodIds,
           sessions' = [i \in DOMAIN sessions |-> sessions'[i]],
           alerts' = [i \in DOMAIN alerts |-> alerts'[i]],
           \A i \in DOMAIN sessions :
              /\ sessions'[i] \in Rows
              /\ sessions'[i].student \in {sessions[i].student, None} \cap (enrolled' \cup {None})
              /\ sessions'[i].period \in {sessions[i].period, None} \cap (DOMAIN periods' \cup {None})
              /\ sessions'[i].date = sessions[i].date
              /\ sessions'[i].entry = sessions[i].entry
              /\ sessions'[i].exit = sessions[i].exit,
           \A i \in DOMAIN alerts :
              /\ alerts'[i] \in AlertRows
              /\ alerts'[i].student \in {alerts[i].student, None} \cap (enrolled' \cup {None})
              /\ alerts'[i].period \in {alerts[i].period, None} \cap (DOMAIN periods' \cup {None})
              /\ alerts'[i].kind = alerts[i].kind /\ alerts'[i].date = alerts[i].date
              /\ alerts'[i].created = alerts[i].created /\ alerts'[i].raced = alerts[i].raced
              /\ alerts'[i].looked = alerts[i].looked
              /\ alerts'[i].acked = alerts[i].acked /\ alerts'[i].resolved = alerts[i].resolved
    PROVE  AlertsInvariant'
  <1>1. /\ sessions' \in Seq(Rows) /\ Len(sessions') = Len(sessions)
        /\ DOMAIN sessions' = DOMAIN sessions
        /\ DOMAIN sessions = 1 .. Len(sessions) /\ Len(sessions) \in Nat
    <2>1. PICK t : t = sessions'
      OBVIOUS
    <2>2. t = [i \in DOMAIN sessions |-> t[i]] /\ \A i \in DOMAIN sessions : t[i] \in Rows
      BY <2>1
    <2>3. sessions \in Seq(Rows)
      BY DEF AlertsInvariant, Typed
    <2> QED BY <2>1, <2>2, <2>3, Rewritten
  <1>2. alerts' \in Seq(AlertRows) /\ DOMAIN alerts' = DOMAIN alerts
    <2>1. PICK t : t = alerts'
      OBVIOUS
    <2>2. t = [i \in DOMAIN alerts |-> t[i]] /\ \A i \in DOMAIN alerts : t[i] \in AlertRows
      BY <2>1
    <2>3. alerts \in Seq(AlertRows)
      BY DEF AlertsInvariant, Typed
    <2> QED BY <2>1, <2>2, <2>3, Rewritten
  <1>3. SessionsKept
    BY <1>1 DEF SessionsKept
  <1>4. AlertsKept
    BY <1>2 DEF AlertsKept
  <1>5. ReadyRuns' /\ AbsentExplained' /\ DuplicatesExplained'
    BY <1>3, <1>4, QuietKept
  <1>6. Typed'
    BY <1>1, <1>2 DEF AlertsInvariant, Typed
  <1>7. References'
    BY <1>1, <1>2 DEF AlertsInvariant, References
  <1>8. ReadStamps'
    BY <1>2 DEF AlertsInvariant, ReadStamps
  <1>9. ResolvedAcked'
    BY <1>2 DEF AlertsInvariant, ResolvedAcked
  <1>10. PeriodsSound'
    <2>1. \A p \in DOMAIN periods' : periods'[p] = periods[p]
      OBVIOUS
    <2>2. ASSUME NEW i \in DOMAIN sessions',
                 None \notin {sessions'[i].student, sessions'[i].period},
                 sessions'[i].period \notin edited'
          PROVE  /\ Fits(sessions[i].period, sessions[i].entry, sessions[i].student)'
                 /\ sessions'[i].student = sessions[i].student
                 /\ sessions'[i].entry < Instant(sessions'[i].date, periods'[sessions'[i].period].end)
      <3>1. PICK p : p = sessions'[i].period
        OBVIOUS
      <3>2. /\ i \in DOMAIN sessions /\ p \in DOMAIN periods' /\ p \notin edited
            /\ p = sessions[i].period /\ sessions'[i].student = sessions[i].student
        BY <1>1, <2>2, <3>1
      <3>3. /\ Fits(p, sessions[i].entry, sessions[i].student)
            /\ sessions[i].entry < Instant(sessions[i].date, periods[p].end)
        BY <2>2, <3>2 DEF AlertsInvariant, PeriodsSound
      <3>4. periods'[p] = periods[p] /\ sessions'[i].entry = sessions[i].entry
            /\ sessions'[i].date = sessions[i].date
        BY <2>1, <3>2
      <3> QED BY <3>1, <3>2, <3>3, <3>4 DEF Fits, Meant
    <2>3. ASSUME NEW p \in DOMAIN periods', NEW q \in DOMAIN periods',
                 periods'[p].name = periods'[q].name
          PROVE  p = q
      BY <2>1, <2>3 DEF AlertsInvariant, PeriodsSound
    <2>4. \A p \in DOMAIN periods' : InRange(periods'[p])
      BY <2>1 DEF AlertsInvariant, PeriodsSound
    <2> QED BY <2>2, <2>3, <2>4 DEF PeriodsSound, Fits, Meant
  <1> QED BY <1>5, <1>6, <1>7, <1>8, <1>9, <1>10 DEF AlertsInvariant

(* A session can lose its references.                                      *)
LEMMA SessionUnreferred ==
    ASSUME NEW x \in Rows, NEW y
    PROVE  /\ y = [x EXCEPT !.period = None] => y.period = None /\ y.student = x.student
           /\ y = [x EXCEPT !.student = None] => y.student = None /\ y.period = x.period
           /\ (y = [x EXCEPT !.period = None] \/ y = [x EXCEPT !.student = None]) =>
                y \in Rows /\ y.date = x.date /\ y.entry = x.entry /\ y.exit = x.exit
  BY DEF Rows

(* So can an alert.                                                        *)
LEMMA AlertUnreferred ==
    ASSUME NEW x \in AlertRows, NEW y
    PROVE  /\ y = [x EXCEPT !.period = None] => y.period = None /\ y.student = x.student
           /\ y = [x EXCEPT !.student = None] => y.student = None /\ y.period = x.period
           /\ (y = [x EXCEPT !.period = None] \/ y = [x EXCEPT !.student = None]) =>
                /\ y \in AlertRows /\ y.kind = x.kind /\ y.date = x.date /\ y.created = x.created
                /\ y.raced = x.raced /\ y.looked = x.looked
                /\ y.acked = x.acked /\ y.resolved = x.resolved
  BY DEF AlertRows

(* A period is deleted.                                                    *)
LEMMA DeletePeriodKeeps ==
    ASSUME AlertsInvariant, NEW p \in PeriodIds, DeletePeriod(p)
    PROVE  AlertsInvariant'
  <1>1. /\ UNCHANGED <<now, enrolled, job, admin>> /\ ops' \in 0 .. MaxOps
        /\ edited' = edited \cup {p} /\ edited' \subseteq PeriodIds
    BY Constants DEF DeletePeriod, Counted, AlertsInvariant, Typed
  <1>2. periods' = [q \in DOMAIN periods \ {p} |-> periods[q]]
    BY DEF DeletePeriod
  <1>3. DOMAIN periods' = DOMAIN periods \ {p}
    BY <1>2
  <1>4. /\ sessions' = [i \in DOMAIN sessions |->
            IF sessions[i].period = p THEN [sessions[i] EXCEPT !.period = None] ELSE sessions[i]]
        /\ alerts' = [i \in DOMAIN alerts |->
            IF alerts[i].period = p THEN [alerts[i] EXCEPT !.period = None] ELSE alerts[i]]
    BY DEF DeletePeriod
  <1>5. /\ \A i \in DOMAIN sessions : sessions[i] \in Rows
        /\ \A i \in DOMAIN alerts : alerts[i] \in AlertRows
    BY RowFields DEF AlertsInvariant
  <1>6. /\ \A i \in DOMAIN sessions :
            /\ sessions[i].student \in enrolled \cup {None}
            /\ sessions[i].period \in DOMAIN periods \cup {None}
        /\ \A i \in DOMAIN alerts :
            /\ alerts[i].student \in enrolled \cup {None}
            /\ alerts[i].period \in DOMAIN periods \cup {None}
    BY DEF AlertsInvariant, References
  <1>7. ASSUME NEW i \in DOMAIN sessions
        PROVE  /\ sessions'[i] \in Rows
               /\ sessions'[i].student \in {sessions[i].student, None} \cap (enrolled' \cup {None})
               /\ sessions'[i].period \in {sessions[i].period, None} \cap (DOMAIN periods' \cup {None})
               /\ sessions'[i].date = sessions[i].date
               /\ sessions'[i].entry = sessions[i].entry
               /\ sessions'[i].exit = sessions[i].exit
    <2>1. CASE sessions[i].period = p
      <3>1. sessions'[i] = [sessions[i] EXCEPT !.period = None]
        BY <1>4, <2>1
      <3>2. PICK x, y : x = sessions[i] /\ y = sessions'[i]
        OBVIOUS
      <3> QED BY <1>1, <1>3, <1>5, <1>6, <2>1, <3>1, <3>2, SessionUnreferred
    <2>2. CASE sessions[i].period # p
      <3>1. sessions'[i] = sessions[i]
        BY <1>4, <2>2
      <3> QED BY <1>1, <1>3, <1>5, <1>6, <2>2, <3>1
    <2> QED BY <2>1, <2>2
  <1>8. ASSUME NEW i \in DOMAIN alerts
        PROVE  /\ alerts'[i] \in AlertRows
               /\ alerts'[i].student \in {alerts[i].student, None} \cap (enrolled' \cup {None})
               /\ alerts'[i].period \in {alerts[i].period, None} \cap (DOMAIN periods' \cup {None})
               /\ alerts'[i].kind = alerts[i].kind /\ alerts'[i].date = alerts[i].date
               /\ alerts'[i].created = alerts[i].created /\ alerts'[i].raced = alerts[i].raced
               /\ alerts'[i].looked = alerts[i].looked
               /\ alerts'[i].acked = alerts[i].acked /\ alerts'[i].resolved = alerts[i].resolved
    <2>1. CASE alerts[i].period = p
      <3>1. alerts'[i] = [alerts[i] EXCEPT !.period = None]
        BY <1>4, <2>1
      <3>2. PICK x, y : x = alerts[i] /\ y = alerts'[i]
        OBVIOUS
      <3> QED BY <1>1, <1>3, <1>5, <1>6, <2>1, <3>1, <3>2, AlertUnreferred
    <2>2. CASE alerts[i].period # p
      <3>1. alerts'[i] = alerts[i]
        BY <1>4, <2>2
      <3> QED BY <1>1, <1>3, <1>5, <1>6, <2>2, <3>1
    <2> QED BY <2>1, <2>2
  <1>9. periods' = [q \in DOMAIN periods' |-> periods[q]]
    BY <1>2, <1>3
  <1>10. /\ sessions' = [i \in DOMAIN sessions |-> sessions'[i]]
         /\ alerts' = [i \in DOMAIN alerts |-> alerts'[i]]
    BY <1>4
  <1>11. enrolled' \subseteq enrolled /\ DOMAIN periods' \subseteq DOMAIN periods
         /\ edited \subseteq edited'
    BY <1>1, <1>3
  <1> QED BY <1>1, <1>7, <1>8, <1>9, <1>10, <1>11, UnreferKeeps

(* A student is deleted.                                                   *)
LEMMA DeleteStudentKeeps ==
    ASSUME AlertsInvariant, NEW s \in Students, DeleteStudent(s)
    PROVE  AlertsInvariant'
  <1>1. /\ UNCHANGED <<now, periods, edited, job, admin>> /\ ops' \in 0 .. MaxOps
        /\ enrolled' = enrolled \ {s} /\ edited' \subseteq PeriodIds
    BY Constants DEF DeleteStudent, Counted, AlertsInvariant, Typed
  <1>2. /\ sessions' = [i \in DOMAIN sessions |->
            IF sessions[i].student = s THEN [sessions[i] EXCEPT !.student = None] ELSE sessions[i]]
        /\ alerts' = [i \in DOMAIN alerts |->
            IF alerts[i].student = s THEN [alerts[i] EXCEPT !.student = None] ELSE alerts[i]]
    BY DEF DeleteStudent
  <1>3. /\ \A i \in DOMAIN sessions : sessions[i] \in Rows
        /\ \A i \in DOMAIN alerts : alerts[i] \in AlertRows
    BY RowFields DEF AlertsInvariant
  <1>4. /\ \A i \in DOMAIN sessions :
            /\ sessions[i].student \in enrolled \cup {None}
            /\ sessions[i].period \in DOMAIN periods \cup {None}
        /\ \A i \in DOMAIN alerts :
            /\ alerts[i].student \in enrolled \cup {None}
            /\ alerts[i].period \in DOMAIN periods \cup {None}
    BY DEF AlertsInvariant, References
  <1>5. ASSUME NEW i \in DOMAIN sessions
        PROVE  /\ sessions'[i] \in Rows
               /\ sessions'[i].student \in {sessions[i].student, None} \cap (enrolled' \cup {None})
               /\ sessions'[i].period \in {sessions[i].period, None} \cap (DOMAIN periods' \cup {None})
               /\ sessions'[i].date = sessions[i].date
               /\ sessions'[i].entry = sessions[i].entry
               /\ sessions'[i].exit = sessions[i].exit
    <2>1. CASE sessions[i].student = s
      <3>1. sessions'[i] = [sessions[i] EXCEPT !.student = None]
        BY <1>2, <2>1
      <3>2. PICK x, y : x = sessions[i] /\ y = sessions'[i]
        OBVIOUS
      <3> QED BY <1>1, <1>3, <1>4, <2>1, <3>1, <3>2, SessionUnreferred
    <2>2. CASE sessions[i].student # s
      <3>1. sessions'[i] = sessions[i]
        BY <1>2, <2>2
      <3> QED BY <1>1, <1>3, <1>4, <2>2, <3>1
    <2> QED BY <2>1, <2>2
  <1>6. ASSUME NEW i \in DOMAIN alerts
        PROVE  /\ alerts'[i] \in AlertRows
               /\ alerts'[i].student \in {alerts[i].student, None} \cap (enrolled' \cup {None})
               /\ alerts'[i].period \in {alerts[i].period, None} \cap (DOMAIN periods' \cup {None})
               /\ alerts'[i].kind = alerts[i].kind /\ alerts'[i].date = alerts[i].date
               /\ alerts'[i].created = alerts[i].created /\ alerts'[i].raced = alerts[i].raced
               /\ alerts'[i].looked = alerts[i].looked
               /\ alerts'[i].acked = alerts[i].acked /\ alerts'[i].resolved = alerts[i].resolved
    <2>1. CASE alerts[i].student = s
      <3>1. alerts'[i] = [alerts[i] EXCEPT !.student = None]
        BY <1>2, <2>1
      <3>2. PICK x, y : x = alerts[i] /\ y = alerts'[i]
        OBVIOUS
      <3> QED BY <1>1, <1>3, <1>4, <2>1, <3>1, <3>2, AlertUnreferred
    <2>2. CASE alerts[i].student # s
      <3>1. alerts'[i] = alerts[i]
        BY <1>2, <2>2
      <3> QED BY <1>1, <1>3, <1>4, <2>2, <3>1
    <2> QED BY <2>1, <2>2
  <1>7. periods' = [q \in DOMAIN periods' |-> periods[q]]
    BY <1>1 DEF AlertsInvariant, Typed
  <1>8. /\ sessions' = [i \in DOMAIN sessions |-> sessions'[i]]
        /\ alerts' = [i \in DOMAIN alerts |-> alerts'[i]]
    BY <1>2
  <1>9. enrolled' \subseteq enrolled /\ DOMAIN periods' \subseteq DOMAIN periods
        /\ edited \subseteq edited'
    BY <1>1
  <1> QED BY <1>1, <1>5, <1>6, <1>7, <1>8, <1>9, UnreferKeeps

-----------------------------------------------------------------------------
(* Sightings.                                                              *)

(* What holds of every session.                                            *)
RowSound(x) ==
    /\ x.student \in enrolled \cup {None}
    /\ x.period \in DOMAIN periods \cup {None}
    /\ x.entry <= now
    /\ x.exit = None \/ x.entry <= x.exit
    /\ None \notin {x.student, x.period} /\ x.period \notin edited =>
        /\ Fits(x.period, x.entry, x.student)
        /\ x.entry < Instant(x.date, periods[x.period].end)

(* It does hold of every session.                                          *)
LEMMA AllSound ==
    ASSUME AlertsInvariant
    PROVE  \A i \in DOMAIN sessions : RowSound(sessions[i])
  BY DEF AlertsInvariant, References, PeriodsSound, RowSound

(* A step of the sessions alone.                                           *)
LEMMA SessionsStep ==
    ASSUME AlertsInvariant, UNCHANGED <<now, enrolled, periods, edited, alerts, job, admin>>,
           ops' \in 0 .. MaxOps, NEW t \in Seq(Rows), sessions' = t, SessionsKept,
           \A i \in DOMAIN t : RowSound(t[i])
    PROVE  AlertsInvariant'
  <1>1. AlertsKept
    BY SameKept DEF AlertsInvariant
  <1>2. ReadyRuns' /\ AbsentExplained' /\ DuplicatesExplained'
    BY <1>1, QuietKept
  <1>3. Typed'
    BY DEF AlertsInvariant, Typed
  <1>4. References'
    <2>1. ASSUME NEW i \in DOMAIN t
          PROVE  /\ t[i].student \in enrolled \cup {None}
                 /\ t[i].period \in DOMAIN periods \cup {None}
                 /\ t[i].entry <= now
                 /\ t[i].exit = None \/ t[i].entry <= t[i].exit
      BY DEF RowSound
    <2>2. ASSUME NEW i \in DOMAIN alerts PROVE alerts[i].looked <= Len(sessions')
      <3>1. alerts[i].looked \in Nat /\ alerts[i].looked <= Len(sessions) /\ Len(sessions) \in Nat
        BY RowFields DEF AlertsInvariant, References
      <3> QED BY <3>1 DEF SessionsKept
    <2> QED BY <2>1, <2>2 DEF AlertsInvariant, References
  <1>5. ReadStamps' /\ ResolvedAcked'
    BY DEF AlertsInvariant, ReadStamps, ResolvedAcked
  <1>6. PeriodsSound'
    <2>1. ASSUME NEW i \in DOMAIN t, None \notin {t[i].student, t[i].period}, t[i].period \notin edited
          PROVE  /\ Fits(t[i].period, t[i].entry, t[i].student)
                 /\ t[i].entry < Instant(t[i].date, periods[t[i].period].end)
      BY <2>1 DEF RowSound
    <2> HIDE DEF Fits
    <2>2. /\ \A p, q \in DOMAIN periods : periods[p].name = periods[q].name => p = q
          /\ \A p \in DOMAIN periods : InRange(periods[p])
      BY DEF AlertsInvariant, PeriodsSound
    <2> QED BY <2>1, <2>2 DEF PeriodsSound, Fits, Meant
  <1> QED BY <1>2, <1>3, <1>4, <1>5, <1>6 DEF AlertsInvariant

(* A student's open sessions are shut.                                     *)
LEMMA ShutAllSound ==
    ASSUME AlertsInvariant, NEW s \in Students, NEW t, t = ShutAll(s, now)
    PROVE  /\ t \in Seq(Rows) /\ Len(t) = Len(sessions) /\ Len(t) \in Nat
           /\ DOMAIN t = DOMAIN sessions /\ DOMAIN t = 1 .. Len(t)
           /\ \A i \in DOMAIN sessions :
                /\ RowSound(t[i])
                /\ t[i].student = sessions[i].student /\ t[i].period = sessions[i].period
                /\ t[i].date = sessions[i].date
  <1>1. \A i \in DOMAIN sessions : sessions[i] \in Rows /\ RowSound(sessions[i])
    BY RowFields, AllSound DEF AlertsInvariant
  <1>2. now \in Nat /\ now # None
    BY Constants DEF AlertsInvariant, Typed
  <1>3. ASSUME NEW i \in DOMAIN sessions
        PROVE  /\ t[i] \in Rows /\ RowSound(t[i])
               /\ t[i].student = sessions[i].student /\ t[i].period = sessions[i].period
               /\ t[i].date = sessions[i].date
    <2>1. CASE IsOpen(i, s)
      <3>1. PICK x \in Rows : x = sessions[i] /\ RowSound(x)
        BY <1>1
      <3>2. PICK y : y = [x EXCEPT !.exit = now]
        OBVIOUS
      <3>3. t[i] = y
        BY <2>1, <3>1, <3>2 DEF ShutAll, Shut
      <3>4. /\ y \in Rows /\ y.student = x.student /\ y.period = x.period /\ y.date = x.date
            /\ y.entry = x.entry /\ y.exit = now
        BY <1>2, <3>2 DEF Rows
      <3>5. RowSound(y)
        BY <3>1, <3>4 DEF RowSound
      <3> QED BY <3>1, <3>3, <3>4, <3>5
    <2>2. CASE ~IsOpen(i, s)
      <3>1. t[i] = sessions[i]
        BY <2>2 DEF ShutAll
      <3> QED BY <1>1, <3>1
    <2> QED BY <2>1, <2>2
  <1>4. t = [i \in DOMAIN sessions |-> t[i]] /\ sessions \in Seq(Rows)
    BY DEF ShutAll, AlertsInvariant, Typed
  <1> QED BY <1>3, <1>4, Rewritten

(* A student leaves.                                                       *)
LEMMA LeaveKeeps ==
    ASSUME AlertsInvariant, NEW s \in Students, Leave(s)
    PROVE  AlertsInvariant'
  <1>1. PICK t : t = ShutAll(s, now)
    OBVIOUS
  <1>2. /\ UNCHANGED <<now, enrolled, periods, edited, alerts, job, admin>> /\ ops' \in 0 .. MaxOps
        /\ sessions' = t
    BY <1>1, Constants DEF Leave, Counted, AlertsInvariant, Typed
  <1>3. /\ t \in Seq(Rows) /\ Len(t) = Len(sessions) /\ Len(t) \in Nat
        /\ DOMAIN t = DOMAIN sessions /\ DOMAIN t = 1 .. Len(t)
        /\ \A i \in DOMAIN sessions :
             /\ RowSound(t[i])
             /\ t[i].student = sessions[i].student /\ t[i].period = sessions[i].period
             /\ t[i].date = sessions[i].date
    BY <1>1, ShutAllSound
  <1>4. SessionsKept
    BY <1>2, <1>3 DEF SessionsKept
  <1> QED BY <1>2, <1>3, <1>4, SessionsStep

(* A student enters, in a period that fits or in none.                     *)
LEMMA EnterKeeps ==
    ASSUME AlertsInvariant, NEW s \in Students, Enter(s)
    PROVE  AlertsInvariant'
  <1>1. PICK t : t = ShutAll(s, now)
    OBVIOUS
  <1>2. PICK p \in MatchingPeriods(now, s) :
            sessions' = Append(t, [student |-> s, period |-> p, date |-> LocalDate(now),
                                   entry |-> now, exit |-> None])
    BY <1>1 DEF Enter
  <1>3. /\ UNCHANGED <<now, enrolled, periods, edited, alerts, job, admin>> /\ ops' \in 0 .. MaxOps
        /\ s \in enrolled
    BY Constants DEF Enter, Counted, AlertsInvariant, Typed
  <1>4. /\ t \in Seq(Rows) /\ Len(t) = Len(sessions) /\ Len(t) \in Nat
        /\ DOMAIN t = DOMAIN sessions /\ DOMAIN t = 1 .. Len(t)
        /\ \A i \in DOMAIN sessions :
             /\ RowSound(t[i])
             /\ t[i].student = sessions[i].student /\ t[i].period = sessions[i].period
             /\ t[i].date = sessions[i].date
    BY <1>1, ShutAllSound
  <1>5. p = None \/ (p \in DOMAIN periods /\ Fits(p, now, s))
    BY <1>2 DEF MatchingPeriods
  <1>6. now \in Nat /\ now \in Int
    BY Constants DEF AlertsInvariant, Typed
  <1>7. LocalDate(now) \in Int
    BY <1>6, Calendar
  <1>8. PICK x : x = [student |-> s, period |-> p, date |-> LocalDate(now), entry |-> now, exit |-> None]
    OBVIOUS
  <1>9. /\ x.student = s /\ x.period = p /\ x.date = LocalDate(now) /\ x.entry = now /\ x.exit = None
        /\ x \in Rows
    <2>1. p \in PeriodIds \cup {None}
      BY <1>5 DEF AlertsInvariant, Typed
    <2> QED BY <1>6, <1>7, <1>8, <2>1 DEF Rows
  <1>10. RowSound(x)
    <2>1. ASSUME p # None
          PROVE  Fits(p, now, s) /\ now < Instant(LocalDate(now), periods[p].end)
      <3>1. p \in DOMAIN periods /\ Fits(p, now, s)
        BY <1>5, <2>1
      <3>2. LocalTime(now) < periods[p].end
        BY <3>1 DEF Fits
      <3>3. periods[p].end \in Int
        <4>1. periods[p] \in Period
          BY <3>1 DEF AlertsInvariant, Typed
        <4>2. periods[p].end \in 0 .. DayLength
          BY <4>1 DEF Period
        <4> QED BY <4>2, Constants
      <3> QED BY <1>6, <3>1, <3>2, <3>3, Calendar
    <2>2. now <= now
      BY <1>6
    <2> QED BY <1>3, <1>5, <1>9, <2>1, <2>2 DEF RowSound
  <1> DEFINE last == Len(t) + 1
  <1>11. PICK u : u = sessions'
    OBVIOUS
  <1>12. /\ u \in Seq(Rows) /\ DOMAIN u = 1 .. last /\ Len(u) = last
         /\ \A i \in DOMAIN t : u[i] = t[i]
         /\ u[last] = x
    <2>1. u = Append(t, x)
      BY <1>2, <1>8, <1>11
    <2>2. /\ u \in Seq(Rows) /\ Len(u) = Len(t) + 1
          /\ \A i \in 1 .. Len(t) : u[i] = t[i]
          /\ u[Len(t) + 1] = x
      BY <1>4, <1>9, <2>1, AppendProperties
    <2>3. DOMAIN u = 1 .. Len(u)
      BY <2>2, LenProperties
    <2> QED BY <1>4, <2>2, <2>3
  <1>13. \A i \in DOMAIN u : RowSound(u[i])
    <2>1. \A i \in DOMAIN u : i \in DOMAIN t \/ i = last
      BY <1>4, <1>12
    <2> HIDE DEF last
    <2>2. ASSUME NEW i \in DOMAIN u PROVE RowSound(u[i])
      <3>1. CASE i \in DOMAIN t
        <4>1. u[i] = t[i] /\ RowSound(t[i])
          BY <1>4, <1>12, <3>1
        <4> QED BY <4>1
      <3>2. CASE i = last
        <4>1. u[i] = x
          BY <1>12, <3>2
        <4> QED BY <1>10, <4>1
      <3> QED BY <2>1, <3>1, <3>2
    <2> QED BY <2>2
  <1>14. SessionsKept
    <2>1. \A k \in DOMAIN sessions : u[k] = t[k]
      BY <1>4, <1>12
    <2>2. Len(u) \in Nat /\ Len(sessions) <= Len(u) /\ DOMAIN u = 1 .. Len(u)
      BY <1>4, <1>12
    <2> QED BY <1>4, <1>11, <2>1, <2>2 DEF SessionsKept
  <1> QED BY <1>3, <1>11, <1>12, <1>13, <1>14, SessionsStep

-----------------------------------------------------------------------------
(* The invariant, and what follows.                                        *)

(* It holds to begin with.                                                 *)
LEMMA InitInvariant ==
    ASSUME Init
    PROVE  AlertsInvariant
  <1>1. DOMAIN sessions = {} /\ DOMAIN alerts = {}
    <2>1. DOMAIN <<>> = {}
      OBVIOUS
    <2> QED BY <2>1 DEF Init
  <1>2. sessions \in Seq(Rows) /\ alerts \in Seq(AlertRows)
    <2>1. <<>> \in Seq(Rows) /\ <<>> \in Seq(AlertRows)
      OBVIOUS
    <2> QED BY <2>1 DEF Init
  <1>3. /\ periods = [p \in DOMAIN periods |-> periods[p]] /\ DOMAIN periods \subseteq PeriodIds
        /\ \A p \in DOMAIN periods : periods[p] \in Timetables
        /\ \A p, q \in DOMAIN periods : periods[p].name = periods[q].name => p = q
    BY AlertsAssumption DEF Init
  <1>4. /\ \A p \in DOMAIN periods : periods[p] \in Period /\ InRange(periods[p])
        /\ DOMAIN periods # {} => Timetables # {}
    BY <1>3, AlertsAssumption
  <1>5. now \in 0 .. MaxTime /\ ops \in 0 .. MaxOps
    BY Constants DEF Init
  <1>6. Resting.pc = "idle"
    BY DEF Resting
  <1>7. Typed
    BY <1>2, <1>3, <1>4, <1>5, <1>6 DEF Typed, Init
  <1>8. References /\ ResolvedAcked /\ AbsentExplained /\ DuplicatesExplained
    BY <1>1 DEF References, ResolvedAcked, AbsentExplained, DuplicatesExplained
  <1>9. ReadStamps /\ ReadyRuns
    BY <1>6 DEF ReadStamps, ReadyRuns, Init
  <1>10. PeriodsSound
    BY <1>1, <1>3, <1>4 DEF PeriodsSound
  <1> QED BY <1>7, <1>8, <1>9, <1>10 DEF AlertsInvariant

(* Every step keeps it.                                                    *)
LEMMA NextKeeps ==
    ASSUME AlertsInvariant, [Next]_vars
    PROVE  AlertsInvariant'
  <1>1. CASE Tick
    BY <1>1, TickKeeps
  <1>2. ASSUME NEW s \in Students, Enter(s) \/ Leave(s) \/ DeleteStudent(s)
        PROVE  AlertsInvariant'
    BY <1>2, EnterKeeps, LeaveKeeps, DeleteStudentKeeps
  <1>3. ASSUME NEW j \in Jobs,
               JobBegin(j) \/ JobPeriod(j) \/ JobStudent(j) \/ JobCheck(j) \/ JobInsert(j)
        PROVE  AlertsInvariant'
    BY <1>3, JobBeginKeeps, JobPeriodKeeps, JobStudentKeeps, JobCheckKeeps, JobInsertKeeps
  <1>4. ASSUME NEW a \in Admins,
               \/ AckRead(a) \/ AckCommit(a) \/ ResolveRead(a) \/ ResolveCommit(a)
               \/ CreateRead(a) \/ CreateCommit(a) \/ UpdateRead(a) \/ UpdateCommit(a)
        PROVE  AlertsInvariant'
    BY <1>4, StampReadsKeep, AckCommitKeeps, ResolveCommitKeeps, TimetableReadsKeep,
       CreateCommitKeeps, UpdateCommitKeeps
  <1>5. ASSUME NEW p \in PeriodIds, DeletePeriod(p)
        PROVE  AlertsInvariant'
    BY <1>5, DeletePeriodKeeps
  <1>6. ASSUME NEW c \in Clients, Watch(c)
        PROVE  AlertsInvariant'
    BY <1>6, WatchKeeps
  <1>7. CASE UNCHANGED vars
    <2>1. UNCHANGED <<now, enrolled, periods, edited, sessions, alerts, job, admin, ops>>
      BY <1>7 DEF vars
    <2>2. now' \in 0 .. MaxTime /\ now <= now' /\ ops' \in 0 .. MaxOps
      BY <2>1, Constants DEF AlertsInvariant, Typed
    <2>3. Requests' /\ ReadStamps'
      BY <2>1 DEF AlertsInvariant, Typed, Requests, RequestTyped, ReadStamps
    <2> QED BY <2>1, <2>2, <2>3, StillKeeps
  <1> QED BY <1>1, <1>2, <1>3, <1>4, <1>5, <1>6, <1>7 DEF Next

(* The inductive invariant of the timetable, the sessions, the runs of the *)
(* deviation job and the alerts: references, stamps and runs are sound.    *)
THEOREM AlertsInvariantHolds == Spec => []AlertsInvariant
  <1>1. Init => AlertsInvariant
    BY InitInvariant
  <1>2. AlertsInvariant /\ [Next]_vars => AlertsInvariant'
    BY NextKeeps
  <1> QED BY <1>1, <1>2, PTL DEF Spec

(* Every variable has its type, and rows refer to students and periods     *)
(* that are there (deletions in students.py and periods.py unrefer them).  *)
THEOREM AlertsTypeCorrect == Spec => []TypeOK
  <1>1. ASSUME AlertsInvariant PROVE TypeOK
    <2>1. ASSUME NEW j \in Jobs PROVE job[j].pc \in {"idle", "period", "student", "check", "insert"}
      <3>1. job[j] \in Runs \/ job[j] = Resting
        BY <1>1 DEF AlertsInvariant, Typed
      <3>2. CASE job[j] \in Runs
        BY <3>2 DEF Runs
      <3>3. CASE job[j] = Resting
        BY <3>3 DEF Resting
      <3> QED BY <3>1, <3>2, <3>3
    <2> QED BY <1>1, <2>1 DEF AlertsInvariant, Typed, References, TypeOK
  <1> QED BY <1>1, AlertsInvariantHolds, PTL

(* However runs of the deviation job overlap, an alert is a second one of  *)
(* its day only when another run raced it or the first dates from before   *)
(* midnight UTC (run_deviation_check, alert_exists_today).                 *)
THEOREM AlertsAreDistinct == Spec => []DuplicatesExplained
  <1>1. AlertsInvariant => DuplicatesExplained
    BY DEF AlertsInvariant
  <1> QED BY <1>1, AlertsInvariantHolds, PTL

(* A session that an absence alert contradicts came after the job asked    *)
(* for that student's sessions (run_deviation_check).                      *)
THEOREM AbsencesAreExplained == Spec => []AbsentExplained
  <1>1. AlertsInvariant => AbsentExplained
    BY DEF AlertsInvariant
  <1> QED BY <1>1, AlertsInvariantHolds, PTL

(* Names stay apart and ranges ordered however requests on the timetable   *)
(* overlap, and a session's period held its entry (match_period).          *)
THEOREM PeriodsStaySound == Spec => []PeriodsSound
  <1>1. AlertsInvariant => PeriodsSound
    BY DEF AlertsInvariant
  <1> QED BY <1>1, AlertsInvariantHolds, PTL

(* A resolved alert is acknowledged, whatever requests overlap             *)
(* (acknowledge_alert, resolve_alert).                                     *)
THEOREM ResolvedAreAcked == Spec => []ResolvedAcked
  <1>1. AlertsInvariant => ResolvedAcked
    BY DEF AlertsInvariant
  <1> QED BY <1>1, AlertsInvariantHolds, PTL

-----------------------------------------------------------------------------
(* The feed: every step publishes an event, moves one dashboard, or leaves *)
(* the feed alone.                                                         *)

(* The least of two.                                                       *)
LEMMA MinOfTwo ==
    ASSUME NEW a \in Int, NEW b \in Int
    PROVE  Min({a, b}) = IF a <= b THEN a ELSE b
  <1>1. PICK m : m = IF a <= b THEN a ELSE b
    OBVIOUS
  <1>2. m \in {a, b} /\ \A y \in {a, b} : m <= y
    BY <1>1
  <1>3. \A x \in {a, b} : (\A y \in {a, b} : x <= y) => x = m
    BY <1>1
  <1>4. Min({a, b}) = m
    BY <1>2, <1>3 DEF Min
  <1> QED BY <1>1, <1>4

Latest(n) == [i \in 1 .. Min({n, BacklogLimit}) |-> n + 1 - i]

Dashboards ==
    [pc : {"off", "replayed", "live", "cut"}, got : Seq(Nat), inbox : Seq(Nat), seen : Nat,
     gap : SUBSET Nat]

(* What a dashboard is sent, in the order of publication.                  *)
Ordered(due, n) ==
    /\ due \in Seq(Nat)
    /\ \A i, j \in DOMAIN due : i < j => due[i] < due[j]
    /\ \A i \in DOMAIN due : due[i] <= n

(* What a dashboard was sent when n events have been published.            *)
ClientSound(v, n) ==
    /\ v \in Dashboards
    /\ Ordered(v.got \o v.inbox, n)
    /\ v.pc # "live" => v.inbox = <<>>
    /\ v.pc # "off" =>
        \A event \in 1 .. n :
            event \in ToSet(v.got \o v.inbox) \cup v.gap \/ event <= v.seen - ReplayLimit

FeedInvariant ==
    /\ published \in Nat
    /\ backlog = Latest(published)
    /\ client = [c \in Clients |-> client[c]]
    /\ \A c \in Clients : ClientSound(client[c], published)

(* The latest events as a sequence.                                        *)
LEMMA LatestIs ==
    ASSUME NEW n \in Nat
    PROVE  /\ Latest(n) \in Seq(Nat)
           /\ Len(Latest(n)) = (IF n <= BacklogLimit THEN n ELSE BacklogLimit)
           /\ DOMAIN Latest(n) = 1 .. Len(Latest(n))
           /\ \A i \in DOMAIN Latest(n) : Latest(n)[i] = n + 1 - i
  <1>1. BacklogLimit \in Nat \ {0}
    BY FeedAssumption
  <1>2. PICK m \in Nat : m = IF n <= BacklogLimit THEN n ELSE BacklogLimit
    BY <1>1
  <1>3. Min({n, BacklogLimit}) = m
    BY <1>1, <1>2, MinOfTwo
  <1>4. PICK s : s = [i \in 1 .. m |-> n + 1 - i]
    OBVIOUS
  <1>5. Latest(n) = s
    BY <1>3, <1>4 DEF Latest
  <1>6. s \in [1 .. m -> Nat]
    BY <1>1, <1>2, <1>4
  <1>7. s \in Seq(Nat)
    BY <1>6, IsASeq
  <1>8. DOMAIN s = 1 .. Len(s) /\ Len(s) \in Nat
    BY <1>7, LenProperties
  <1>9. Len(s) = m
    BY <1>6, <1>8
  <1> QED BY <1>2, <1>4, <1>5, <1>6, <1>7, <1>8, <1>9

(* The first elements of a sequence.                                       *)
LEMMA NewestIs ==
    ASSUME NEW s \in Seq(Nat), NEW n \in Nat \ {0}
    PROVE  /\ Newest(s, n) \in Seq(Nat)
           /\ Len(Newest(s, n)) = (IF n <= Len(s) THEN n ELSE Len(s))
           /\ DOMAIN Newest(s, n) = 1 .. Len(Newest(s, n))
           /\ \A i \in DOMAIN Newest(s, n) : Newest(s, n)[i] = s[i]
  <1>1. Len(s) \in Nat /\ DOMAIN s = 1 .. Len(s)
    BY LenProperties
  <1>2. PICK m \in Nat : m = IF n <= Len(s) THEN n ELSE Len(s)
    BY <1>1
  <1>3. Newest(s, n) = SubSeq(s, 1, m)
    <2>1. n \in Int /\ Len(s) \in Int
      BY <1>1
    <2>2. Min({n, Len(s)}) = IF n <= Len(s) THEN n ELSE Len(s)
      BY <2>1, MinOfTwo
    <2>3. Min({n, Len(s)}) = m
      BY <1>2, <2>2
    <2> QED BY <2>3 DEF Newest
  <1>4. \A i \in 1 .. m : s[i] \in Nat
    <2>1. m <= Len(s)
      <3>1. PICK len \in Nat : len = Len(s)
        BY <1>1
      <3>2. m = IF n <= len THEN n ELSE len
        BY <1>2, <3>1
      <3>3. m <= len
        BY <3>2
      <3> QED BY <3>1, <3>3
    <2>2. \A i \in 1 .. m : i \in 1 .. Len(s)
      BY <1>1, <2>1
    <2> QED BY <1>1, <2>2
  <1>5. /\ SubSeq(s, 1, m) \in Seq(Nat) /\ Len(SubSeq(s, 1, m)) = m
        /\ \A i \in 1 .. m : SubSeq(s, 1, m)[i] = s[i]
    <2>1. m \in Int /\ 1 \in Int
      OBVIOUS
    <2>2. /\ SubSeq(s, 1, m) \in Seq(Nat)
          /\ Len(SubSeq(s, 1, m)) = IF 1 <= m THEN m - 1 + 1 ELSE 0
          /\ \A i \in 1 .. m - 1 + 1 : SubSeq(s, 1, m)[i] = s[1 + i - 1]
      BY <1>4, <2>1, SubSeqProperties
    <2>3. \A i \in 1 .. m : i \in 1 .. m - 1 + 1 /\ 1 + i - 1 = i
      OBVIOUS
    <2>4. (IF 1 <= m THEN m - 1 + 1 ELSE 0) = m
      OBVIOUS
    <2> QED BY <2>2, <2>3, <2>4
  <1>6. DOMAIN SubSeq(s, 1, m) = 1 .. Len(SubSeq(s, 1, m))
    BY <1>5, LenProperties
  <1> QED BY <1>2, <1>3, <1>5, <1>6

(* Pushing and trimming leaves the latest events.                          *)
LEMMA Pushed ==
    ASSUME NEW n \in Nat
    PROVE  Newest(<<n + 1>> \o Latest(n), BacklogLimit) = Latest(n + 1)
  <1>1. BacklogLimit \in Nat \ {0}
    BY FeedAssumption
  <1>2. PICK old : old = Latest(n)
    OBVIOUS
  <1>3. /\ old \in Seq(Nat) /\ Len(old) = (IF n <= BacklogLimit THEN n ELSE BacklogLimit)
        /\ DOMAIN old = 1 .. Len(old)
        /\ \A i \in DOMAIN old : old[i] = n + 1 - i
    BY <1>2, LatestIs
  <1>4. PICK one : one = <<n + 1>>
    OBVIOUS
  <1>5. one \in Seq(Nat) /\ Len(one) = 1 /\ one[1] = n + 1
    BY <1>4
  <1>6. PICK long : long = one \o old
    OBVIOUS
  <1>7. /\ long \in Seq(Nat) /\ Len(long) = 1 + Len(old)
        /\ \A i \in 1 .. 1 + Len(old) : long[i] = IF i <= 1 THEN one[i] ELSE old[i - 1]
    <2>1. /\ one \o old \in Seq(Nat) /\ Len(one \o old) = Len(one) + Len(old)
          /\ \A i \in 1 .. Len(one) + Len(old) :
                (one \o old)[i] = IF i <= Len(one) THEN one[i] ELSE old[i - Len(one)]
      <3>1. one \in Seq(Nat) /\ old \in Seq(Nat)
        BY <1>3, <1>5
      <3> QED BY <3>1, ConcatProperties, Zenon
    <2> QED BY <1>5, <1>6, <2>1
  <1>8. \A i \in 1 .. 1 + Len(old) : long[i] = n + 2 - i
    <2>1. ASSUME NEW i \in 1 .. 1 + Len(old) PROVE long[i] = n + 2 - i
      <3>1. CASE i = 1
        BY <1>5, <1>7, <3>1
      <3>2. CASE i # 1
        <4>1. Len(old) \in Nat
          BY <1>3, LenProperties
        <4>2. i - 1 \in DOMAIN old /\ long[i] = old[i - 1]
          <5>1. i \in Int /\ 1 < i /\ i - 1 \in 1 .. Len(old)
            BY <3>2, <4>1
          <5>2. ~(i <= 1)
            BY <5>1
          <5> QED BY <1>3, <1>7, <5>1, <5>2
        <4>3. old[i - 1] = n + 1 - (i - 1)
          BY <1>3, <4>2
        <4> QED BY <4>1, <4>2, <4>3
      <3> QED BY <3>1, <3>2
    <2> QED BY <2>1
  <1>9. PICK t : t = Newest(long, BacklogLimit)
    OBVIOUS
  <1>10. /\ t \in Seq(Nat) /\ DOMAIN t = 1 .. Len(t)
         /\ Len(t) = (IF BacklogLimit <= Len(long) THEN BacklogLimit ELSE Len(long))
         /\ \A i \in DOMAIN t : t[i] = long[i]
    BY <1>1, <1>7, <1>9, NewestIs
  <1>11. Len(t) = (IF n + 1 <= BacklogLimit THEN n + 1 ELSE BacklogLimit)
    BY <1>1, <1>3, <1>7, <1>10
  <1>12. \A i \in DOMAIN t : t[i] = n + 2 - i
    <2>1. Len(t) <= 1 + Len(old) /\ Len(t) \in Nat /\ Len(old) \in Nat
      BY <1>1, <1>3, <1>7, <1>11
    <2>2. \A i \in DOMAIN t : i \in 1 .. 1 + Len(old)
      BY <1>10, <2>1
    <2> QED BY <1>8, <1>10, <2>2
  <1>13. PICK new : new = Latest(n + 1)
    OBVIOUS
  <1>14. /\ new \in Seq(Nat) /\ DOMAIN new = 1 .. Len(new)
         /\ Len(new) = (IF n + 1 <= BacklogLimit THEN n + 1 ELSE BacklogLimit)
         /\ \A i \in DOMAIN new : new[i] = (n + 1) + 1 - i
    BY <1>13, LatestIs
  <1>15. t = new
    <2>1. DOMAIN t = DOMAIN new /\ \A i \in DOMAIN t : t[i] = new[i]
      <3>1. DOMAIN t = DOMAIN new
        BY <1>10, <1>11, <1>14
      <3>2. \A i \in DOMAIN t : i \in Int
        <4>1. DOMAIN t = 1 .. Len(t)
          BY <1>10
        <4> QED BY <4>1
      <3>3. \A i \in Int : n + 2 - i = (n + 1) + 1 - i
        OBVIOUS
      <3> QED BY <1>12, <1>14, <3>1, <3>2, <3>3
    <2>2. t = [i \in DOMAIN t |-> t[i]] /\ new = [i \in DOMAIN new |-> new[i]]
      BY <1>10, <1>14
    <2> QED BY <2>1, <2>2
  <1> QED BY <1>2, <1>4, <1>6, <1>9, <1>13, <1>15

(* One more event keeps the order.                                         *)
LEMMA OrderedMore ==
    ASSUME NEW n \in Nat, NEW due, Ordered(due, n), NEW more, more = Append(due, n + 1)
    PROVE  /\ Ordered(more, n + 1)
           /\ \A x \in ToSet(due) : x \in ToSet(more)
           /\ n + 1 \in ToSet(more)
  <1>1. /\ due \in Seq(Nat) /\ DOMAIN due = 1 .. Len(due) /\ Len(due) \in Nat
        /\ \A i \in DOMAIN due : due[i] \in Nat /\ due[i] <= n
        /\ \A i, j \in DOMAIN due : i < j => due[i] < due[j]
    BY LenProperties DEF Ordered
  <1>2. /\ more \in Seq(Nat) /\ Len(more) = Len(due) + 1
        /\ \A i \in 1 .. Len(due) : more[i] = due[i]
        /\ more[Len(due) + 1] = n + 1
    BY <1>1, AppendProperties
  <1>3. DOMAIN more = 1 .. Len(due) + 1
    BY <1>2, LenProperties
  <1>4. \A i \in DOMAIN more : more[i] <= n + 1
    BY <1>1, <1>2, <1>3
  <1>5. \A i, j \in DOMAIN more : i < j => more[i] < more[j]
    <2>1. ASSUME NEW i \in DOMAIN more, NEW j \in DOMAIN more, i < j PROVE more[i] < more[j]
      <3>1. i \in DOMAIN due /\ more[i] = due[i]
        BY <1>1, <1>2, <1>3, <2>1
      <3>2. CASE j \in DOMAIN due
        BY <1>1, <1>2, <2>1, <3>1, <3>2
      <3>3. CASE j = Len(due) + 1
        BY <1>1, <1>2, <3>1, <3>3
      <3> QED BY <1>1, <1>3, <3>2, <3>3
    <2> QED BY <2>1
  <1>6. \A x : x \in ToSet(due) => x \in ToSet(more)
    BY <1>1, <1>2, <1>3 DEF ToSet
  <1>7. n + 1 \in ToSet(more)
    BY <1>1, <1>2, <1>3 DEF ToSet
  <1> QED BY <1>2, <1>4, <1>5, <1>6, <1>7 DEF Ordered

(* With nothing new to it, a dashboard is as it was.                       *)
LEMMA OrderedLater ==
    ASSUME NEW n \in Nat, NEW due, Ordered(due, n)
    PROVE  Ordered(due, n + 1)
  <1>1. \A i \in DOMAIN due : due[i] \in Nat /\ due[i] <= n
    BY DEF Ordered
  <1> QED BY <1>1 DEF Ordered

(* An event is on its way to a dashboard, or falls into its gap, or the    *)
(* dashboard is off.                                                       *)
LEMMA EventSound ==
    ASSUME NEW n \in Nat, NEW v, ClientSound(v, n), NEW w,
           w = CASE v.pc = "live" -> [v EXCEPT !.inbox = Append(@, n + 1)]
                 [] v.pc \in {"replayed", "cut"} -> [v EXCEPT !.gap = @ \cup {n + 1}]
                 [] OTHER -> v
    PROVE  ClientSound(w, n + 1)
  <1>1. v \in Dashboards
    BY DEF ClientSound
  <1>2. PICK due : due = v.got \o v.inbox
    OBVIOUS
  <1>3. Ordered(due, n)
    BY <1>2 DEF ClientSound
  <1>4. ReplayLimit \in Nat
    BY FeedAssumption
  <1>5. CASE v.pc = "live"
    <2>1. PICK more : more = Append(due, n + 1)
      OBVIOUS
    <2>2. PICK inbox : inbox = Append(v.inbox, n + 1)
      OBVIOUS
    <2>3. inbox \in Seq(Nat) /\ v.got \o inbox = more
      <3>1. PICK got, old : got = v.got /\ old = v.inbox
        OBVIOUS
      <3>2. got \in Seq(Nat) /\ old \in Seq(Nat) /\ n + 1 \in Nat
        BY <1>1, <3>1 DEF Dashboards
      <3>3. inbox = old \o <<n + 1>> /\ <<n + 1>> \in Seq(Nat)
        BY <2>2, <3>1, <3>2, AppendIsConcat
      <3>4. inbox \in Seq(Nat)
        BY <2>2, <3>1, <3>2, AppendProperties
      <3>5. got \o inbox = (got \o old) \o <<n + 1>>
        BY <3>2, <3>3, ConcatAssociative
      <3>6. got \o old \in Seq(Nat)
        BY <3>2, ConcatProperties
      <3>7. more = (got \o old) \o <<n + 1>>
        BY <1>2, <2>1, <3>1, <3>2, <3>6, AppendIsConcat
      <3> QED BY <3>1, <3>4, <3>5, <3>7
    <2>4. w = [v EXCEPT !.inbox = inbox]
      BY <1>5, <2>2
    <2>5. /\ w \in Dashboards /\ w.pc = "live" /\ w.got = v.got /\ w.inbox = inbox
          /\ w.seen = v.seen /\ w.gap = v.gap
      BY <1>1, <1>5, <2>3, <2>4 DEF Dashboards
    <2>6. w.got \o w.inbox = more
      BY <2>3, <2>5
    <2>7. /\ Ordered(more, n + 1) /\ n + 1 \in ToSet(more)
          /\ \A x \in ToSet(due) : x \in ToSet(more)
      BY <1>3, <2>1, OrderedMore
    <2>8. \A event \in 1 .. n + 1 : event \in ToSet(more) \cup v.gap \/ event <= v.seen - ReplayLimit
      <3>1. ASSUME NEW event \in 1 .. n + 1
            PROVE  event \in ToSet(more) \cup v.gap \/ event <= v.seen - ReplayLimit
        <4>1. CASE event \in 1 .. n
          <5>1. event \in ToSet(due) \cup v.gap \/ event <= v.seen - ReplayLimit
            BY <1>2, <1>5, <4>1 DEF ClientSound
          <5> QED BY <2>7, <5>1
        <4>2. CASE event = n + 1
          BY <2>7, <4>2
        <4> QED BY <4>1, <4>2
      <3> QED BY <3>1
    <2>9. \A event \in 1 .. n + 1 :
              event \in ToSet(w.got \o w.inbox) \cup w.gap \/ event <= w.seen - ReplayLimit
      BY <2>5, <2>6, <2>8
    <2> QED BY <2>5, <2>6, <2>7, <2>9 DEF ClientSound
  <1>6. CASE v.pc \in {"replayed", "cut"}
    <2>1. PICK gap : gap = v.gap \cup {n + 1}
      OBVIOUS
    <2>2. /\ w \in Dashboards /\ w.pc = v.pc /\ w.got = v.got /\ w.inbox = v.inbox
          /\ w.seen = v.seen /\ w.gap = v.gap \cup {n + 1}
      <3>1. v.gap \in SUBSET Nat
        BY <1>1 DEF Dashboards
      <3>2. gap \in SUBSET Nat
        BY <2>1, <3>1
      <3>3. w = [v EXCEPT !.gap = gap]
        BY <1>6, <2>1
      <3>4. /\ w \in Dashboards /\ w.pc = v.pc /\ w.got = v.got /\ w.inbox = v.inbox
            /\ w.seen = v.seen /\ w.gap = gap
        BY <1>1, <3>2, <3>3 DEF Dashboards
      <3> QED BY <2>1, <3>4
    <2>3. w.got \o w.inbox = due
      BY <1>2, <2>2
    <2>4. \A event \in 1 .. n + 1 :
            event \in ToSet(due) \cup (v.gap \cup {n + 1}) \/ event <= v.seen - ReplayLimit
      <3>1. ASSUME NEW event \in 1 .. n + 1
            PROVE  event \in ToSet(due) \cup (v.gap \cup {n + 1}) \/ event <= v.seen - ReplayLimit
        <4>1. CASE event \in 1 .. n
          BY <1>2, <1>6, <4>1 DEF ClientSound
        <4>2. CASE event = n + 1
          BY <4>2
        <4> QED BY <4>1, <4>2
      <3> QED BY <3>1
    <2>5. \A event \in 1 .. n + 1 :
              event \in ToSet(w.got \o w.inbox) \cup w.gap \/ event <= w.seen - ReplayLimit
      BY <2>2, <2>3, <2>4
    <2>6. Ordered(w.got \o w.inbox, n + 1)
      BY <1>3, <2>3, OrderedLater
    <2>7. w.inbox = <<>>
      BY <1>6, <2>2 DEF ClientSound
    <2> QED BY <2>2, <2>5, <2>6, <2>7 DEF ClientSound
  <1>7. CASE v.pc = "off"
    <2>1. w = v
      BY <1>7
    <2>2. Ordered(v.got \o v.inbox, n + 1)
      BY <1>2, <1>3, OrderedLater
    <2> QED BY <1>1, <1>7, <2>1, <2>2 DEF ClientSound
  <1>8. v.pc \in {"off", "replayed", "live", "cut"}
    BY <1>1 DEF Dashboards
  <1> QED BY <1>5, <1>6, <1>7, <1>8

(* A dashboard is sent the backlog, oldest event first.                    *)
LEMMA ReplaySound ==
    ASSUME NEW n \in Nat, NEW v, ClientSound(v, n), v.pc = "off", NEW w,
           w = [v EXCEPT !.pc = "replayed", !.seen = n, !.got = Reverse(Newest(Latest(n), ReplayLimit))]
    PROVE  ClientSound(w, n)
  <1>1. /\ ReplayLimit \in Nat \ {0} /\ BacklogLimit \in Nat \ {0} /\ ReplayLimit <= BacklogLimit
    BY FeedAssumption
  <1>2. PICK old : old = Latest(n)
    OBVIOUS
  <1>3. /\ old \in Seq(Nat) /\ Len(old) = (IF n <= BacklogLimit THEN n ELSE BacklogLimit)
        /\ DOMAIN old = 1 .. Len(old)
        /\ \A i \in DOMAIN old : old[i] = n + 1 - i
    BY <1>2, LatestIs
  <1>4. PICK sent : sent = Newest(old, ReplayLimit)
    OBVIOUS
  <1>5. /\ sent \in Seq(Nat) /\ DOMAIN sent = 1 .. Len(sent)
        /\ Len(sent) = (IF ReplayLimit <= Len(old) THEN ReplayLimit ELSE Len(old))
        /\ \A i \in DOMAIN sent : sent[i] = old[i]
    BY <1>1, <1>3, <1>4, NewestIs
  <1>6. PICK m \in Nat : m = Len(sent)
    BY <1>5, LenProperties
  <1>7. m <= n /\ m <= Len(old) /\ (m = ReplayLimit \/ m = n)
    BY <1>1, <1>3, <1>5, <1>6
  <1>8. \A i \in 1 .. m : sent[i] = n + 1 - i
    <2>1. ASSUME NEW i \in 1 .. m PROVE sent[i] = n + 1 - i
      <3>1. i \in DOMAIN sent /\ i \in DOMAIN old
        BY <1>3, <1>5, <1>6, <1>7, LenProperties
      <3> QED BY <1>3, <1>5, <3>1
    <2> QED BY <2>1
  <1>9. PICK got : got = Reverse(sent)
    OBVIOUS
  <1>10. got = [i \in 1 .. m |-> sent[(m - i) + 1]]
    BY <1>6, <1>9 DEF Reverse
  <1>11. \A i \in 1 .. m : got[i] = (n - m) + i
    <2>1. ASSUME NEW i \in 1 .. m PROVE got[i] = (n - m) + i
      <3>1. (m - i) + 1 \in 1 .. m
        BY <1>6
      <3>2. sent[(m - i) + 1] = n + 1 - ((m - i) + 1)
        BY <1>8, <3>1
      <3>3. got[i] = n + 1 - ((m - i) + 1)
        BY <1>10, <3>2
      <3> QED BY <3>3, <1>6
    <2> QED BY <2>1
  <1>12. got \in Seq(Nat) /\ DOMAIN got = 1 .. m
    <2>1. got \in [1 .. m -> Nat]
      <3>1. \A i \in 1 .. m : (n - m) + i \in Nat
        BY <1>6, <1>7
      <3>2. \A i \in 1 .. m : got[i] \in Nat
        BY <1>11, <3>1
      <3> QED BY <1>10, <3>2
    <2>2. got \in Seq(Nat)
      BY <2>1, <1>6, IsASeq
    <2> QED BY <2>1, <2>2
  <1>13. /\ w \in Dashboards /\ w.pc = "replayed" /\ w.got = got /\ w.inbox = <<>> /\ w.seen = n
    <2>1. v \in Dashboards /\ v.inbox = <<>>
      BY DEF ClientSound
    <2>2. w = [v EXCEPT !.pc = "replayed", !.seen = n, !.got = got]
      BY <1>2, <1>4, <1>9
    <2> QED BY <1>12, <2>1, <2>2 DEF Dashboards
  <1>14. /\ \A i, j \in DOMAIN got : i < j => got[i] < got[j]
         /\ \A i \in DOMAIN got : got[i] <= n
    BY <1>6, <1>7, <1>11, <1>12
  <1>15. \A event \in 1 .. n : event \in ToSet(got) \cup w.gap \/ event <= n - ReplayLimit
    <2>1. ASSUME NEW event \in 1 .. n, ~(event <= n - ReplayLimit) PROVE event \in ToSet(got)
      <3>1. event - (n - m) \in 1 .. m
        BY <1>1, <1>6, <1>7, <2>1
      <3>2. got[event - (n - m)] = (n - m) + (event - (n - m))
        BY <1>11, <3>1
      <3>3. got[event - (n - m)] = event
        BY <1>6, <3>2
      <3> QED BY <1>12, <3>1, <3>3 DEF ToSet
    <2> QED BY <2>1
  <1>16. got \o w.inbox = got
    BY <1>12, <1>13, ConcatEmptySeq
  <1>17. Ordered(got, n)
    BY <1>12, <1>14 DEF Ordered
  <1> QED BY <1>13, <1>15, <1>16, <1>17 DEF ClientSound

(* An event is published.                                                  *)
LEMMA PublishKeeps ==
    ASSUME FeedInvariant, Publish
    PROVE  FeedInvariant'
  <1>1. PICK n \in Nat : n = published
    BY DEF FeedInvariant
  <1>2. published' = n + 1
    BY <1>1 DEF Publish
  <1>3. backlog' = Latest(n + 1)
    <2>1. backlog' = Newest(<<n + 1>> \o Latest(n), BacklogLimit)
      BY <1>1 DEF Publish, FeedInvariant
    <2> QED BY <2>1, Pushed
  <1>4. client' = [c \in Clients |->
           CASE client[c].pc = "live" -> [client[c] EXCEPT !.inbox = Append(@, n + 1)]
             [] client[c].pc \in {"replayed", "cut"} -> [client[c] EXCEPT !.gap = @ \cup {n + 1}]
             [] OTHER -> client[c]]
    BY <1>1 DEF Publish
  <1>5. ASSUME NEW c \in Clients PROVE ClientSound(client'[c], n + 1)
    <2>1. PICK v, w : v = client[c] /\ w = client'[c]
      OBVIOUS
    <2>2. ClientSound(v, n)
      BY <1>1, <2>1 DEF FeedInvariant
    <2>3. w = CASE v.pc = "live" -> [v EXCEPT !.inbox = Append(@, n + 1)]
                [] v.pc \in {"replayed", "cut"} -> [v EXCEPT !.gap = @ \cup {n + 1}]
                [] OTHER -> v
      BY <1>4, <2>1
    <2>4. ClientSound(w, n + 1)
      BY <2>2, <2>3, EventSound
    <2> QED BY <2>1, <2>4
  <1>6. client' = [c \in Clients |-> client'[c]]
    BY <1>4
  <1> HIDE DEF Latest, ClientSound, Ordered
  <1>7. FeedInvariant' <=>
            /\ published' \in Nat
            /\ backlog' = Latest(published')
            /\ client' = [c \in Clients |-> client'[c]]
            /\ \A c \in Clients : ClientSound(client'[c], published')
    BY DEF FeedInvariant, Latest, ClientSound
  <1> QED BY <1>2, <1>3, <1>5, <1>6, <1>7

(* A dashboard that is off waits for nothing.                              *)
LEMMA OffSound ==
    ASSUME NEW n \in Nat
    PROVE  ClientSound(Off, n)
  <1>1. <<>> \in Seq(Nat) /\ DOMAIN <<>> = {}
    OBVIOUS
  <1>2. Off \in Dashboards /\ Off.pc = "off" /\ Off.got = <<>> /\ Off.inbox = <<>>
    BY <1>1 DEF Off, Dashboards
  <1>3. <<>> \o <<>> = <<>>
    BY <1>1, ConcatEmptySeq
  <1>4. Ordered(<<>>, n)
    BY <1>1 DEF Ordered
  <1> QED BY <1>2, <1>3, <1>4 DEF ClientSound

(* Sending the next event on changes neither order nor content.            *)
LEMMA PumpedSame ==
    ASSUME NEW S, NEW got \in Seq(S), NEW inbox \in Seq(S), inbox # <<>>
    PROVE  /\ Append(got, Head(inbox)) \in Seq(S) /\ Tail(inbox) \in Seq(S)
           /\ Append(got, Head(inbox)) \o Tail(inbox) = got \o inbox
  <1>1. PICK x, rest : x = Head(inbox) /\ rest = Tail(inbox)
    OBVIOUS
  <1>2. x \in S /\ rest \in Seq(S)
    BY <1>1, HeadTailProperties
  <1>3. PICK one : one = <<x>>
    OBVIOUS
  <1>4. one \in Seq(S)
    BY <1>2, <1>3
  <1>5. one \o rest = inbox
    <2>1. /\ one \o rest \in Seq(S) /\ Len(one \o rest) = Len(one) + Len(rest)
          /\ \A i \in 1 .. Len(one) + Len(rest) :
                (one \o rest)[i] = IF i <= Len(one) THEN one[i] ELSE rest[i - Len(one)]
      BY <1>2, <1>4, ConcatProperties, Zenon
    <2>2. Len(one) = 1 /\ one[1] = x
      BY <1>3
    <2>3. /\ Len(inbox) \in Nat /\ Len(rest) = Len(inbox) - 1 /\ inbox[1] = x
          /\ \A i \in 1 .. Len(rest) : rest[i] = inbox[i + 1]
      BY <1>1, HeadTailProperties, LenProperties
    <2>4. PICK all : all = one \o rest
      OBVIOUS
    <2>5. all \in Seq(S) /\ Len(all) = Len(inbox)
      BY <2>1, <2>2, <2>3, <2>4
    <2>6. ASSUME NEW i \in 1 .. Len(all) PROVE all[i] = inbox[i]
      <3>1. CASE i = 1
        BY <2>1, <2>2, <2>3, <2>4, <2>5, <3>1
      <3>2. CASE i # 1
        <4>1. ~(i <= 1) /\ i - 1 \in 1 .. Len(rest) /\ (i - 1) + 1 = i
          BY <2>3, <2>5, <3>2
        <4>2. all[i] = rest[i - 1]
          BY <2>1, <2>2, <2>3, <2>4, <2>5, <4>1
        <4> QED BY <2>3, <4>1, <4>2
      <3> QED BY <3>1, <3>2
    <2> QED BY <2>4, <2>5, <2>6, SeqEqual
  <1>6. Append(got, x) = got \o one
    BY <1>2, <1>3, AppendIsConcat
  <1>7. got \o inbox = (got \o one) \o rest
    <2>1. (got \o one) \o rest = got \o (one \o rest)
      BY <1>2, <1>4, ConcatAssociative
    <2> QED BY <1>5, <2>1
  <1>8. Append(got, x) \in Seq(S)
    BY <1>2, AppendProperties
  <1> QED BY <1>1, <1>2, <1>5, <1>6, <1>7, <1>8

(* What had been sent when a subscription is lost.                         *)
LEMMA CutOrdered ==
    ASSUME NEW n \in Nat, NEW got \in Seq(Nat), NEW inbox \in Seq(Nat),
           Ordered(got \o inbox, n)
    PROVE  /\ Ordered(got, n)
           /\ \A x \in ToSet(got \o inbox) : x \in ToSet(got) \cup ToSet(inbox)
  <1>1. PICK due : due = got \o inbox
    OBVIOUS
  <1>2. PICK l \in Nat, k \in Nat : l = Len(got) /\ k = Len(inbox)
    BY LenProperties
  <1>3. /\ due \in Seq(Nat) /\ Len(due) = l + k
        /\ \A i \in 1 .. l + k : due[i] = IF i <= l THEN got[i] ELSE inbox[i - l]
    BY <1>1, <1>2, ConcatProperties, Zenon
  <1>4. DOMAIN due = 1 .. l + k /\ DOMAIN got = 1 .. l /\ DOMAIN inbox = 1 .. k
    BY <1>2, <1>3, LenProperties
  <1>5. \A i \in 1 .. l : i \in 1 .. l + k /\ due[i] = got[i]
    BY <1>3
  <1>6. /\ \A i, j \in DOMAIN due : i < j => due[i] < due[j]
        /\ \A i \in DOMAIN due : due[i] <= n
    BY <1>1 DEF Ordered
  <1>7. Ordered(got, n)
    <2>1. \A i \in DOMAIN got : i \in DOMAIN due /\ due[i] = got[i]
      BY <1>4, <1>5
    <2>2. \A i \in DOMAIN got : got[i] <= n
      BY <1>6, <2>1
    <2>3. \A i, j \in DOMAIN got : i < j => got[i] < got[j]
      BY <1>6, <2>1
    <2> QED BY <2>2, <2>3 DEF Ordered
  <1>8. ASSUME NEW x \in ToSet(due) PROVE x \in ToSet(got) \cup ToSet(inbox)
    <2>1. PICK i \in 1 .. l + k : x = due[i]
      BY <1>4 DEF ToSet
    <2>2. CASE i <= l
      <3>1. i \in 1 .. l /\ x = got[i]
        BY <1>3, <2>1, <2>2
      <3> QED BY <1>4, <3>1 DEF ToSet
    <2>3. CASE ~(i <= l)
      <3>1. i - l \in 1 .. k /\ x = inbox[i - l]
        BY <1>3, <2>1, <2>3
      <3> QED BY <1>4, <3>1 DEF ToSet
    <2> QED BY <2>2, <2>3
  <1> QED BY <1>1, <1>7, <1>8

(* A dashboard opens, goes on or closes.                                   *)
LEMMA ClientKeeps ==
    ASSUME FeedInvariant, NEW c \in Clients, Open(c) \/ Follow(c)
    PROVE  FeedInvariant'
  <1>1. PICK n \in Nat : n = published /\ published' = n
    BY DEF FeedInvariant, Open, Follow, Replay, ReplayFails, Subscribe, Pump, Cut, Disconnect
  <1>2. backlog = Latest(n) /\ backlog' = backlog
    BY <1>1 DEF FeedInvariant, Open, Follow, Replay, ReplayFails, Subscribe, Pump, Cut,
                Disconnect
  <1>3. PICK v : v = client[c]
    OBVIOUS
  <1>4. ClientSound(v, n) /\ v \in Dashboards
    BY <1>1, <1>3 DEF FeedInvariant, ClientSound
  <1>5. \E w : ClientSound(w, n) /\ client' = [client EXCEPT ![c] = w]
    <2>1. CASE Replay(c)
      <3>1. PICK w : w = [v EXCEPT !.pc = "replayed", !.seen = n,
                                   !.got = Reverse(Newest(Latest(n), ReplayLimit))]
        OBVIOUS
      <3>2. ClientSound(w, n)
        <4>1. v.pc = "off"
          BY <1>3, <2>1 DEF Replay
        <4> QED BY <1>4, <3>1, <4>1, ReplaySound
      <3>3. client' = [client EXCEPT ![c] = w]
        <4>1. PICK got : got = Reverse(Newest(backlog, ReplayLimit))
          OBVIOUS
        <4>2. client' = [client EXCEPT ![c].pc = "replayed", ![c].seen = n, ![c].got = got]
          BY <1>1, <2>1, <4>1 DEF Replay
        <4>3. w = [v EXCEPT !.pc = "replayed", !.seen = n, !.got = got]
          BY <1>2, <3>1, <4>1
        <4> QED BY <1>3, <1>4, <4>2, <4>3 DEF FeedInvariant, Dashboards
      <3> QED BY <3>2, <3>3
    <2>2. CASE ReplayFails(c)
      <3>1. PICK w : w = [v EXCEPT !.pc = "replayed", !.gap = 1 .. n]
        OBVIOUS
      <3>2. /\ w \in Dashboards /\ w.pc = "replayed" /\ w.got = v.got /\ w.inbox = v.inbox
            /\ w.gap = 1 .. n
        <4>1. PICK all : all = 1 .. n
          OBVIOUS
        <4>2. all \in SUBSET Nat
          BY <4>1
        <4>3. w = [v EXCEPT !.pc = "replayed", !.gap = all]
          BY <3>1, <4>1
        <4>4. /\ w \in Dashboards /\ w.pc = "replayed" /\ w.got = v.got /\ w.inbox = v.inbox
              /\ w.gap = all
          BY <1>4, <4>2, <4>3 DEF Dashboards
        <4> QED BY <4>1, <4>4
      <3>3. v.pc = "off"
        BY <1>3, <2>2 DEF ReplayFails
      <3>4. ClientSound(w, n)
        BY <1>4, <3>2, <3>3 DEF ClientSound
      <3>5. client' = [client EXCEPT ![c] = w]
        BY <1>1, <1>3, <1>4, <2>2, <3>1 DEF ReplayFails, FeedInvariant, Dashboards
      <3> QED BY <3>4, <3>5
    <2>3. CASE Subscribe(c)
      <3>1. PICK w : w = [v EXCEPT !.pc = "live"]
        OBVIOUS
      <3>2. /\ w \in Dashboards /\ w.pc = "live" /\ w.got = v.got /\ w.inbox = v.inbox
            /\ w.gap = v.gap /\ w.seen = v.seen
        BY <1>4, <3>1 DEF Dashboards
      <3>3. v.pc \in {"replayed", "cut"}
        BY <1>3, <2>3 DEF Subscribe
      <3>4. ClientSound(w, n)
        BY <1>4, <3>2, <3>3 DEF ClientSound
      <3>5. client' = [client EXCEPT ![c] = w]
        BY <1>3, <1>4, <2>3, <3>1 DEF Subscribe, FeedInvariant, Dashboards
      <3> QED BY <3>4, <3>5
    <2>5. CASE Pump(c)
      <3>1. PICK got, inbox : got = v.got /\ inbox = v.inbox
        OBVIOUS
      <3>2. got \in Seq(Nat) /\ inbox \in Seq(Nat) /\ inbox # <<>> /\ v.pc = "live"
        BY <1>3, <1>4, <2>5, <3>1 DEF Pump, Dashboards
      <3>3. PICK sent, left : sent = Append(got, Head(inbox)) /\ left = Tail(inbox)
        OBVIOUS
      <3>4. sent \in Seq(Nat) /\ left \in Seq(Nat) /\ sent \o left = got \o inbox
        BY <3>2, <3>3, PumpedSame
      <3>5. PICK w : w = [v EXCEPT !.got = sent, !.inbox = left]
        OBVIOUS
      <3>6. /\ w \in Dashboards /\ w.pc = "live" /\ w.got = sent /\ w.inbox = left
            /\ w.gap = v.gap /\ w.seen = v.seen
        BY <1>4, <3>2, <3>4, <3>5 DEF Dashboards
      <3>7. w.got \o w.inbox = v.got \o v.inbox
        BY <3>1, <3>4, <3>6
      <3>8. ClientSound(w, n)
        BY <1>4, <3>2, <3>6, <3>7 DEF ClientSound
      <3>9. client' = [client EXCEPT ![c] = w]
        <4>1. client' = [client EXCEPT ![c].got = sent, ![c].inbox = left]
          BY <1>3, <2>5, <3>1, <3>3 DEF Pump
        <4> QED BY <1>3, <1>4, <3>5, <4>1 DEF FeedInvariant, Dashboards
      <3> QED BY <3>8, <3>9
    <2>6. CASE Cut(c)
      <3>1. PICK got, inbox : got = v.got /\ inbox = v.inbox
        OBVIOUS
      <3>2. got \in Seq(Nat) /\ inbox \in Seq(Nat) /\ v.pc = "live"
        BY <1>3, <1>4, <2>6, <3>1 DEF Cut, Dashboards
      <3>3. PICK lost : lost = ToSet(inbox)
        OBVIOUS
      <3>4. lost \in SUBSET Nat
        BY <3>2, <3>3 DEF ToSet
      <3>5. PICK gap : gap = v.gap \cup lost
        OBVIOUS
      <3>6. PICK w : w = [v EXCEPT !.pc = "cut", !.inbox = <<>>, !.gap = gap]
        OBVIOUS
      <3>7. /\ w \in Dashboards /\ w.pc = "cut" /\ w.got = got /\ w.inbox = <<>>
            /\ w.gap = gap /\ w.seen = v.seen
        <4>1. v.gap \in SUBSET Nat
          BY <1>4 DEF Dashboards
        <4>2. gap \in SUBSET Nat
          BY <3>4, <3>5, <4>1
        <4>3. <<>> \in Seq(Nat)
          OBVIOUS
        <4> QED BY <1>4, <3>1, <3>6, <4>2, <4>3 DEF Dashboards
      <3>8. w.got \o w.inbox = got
        BY <3>2, <3>7, ConcatEmptySeq
      <3>9. Ordered(got \o inbox, n)
        BY <1>4, <3>1 DEF ClientSound
      <3>10. Ordered(got, n) /\ \A x \in ToSet(got \o inbox) : x \in ToSet(got) \cup lost
        BY <3>2, <3>3, <3>9, CutOrdered
      <3>11. \A event \in 1 .. n : event \in ToSet(got) \cup gap \/ event <= v.seen - ReplayLimit
        <4>1. \A event \in 1 .. n :
                event \in ToSet(got \o inbox) \cup v.gap \/ event <= v.seen - ReplayLimit
          BY <1>4, <3>1, <3>2 DEF ClientSound
        <4> QED BY <3>5, <3>10, <4>1
      <3>12. ClientSound(w, n)
        BY <3>7, <3>8, <3>10, <3>11 DEF ClientSound
      <3>13. client' = [client EXCEPT ![c] = w]
        <4>1. client' = [client EXCEPT ![c].pc = "cut", ![c].inbox = <<>>, ![c].gap = gap]
          BY <1>3, <2>6, <3>1, <3>3, <3>5 DEF Cut
        <4> QED BY <1>3, <1>4, <3>6, <4>1 DEF FeedInvariant, Dashboards
      <3> QED BY <3>12, <3>13
    <2>4. CASE Disconnect(c)
      <3>1. ClientSound(Off, n)
        BY <1>1, OffSound
      <3> QED BY <2>4, <3>1 DEF Disconnect
    <2> QED BY <2>1, <2>2, <2>3, <2>4, <2>5, <2>6 DEF Open, Follow
  <1>6. PICK w : ClientSound(w, n) /\ client' = [client EXCEPT ![c] = w]
    BY <1>5
  <1>7. client = [d \in Clients |-> client[d]] /\ \A d \in Clients : ClientSound(client[d], n)
    BY <1>1 DEF FeedInvariant
  <1> HIDE DEF Latest, ClientSound, Ordered
  <1>8. client' = [d \in Clients |-> IF d = c THEN w ELSE client[d]]
    BY <1>6, <1>7
  <1>9. \A d \in Clients : ClientSound(client'[d], n)
    BY <1>6, <1>7, <1>8
  <1>10. client' = [d \in Clients |-> client'[d]]
    BY <1>8
  <1>11. FeedInvariant' <=>
            /\ published' \in Nat
            /\ backlog' = Latest(published')
            /\ client' = [d \in Clients |-> client'[d]]
            /\ \A d \in Clients : ClientSound(client'[d], published')
    BY DEF FeedInvariant, Latest, ClientSound
  <1> QED BY <1>1, <1>2, <1>9, <1>10, <1>11

(* Every step is one of these to the feed.                                 *)
LEMMA FeedSteps ==
    ASSUME [Next]_vars
    PROVE  UNCHANGED feedVars \/ Publish \/ \E c \in Clients : Open(c) \/ Follow(c)
  <1>1. CASE Tick
    BY <1>1 DEF Tick
  <1>2. ASSUME NEW s \in Students, Enter(s) \/ Leave(s) \/ DeleteStudent(s)
        PROVE  UNCHANGED feedVars \/ Publish
    BY <1>2 DEF Enter, Leave, DeleteStudent, PublishOrNot
  <1>3. ASSUME NEW j \in Jobs,
               JobBegin(j) \/ JobPeriod(j) \/ JobStudent(j) \/ JobCheck(j) \/ JobInsert(j)
        PROVE  UNCHANGED feedVars \/ Publish
    <2>1. JobBegin(j) => UNCHANGED feedVars
      BY DEF JobBegin
    <2>2. JobPeriod(j) => UNCHANGED feedVars
      BY DEF JobPeriod
    <2>3. JobStudent(j) => UNCHANGED feedVars
      BY DEF JobStudent
    <2>4. JobCheck(j) => UNCHANGED feedVars
      BY DEF JobCheck
    <2>5. JobInsert(j) => UNCHANGED feedVars \/ Publish
      BY DEF JobInsert, PublishOrNot
    <2> QED BY <1>3, <2>1, <2>2, <2>3, <2>4, <2>5
  <1>4. ASSUME NEW a \in Admins,
               \/ AckRead(a) \/ AckCommit(a) \/ ResolveRead(a) \/ ResolveCommit(a)
               \/ CreateRead(a) \/ CreateCommit(a) \/ UpdateRead(a) \/ UpdateCommit(a)
        PROVE  UNCHANGED feedVars
    BY <1>4 DEF AckRead, AckCommit, ResolveRead, ResolveCommit, CreateRead, CreateCommit,
                UpdateRead, UpdateCommit, Ask
  <1>5. ASSUME NEW p \in PeriodIds, DeletePeriod(p)
        PROVE  UNCHANGED feedVars
    BY <1>5 DEF DeletePeriod
  <1>6. ASSUME NEW c \in Clients, Watch(c)
        PROVE  Open(c) \/ Follow(c)
    BY <1>6 DEF Watch
  <1>7. CASE UNCHANGED vars
    BY <1>7 DEF vars
  <1> QED BY <1>1, <1>2, <1>3, <1>4, <1>5, <1>6, <1>7 DEF Next

(* What the dashboards were sent is explained, for any number of them and  *)
(* any limits (publish_event, live_feed): the backlog is the latest        *)
(* events, and a client misses only what is older than the backlog it was  *)
(* sent, was published while it had no subscription, or was lost when the  *)
(* connection to Redis was.                                                *)
THEOREM FeedIsExplained == Spec => []FeedExplained
  <1>1. Init => FeedInvariant
    <2>1. ASSUME Init PROVE FeedInvariant
      <3>1. published = 0 /\ backlog = <<>> /\ client = [c \in Clients |-> Off]
        BY <2>1 DEF Init, FeedInit
      <3>2. Latest(0) = <<>>
        <4>1. PICK s : s = Latest(0)
          OBVIOUS
        <4>2. BacklogLimit \in Nat \ {0}
          BY FeedAssumption
        <4>3. s \in Seq(Nat) /\ Len(s) = 0
          BY <4>1, <4>2, LatestIs
        <4> QED BY <4>1, <4>3, EmptySeq
      <3>3. ClientSound(Off, 0)
        BY OffSound
      <3> QED BY <3>1, <3>2, <3>3 DEF FeedInvariant
    <2> QED BY <2>1
  <1>2. FeedInvariant /\ [Next]_vars => FeedInvariant'
    <2>1. ASSUME FeedInvariant, UNCHANGED feedVars PROVE FeedInvariant'
      BY <2>1 DEF FeedInvariant, feedVars, Latest, ClientSound, Ordered
    <2> QED BY <2>1, FeedSteps, PublishKeeps, ClientKeeps
  <1>3. FeedInvariant => FeedExplained
    BY DEF FeedInvariant, FeedExplained, Latest, ClientSound, Ordered
  <1> QED BY <1>1, <1>2, <1>3, PTL DEF Spec
-----------------------------------------------------------------------------
(* Reports.                                                                *)

(* What a sum counts.                                                      *)
Units(f) == UNION {{x} \X (1 .. f[x]) : x \in DOMAIN f}

LEMMA UnitsAre ==
    ASSUME NEW f
    PROVE  /\ Units(f) = {xn \in (DOMAIN f) \X Int : xn[2] \in 1 .. f[xn[1]]}
           /\ SumOf(f) = Cardinality(Units(f))
           /\ \A x, n : <<x, n>> \in Units(f) <=> x \in DOMAIN f /\ n \in 1 .. f[x]
  BY DEF Units, SumOf

LEMMA UnitsFinite ==
    ASSUME NEW S, IsFiniteSet(S), NEW f \in [S -> Nat]
    PROVE  IsFiniteSet(Units(f)) /\ SumOf(f) \in Nat
  <1> DEFINE row == [x \in S |-> {x} \X (1 .. f[x])]
             rows == {{x} \X (1 .. f[x]) : x \in S}
  <1>1. row \in Surjection(S, rows)
    BY DEF Surjection
  <1>2. IsFiniteSet(rows)
    <2> HIDE DEF row, rows
    <2> QED BY <1>1, FS_Surjection
  <1>3. ASSUME NEW r \in rows PROVE IsFiniteSet(r)
    <2>1. PICK x \in S : r = {x} \X (1 .. f[x])
      OBVIOUS
    <2>2. IsFiniteSet({x})
      BY FS_Singleton
    <2>3. IsFiniteSet(1 .. f[x])
      BY FS_Interval
    <2> QED BY <2>1, <2>2, <2>3, FS_Product
  <1>4. IsFiniteSet(UNION rows)
    <2> HIDE DEF rows
    <2> QED BY <1>2, <1>3, FS_UNION
  <1>5. Units(f) = UNION rows
    BY DEF Units
  <1> HIDE DEF rows
  <1>6. IsFiniteSet(Units(f))
    BY <1>4, <1>5
  <1> QED BY <1>6, UnitsAre, FS_CardinalityType

(* A sum over nothing, and over one thing more.                            *)
LEMMA SumOfNone ==
    ASSUME NEW f, DOMAIN f = {}
    PROVE  SumOf(f) = 0
  <1>1. Units(f) = {}
    BY UnitsAre
  <1> QED BY <1>1, UnitsAre, FS_EmptySet

LEMMA SumOfMore ==
    ASSUME NEW S, IsFiniteSet(S), NEW y, y \notin S, NEW f \in [S \cup {y} -> Nat]
    PROVE  SumOf(f) = SumOf([x \in S |-> f[x]]) + f[y]
  <1> DEFINE g == [x \in S |-> f[x]]
             h == {y} \X (1 .. f[y])
  <1>1. g \in [S -> Nat]
    OBVIOUS
  <1>2. IsFiniteSet(Units(g))
    BY <1>1, UnitsFinite
  <1>3. IsFiniteSet(h) /\ Cardinality(h) = f[y]
    <2>1. IsFiniteSet({y}) /\ Cardinality({y}) = 1
      BY FS_Singleton
    <2>2. f[y] \in Nat
      OBVIOUS
    <2>3. IsFiniteSet(1 .. f[y]) /\ Cardinality(1 .. f[y]) = f[y]
      BY <2>2, FS_Interval
    <2>4. IsFiniteSet(h) /\ Cardinality(h) = Cardinality({y}) * Cardinality(1 .. f[y])
      BY <2>1, <2>3, FS_Product
    <2> QED BY <2>1, <2>2, <2>3, <2>4
  <1>4. Units(g) \cap h = {} /\ Units(f) = Units(g) \cup h
    <2>1. Units(g) = UNION {{x} \X (1 .. f[x]) : x \in S}
      BY DEF Units
    <2>2. Units(f) = UNION {{x} \X (1 .. f[x]) : x \in S \cup {y}}
      BY DEF Units
    <2> QED BY <2>1, <2>2
  <1> HIDE DEF g, h
  <1>5. Cardinality(Units(f)) = Cardinality(Units(g)) + Cardinality(h)
    <2>1. Cardinality(Units(f)) =
            Cardinality(Units(g)) + Cardinality(h) - Cardinality(Units(g) \cap h)
      BY <1>2, <1>3, <1>4, FS_Union
    <2>2. Cardinality(Units(g)) \in Nat /\ Cardinality(h) \in Nat
      BY <1>2, <1>3, FS_CardinalityType
    <2>3. Cardinality(Units(g) \cap h) = 0
      BY <1>4, FS_EmptySet
    <2> QED BY <2>1, <2>2, <2>3
  <1> QED BY <1>3, <1>5, UnitsAre DEF g

(* The sum of the sums of separate parts is no more than the whole.        *)
LEMMA SumOfParts ==
    ASSUME NEW K, IsFiniteSet(K), NEW v \in [K -> Nat],
           NEW P, NEW part \in [P -> SUBSET K],
           \A p, q \in P : p # q => part[p] \cap part[q] = {}
    PROVE  SumOf([p \in P |-> SumOf([i \in part[p] |-> v[i]])]) <= SumOf(v)
  <1> DEFINE U(p) == Units([i \in part[p] |-> v[i]])
             n == [p \in P |-> SumOf([i \in part[p] |-> v[i]])]
             b == [p \in P |-> CHOOSE g : g \in Bijection(1 .. n[p], U(p))]
             h == [pk \in Units(n) |-> b[pk[1]][pk[2]]]
  <1>1. IsFiniteSet(Units(v))
    BY UnitsFinite
  <1>2. ASSUME NEW p \in P
        PROVE  /\ U(p) = {xn \in Units(v) : xn[1] \in part[p]}
               /\ n[p] = Cardinality(U(p)) /\ n[p] \in Nat
               /\ b[p] \in Bijection(1 .. n[p], U(p))
    <2> DEFINE w == [i \in part[p] |-> v[i]]
    <2>1. w \in [part[p] -> Nat] /\ part[p] \in SUBSET K
      OBVIOUS
    <2>2. IsFiniteSet(part[p])
      BY <2>1, FS_Subset
    <2>3. /\ Units(w) = {xn \in (DOMAIN w) \X Int : xn[2] \in 1 .. w[xn[1]]}
          /\ Units(v) = {xn \in (DOMAIN v) \X Int : xn[2] \in 1 .. v[xn[1]]}
      BY UnitsAre
    <2>4. U(p) = {xn \in Units(v) : xn[1] \in part[p]}
      BY <2>1, <2>3
    <2>5. n[p] = Cardinality(U(p)) /\ n[p] \in Nat /\ IsFiniteSet(U(p))
      <3> HIDE DEF w
      <3>1. IsFiniteSet(Units(w)) /\ SumOf(w) \in Nat /\ SumOf(w) = Cardinality(Units(w))
        BY <2>1, <2>2, UnitsFinite, UnitsAre
      <3>2. U(p) = Units(w) /\ n[p] = SumOf(w)
        BY DEF w
      <3> HIDE DEF U, n
      <3> QED BY <3>1, <3>2
    <2> HIDE DEF U, n
    <2>6. ExistsBijection(1 .. n[p], U(p))
      BY <2>5, FS_CardinalityType
    <2>7. b[p] = CHOOSE g : g \in Bijection(1 .. n[p], U(p))
      OBVIOUS
    <2>8. \E g : g \in Bijection(1 .. n[p], U(p))
      BY <2>6 DEF ExistsBijection
    <2>9. b[p] \in Bijection(1 .. n[p], U(p))
      BY <2>7, <2>8
    <2> QED BY <2>4, <2>5, <2>9
  <1>3. DOMAIN n = P
    OBVIOUS
  <1> HIDE DEF n, b, U
  <1>4. ASSUME NEW pk \in Units(n)
        PROVE  /\ pk = <<pk[1], pk[2]>> /\ pk[1] \in P /\ pk[2] \in 1 .. n[pk[1]]
               /\ h[pk] = b[pk[1]][pk[2]] /\ h[pk] \in Units(v) /\ h[pk][1] \in part[pk[1]]
    <2>1. pk = <<pk[1], pk[2]>> /\ pk[1] \in P /\ pk[2] \in 1 .. n[pk[1]]
      BY <1>3, UnitsAre
    <2>2. b[pk[1]] \in [1 .. n[pk[1]] -> U(pk[1])]
      BY <1>2, <2>1 DEF Bijection, Injection
    <2>3. h[pk] = b[pk[1]][pk[2]]
      OBVIOUS
    <2> HIDE DEF h
    <2>4. h[pk] \in U(pk[1])
      BY <2>1, <2>2, <2>3
    <2> QED BY <1>2, <2>1, <2>3, <2>4
  <1>5. ASSUME NEW x \in Units(n), NEW y \in Units(n), h[x] = h[y]
        PROVE  x = y
    <2> HIDE DEF h
    <2>1. x[1] = y[1]
      BY <1>4, <1>5
    <2>2. b[x[1]] \in Bijection(1 .. n[x[1]], U(x[1]))
      BY <1>2, <1>4
    <2>3. b[x[1]][x[2]] = b[x[1]][y[2]] /\ x[2] \in 1 .. n[x[1]] /\ y[2] \in 1 .. n[x[1]]
      BY <1>4, <1>5, <2>1
    <2>4. x[2] = y[2]
      BY <2>2, <2>3 DEF Bijection, Injection, IsInjective
    <2> QED BY <1>4, <2>1, <2>4
  <1>6. h \in Injection(Units(n), Units(v))
    <2>1. h \in [Units(n) -> Units(v)]
      <3>1. \A pk \in Units(n) : b[pk[1]][pk[2]] \in Units(v)
        BY <1>4
      <3> QED BY <3>1
    <2> HIDE DEF h
    <2> QED BY <1>5, <2>1 DEF Injection, IsInjective
  <1> HIDE DEF h
  <1>7. Cardinality(Units(n)) <= Cardinality(Units(v))
    BY <1>1, <1>6, FS_Injection
  <1> QED BY <1>7, UnitsAre DEF n

(* Any non-empty set of numbers has a least one.                           *)
LEMMA LeastNat ==
  ASSUME NEW T \in SUBSET Nat, T # {}
  PROVE  \E n \in T : \A m \in T : n <= m
  <1> DEFINE R == {ss \in Nat \X Nat : ss[1] < ss[2]}
  <1>1. IsWellFoundedOn(R, Nat)
    BY NatLessThanWellFounded DEF OpToRel
  <1>2. \E x \in T : \A y \in T : <<y, x>> \notin R
    <2> HIDE DEF R
    <2> QED BY <1>1, WFMin
  <1>3. PICK x \in T : \A y \in T : <<y, x>> \notin R
    BY <1>2
  <1>4. ASSUME NEW m \in T PROVE x <= m
    <2>1. <<m, x>> \in Nat \X Nat /\ <<m, x>> \notin R
      BY <1>3
    <2>2. ~(m < x)
      BY <2>1
    <2> QED BY <2>2
  <1> QED BY <1>4

(* Rows of a report: times are numbers, entries ascend.                    *)
Reportable(rows) ==
    /\ DOMAIN rows = 1 .. Len(rows) /\ Len(rows) \in Nat
    /\ \A i \in DOMAIN rows : rows[i].entry \in Nat /\ rows[i].exit \in Nat \cup {None}
    /\ \A i, j \in DOMAIN rows : i <= j => rows[i].entry <= rows[j].entry

LEMMA SecondsCount ==
    ASSUME NEW rows, Reportable(rows), NEW i \in DOMAIN rows, NEW t \in Nat
    PROVE  Seconds(rows[i], t) \in Nat
  BY DEF Reportable, Seconds, Longest, IsOngoing

(* Where entries ascend, the first row has the earliest entry: pages and   *)
(* summaries agree.                                                        *)
LEMMA SummedIsTotals ==
    ASSUME NEW rows, Reportable(rows), NEW K \in SUBSET DOMAIN rows, NEW t
    PROVE  Summed(rows, K, t) = Totals(rows, K, t)
  <1> DEFINE E == {rows[i].entry : i \in K}
             first == IF K = {} THEN None ELSE rows[Min(K)].entry
             least == IF K = {} THEN None ELSE Min(E)
  <1>1. CASE K = {}
    BY <1>1 DEF Summed, Totals
  <1>2. CASE K # {}
    <2>1. K \in SUBSET Nat
      BY DEF Reportable
    <2>2. PICK k \in K : \A i \in K : k <= i
      BY <1>2, <2>1, LeastNat
    <2>3. Min(K) = k
      <3>1. \A i \in K : i \in Nat
        BY <2>1
      <3>2. Min(K) \in K /\ \A i \in K : Min(K) <= i
        BY <2>2 DEF Min
      <3> QED BY <2>2, <3>1, <3>2
    <2>4. rows[k].entry \in E /\ \A e \in E : rows[k].entry <= e /\ e \in Nat
      BY <2>2 DEF Reportable
    <2>5. Min(E) = rows[k].entry
      <3> HIDE DEF E
      <3>1. Min(E) \in E /\ \A e \in E : Min(E) <= e
        BY <2>4 DEF Min
      <3> QED BY <2>4, <3>1
    <2> QED BY <1>2, <2>3, <2>5 DEF Summed, Totals
  <1> QED BY <1>1, <1>2

(* Some of a finite set and the rest.                                      *)
LEMMA SplitCount ==
    ASSUME NEW K, IsFiniteSet(K), NEW C \in SUBSET K
    PROVE  Cardinality(K) - Cardinality(C) = Cardinality(K \ C)
  <1>1. Cardinality(K \ C) = Cardinality(K) - Cardinality(K \cap C) /\ K \cap C = C
    BY FS_Difference
  <1>2. Cardinality(K) \in Nat /\ Cardinality(K \ C) \in Nat /\ Cardinality(C) \in Nat
    BY FS_Difference, FS_CardinalityType, FS_Subset
  <1> QED BY <1>1, <1>2

(* A student's row in the summary of a period, and in that of the day.     *)
LEMMA PeriodRow ==
    ASSUME NEW rows, Reportable(rows), NEW meant, NEW p, NEW s, NEW date, NEW t
    PROVE  LET report == PeriodSummary(rows, meant, p, date, FALSE, t)
               seconds == IF s \in DOMAIN report THEN report[s].seconds ELSE 0
               K == InPeriod(rows, p) \cap OnDate(rows, date) \cap OfStudent(rows, s)
           IN  /\ s \in meant => seconds = SumOf([i \in K |-> Seconds(rows[i], t)])
               /\ s \notin meant => seconds = 0
  <1> DEFINE report == PeriodSummary(rows, meant, p, date, FALSE, t)
             seconds == IF s \in DOMAIN report THEN report[s].seconds ELSE 0
             D == InPeriod(rows, p) \cap OnDate(rows, date)
             K == D \cap OfStudent(rows, s)
             sum == SumOf([i \in K |-> Seconds(rows[i], t)])
             there == {x \in meant : FALSE \/ D \cap OfStudent(rows, x) # {}}
  <1> SUFFICES (s \in meant => seconds = sum) /\ (s \notin meant => seconds = 0)
    OBVIOUS
  <1>1. report = [x \in there |-> Summed(rows, D \cap OfStudent(rows, x), t)]
    BY DEF PeriodSummary, Report
  <1>2. K \in SUBSET DOMAIN rows
    BY DEF OfStudent
  <1>3. CASE s \in meant /\ K # {}
    <2>1. s \in DOMAIN report /\ report[s] = Summed(rows, K, t)
      BY <1>1, <1>3
    <2>2. Summed(rows, K, t) = Totals(rows, K, t)
      BY <1>2, SummedIsTotals
    <2>3. Totals(rows, K, t).seconds = sum
      BY DEF Totals
    <2> HIDE DEF report, K
    <2> QED BY <1>3, <2>1, <2>2, <2>3
  <1>4. CASE s \in meant /\ K = {}
    <2>1. s \notin DOMAIN report
      BY <1>1, <1>4
    <2>2. sum = 0
      <3> HIDE DEF K
      <3>1. DOMAIN [i \in K |-> Seconds(rows[i], t)] = {}
        BY <1>4
      <3> QED BY <3>1, SumOfNone
    <2> HIDE DEF report, K
    <2> QED BY <1>4, <2>1, <2>2
  <1>5. CASE s \notin meant
    <2>1. s \notin DOMAIN report
      BY <1>1, <1>5
    <2> QED BY <1>5, <2>1
  <1> QED BY <1>3, <1>4, <1>5

(* A table has finitely many rows.                                         *)
LEMMA ReportableFinite ==
    ASSUME NEW rows, Reportable(rows)
    PROVE  IsFiniteSet(DOMAIN rows)
  BY FS_Interval DEF Reportable

(* The sessions of a student and day that are on the live list.            *)
LiveOn(rows, known, s, date) ==
    {i \in Live(rows, known) : rows[i].student = s /\ rows[i].date = date}

(* A student's day: page and summary agree, the periods' times fit into    *)
(* the day's, and whoever has entered more often than left is live.        *)
LEMMA ReportsAgree ==
    ASSUME Reportable(sessions), now \in Nat, NEW s \in enrolled, NEW date,
           NEW seconds \in [DOMAIN periods -> Nat],
           NEW day, day = DaySummary(sessions, enrolled, date, TRUE, now)[s],
           \A p \in DOMAIN periods : seconds[p] \in {0, PeriodStudent(sessions, p, s, date, now).seconds}
    PROVE  /\ day = StudentDay(sessions, s, date, now)
           /\ SumOf(seconds) <= day.seconds
           /\ day.entries - day.exits = Cardinality(LiveOn(sessions, enrolled, s, date))
  <1> DEFINE K == OnDate(sessions, date) \cap OfStudent(sessions, s)
             C == {i \in K : ~IsOngoing(sessions[i])}
             v == [i \in K |-> Seconds(sessions[i], now)]
  <1>1. K \in SUBSET DOMAIN sessions /\ IsFiniteSet(K)
    <2>1. IsFiniteSet(DOMAIN sessions)
      BY ReportableFinite
    <2>2. K \in SUBSET DOMAIN sessions
      BY DEF OfStudent
    <2> QED BY <2>1, <2>2, FS_Subset
  <1>2. day = Totals(sessions, K, now) /\ StudentDay(sessions, s, date, now) = Totals(sessions, K, now)
    <2>1. day = Summed(sessions, K, now)
      BY DEF DaySummary, Report
    <2> QED BY <1>1, <2>1, SummedIsTotals DEF StudentDay
  <1>3. day.entries = Cardinality(K) /\ day.exits = Cardinality(C) /\ day.seconds = SumOf(v)
    <2>1. /\ Totals(sessions, K, now).entries = Cardinality(K)
          /\ Totals(sessions, K, now).exits = Cardinality(C)
          /\ Totals(sessions, K, now).seconds = SumOf(v)
      <3> HIDE DEF K
      <3> QED BY DEF Totals
    <2> HIDE DEF K, C, v
    <2> QED BY <1>2, <2>1
  <1>4. day.entries - day.exits = Cardinality(LiveOn(sessions, enrolled, s, date))
    <2>1. K \ C = LiveOn(sessions, enrolled, s, date)
      BY DEF LiveOn, Live, OnDate, OfStudent
    <2>2. Cardinality(K) - Cardinality(C) = Cardinality(K \ C)
      <3> HIDE DEF K
      <3> QED BY <1>1, SplitCount
    <2> QED BY <1>3, <2>1, <2>2
  <1>5. SumOf(seconds) <= SumOf(v)
    <2> DEFINE part == [p \in DOMAIN periods |-> IF seconds[p] = 0 THEN {}
                                    ELSE InPeriod(sessions, p) \cap OnDate(sessions, date) \cap OfStudent(sessions, s)]
               sums == [p \in DOMAIN periods |-> SumOf([i \in part[p] |-> v[i]])]
    <2>1. v \in [K -> Nat]
      <3>1. \A i \in K : Seconds(sessions[i], now) \in Nat
        BY <1>1, SecondsCount
      <3> QED BY <3>1
    <2>2. part \in [DOMAIN periods -> SUBSET K]
      OBVIOUS
    <2>3. \A p, q \in DOMAIN periods : p # q => part[p] \cap part[q] = {}
      BY DEF InPeriod
    <2>4. ASSUME NEW p \in DOMAIN periods PROVE seconds[p] = SumOf([i \in part[p] |-> v[i]])
      <3>1. CASE seconds[p] = 0
        <4>1. DOMAIN [i \in part[p] |-> v[i]] = {}
          BY <3>1
        <4> HIDE DEF part, v
        <4> QED BY <3>1, <4>1, SumOfNone
      <3>2. CASE seconds[p] # 0
        <4> DEFINE Kp == InPeriod(sessions, p) \cap OnDate(sessions, date) \cap OfStudent(sessions, s)
        <4>1. part[p] = Kp /\ Kp \subseteq K
          BY <3>2
        <4>2. [i \in Kp |-> Seconds(sessions[i], now)] = [i \in part[p] |-> v[i]]
          BY <4>1
        <4>3. seconds[p] = SumOf([i \in Kp |-> Seconds(sessions[i], now)])
          BY <3>2 DEF PeriodStudent, Totals
        <4> HIDE DEF Kp, part, v
        <4> QED BY <4>2, <4>3
      <3> QED BY <3>1, <3>2
    <2>5. seconds = sums
      <3> HIDE DEF part, v
      <3> QED BY <2>4
    <2>6. SumOf(sums) <= SumOf(v)
      <3> HIDE DEF part, v, K
      <3> QED BY <1>1, <2>1, <2>2, <2>3, SumOfParts
    <2> QED BY <2>5, <2>6
  <1> QED BY <1>2, <1>3, <1>4, <1>5

-----------------------------------------------------------------------------
(* Entries ascend: a session is opened when it is, after all before it.    *)

ByEntry == \A i, j \in DOMAIN sessions : i <= j => sessions[i].entry <= sessions[j].entry

(* Where sessions keep their entries, their order is kept.                 *)
LEMMA SameEntries ==
    ASSUME ByEntry, NEW t, DOMAIN t = DOMAIN sessions,
           \A i \in DOMAIN sessions : t[i].entry = sessions[i].entry
    PROVE  \A i, j \in DOMAIN t : i <= j => t[i].entry <= t[j].entry
  BY DEF ByEntry

(* Shutting a student's sessions keeps the entries.                        *)
LEMMA ShutEntries ==
    ASSUME AlertsInvariant, NEW s \in Students, NEW t, t = ShutAll(s, now)
    PROVE  /\ DOMAIN t = DOMAIN sessions
           /\ \A i \in DOMAIN sessions : t[i].entry = sessions[i].entry
  <1>1. ASSUME NEW i \in DOMAIN sessions PROVE t[i].entry = sessions[i].entry
    <2>1. PICK x \in Rows : x = sessions[i]
      BY RowFields DEF AlertsInvariant
    <2>2. t[i] = x \/ t[i] = [x EXCEPT !.exit = now]
      BY <2>1 DEF ShutAll, Shut
    <2>3. [x EXCEPT !.exit = now].entry = x.entry
      BY DEF Rows
    <2> QED BY <2>1, <2>2, <2>3
  <1> QED BY <1>1 DEF ShutAll

(* A sighting keeps the order: what it opens, it opens now.                *)
LEMMA EnterOrdered ==
    ASSUME AlertsInvariant, ByEntry, NEW s \in Students, Enter(s)
    PROVE  ByEntry'
  <1>1. PICK t : t = ShutAll(s, now)
    OBVIOUS
  <1>2. PICK p \in MatchingPeriods(now, s) :
            sessions' = Append(t, [student |-> s, period |-> p, date |-> LocalDate(now),
                                   entry |-> now, exit |-> None])
    BY <1>1 DEF Enter
  <1>3. PICK x : x = [student |-> s, period |-> p, date |-> LocalDate(now), entry |-> now, exit |-> None]
    OBVIOUS
  <1>4. x.entry = now /\ now \in Nat
    BY <1>3, Constants DEF AlertsInvariant, Typed
  <1>5. /\ t \in Seq(Rows) /\ Len(t) \in Nat /\ DOMAIN t = DOMAIN sessions /\ DOMAIN t = 1 .. Len(t)
    BY <1>1, ShutAllSound
  <1>6. \A i, j \in DOMAIN t : i <= j => t[i].entry <= t[j].entry
    BY <1>1, ShutEntries, SameEntries
  <1>7. \A i \in DOMAIN t : t[i].entry <= now
    BY <1>1, ShutEntries DEF AlertsInvariant, References
  <1>8. PICK u : u = sessions'
    OBVIOUS
  <1>9. /\ DOMAIN u = 1 .. Len(t) + 1 /\ u[Len(t) + 1] = x
        /\ \A i \in 1 .. Len(t) : u[i] = t[i]
    BY <1>2, <1>3, <1>5, <1>8
  <1>10. ASSUME NEW i \in DOMAIN u, NEW j \in DOMAIN u, i <= j
         PROVE  u[i].entry <= u[j].entry
    <2>1. CASE j = Len(t) + 1
      <3>1. u[j].entry = now
        BY <1>4, <1>9, <2>1
      <3>2. i = Len(t) + 1 \/ (i \in DOMAIN t /\ u[i] = t[i])
        BY <1>5, <1>9
      <3> QED BY <1>4, <1>7, <1>9, <2>1, <3>1, <3>2
    <2>2. CASE j # Len(t) + 1
      <3>1. i \in DOMAIN t /\ j \in DOMAIN t
        BY <1>5, <1>9, <1>10, <2>2
      <3> QED BY <1>5, <1>6, <1>9, <1>10, <3>1
    <2> QED BY <2>1, <2>2
  <1> QED BY <1>8, <1>10 DEF ByEntry

(* So do departures and deletions.                                         *)
LEMMA SessionsOrdered ==
    ASSUME AlertsInvariant, ByEntry, [Next]_vars
    PROVE  ByEntry'
  <1>1. ASSUME sessions' = sessions PROVE ByEntry'
    BY <1>1 DEF ByEntry
  <1>2. \A i \in DOMAIN sessions : sessions[i] \in Rows
    BY RowFields DEF AlertsInvariant
  <1>3. ASSUME NEW s \in Students, Leave(s) PROVE ByEntry'
    <2>1. PICK t : t = ShutAll(s, now)
      OBVIOUS
    <2>2. sessions' = t
      BY <1>3, <2>1 DEF Leave
    <2> QED BY <2>1, <2>2, ShutEntries, SameEntries DEF ByEntry
  <1>4. ASSUME DOMAIN sessions' = DOMAIN sessions,
               \A i \in DOMAIN sessions : \/ sessions'[i] = sessions[i]
                                         \/ sessions'[i] = [sessions[i] EXCEPT !.period = None]
                                         \/ sessions'[i] = [sessions[i] EXCEPT !.student = None]
        PROVE  ByEntry'
    <2>1. PICK t : t = sessions'
      OBVIOUS
    <2>2. ASSUME NEW i \in DOMAIN sessions PROVE t[i].entry = sessions[i].entry
      <3>1. PICK x \in Rows : x = sessions[i]
        BY <1>2
      <3>2. PICK y : y = t[i]
        OBVIOUS
      <3>3. y = x \/ y = [x EXCEPT !.period = None] \/ y = [x EXCEPT !.student = None]
        BY <1>4, <2>1, <3>1, <3>2
      <3> QED BY <3>1, <3>2, <3>3, SessionUnreferred
    <2> QED BY <1>4, <2>1, <2>2, SameEntries DEF ByEntry
  <1>5. ASSUME NEW p \in PeriodIds, DeletePeriod(p) PROVE ByEntry'
    BY <1>4, <1>5 DEF DeletePeriod
  <1>6. ASSUME NEW s \in Students, DeleteStudent(s) PROVE ByEntry'
    BY <1>4, <1>6 DEF DeleteStudent
  <1>7. ASSUME NEW j \in Jobs,
               JobBegin(j) \/ JobPeriod(j) \/ JobStudent(j) \/ JobCheck(j) \/ JobInsert(j)
        PROVE  sessions' = sessions
    BY <1>7 DEF JobBegin, JobPeriod, JobStudent, JobCheck, JobInsert
  <1>8. ASSUME NEW a \in Admins,
               \/ AckRead(a) \/ AckCommit(a) \/ ResolveRead(a) \/ ResolveCommit(a)
               \/ CreateRead(a) \/ CreateCommit(a) \/ UpdateRead(a) \/ UpdateCommit(a)
        PROVE  sessions' = sessions
    BY <1>8 DEF AckRead, AckCommit, ResolveRead, ResolveCommit, CreateRead, CreateCommit,
       UpdateRead, UpdateCommit, Ask
  <1>9. ASSUME Tick \/ (\E c \in Clients : Watch(c)) \/ UNCHANGED vars PROVE sessions' = sessions
    BY <1>9 DEF Tick, Watch, vars
  <1> QED BY <1>1, <1>3, <1>5, <1>6, <1>7, <1>8, <1>9, EnterOrdered DEF Next

(* The sessions of the database are rows that reports can be made of.      *)
LEMMA SessionsReportable ==
    ASSUME AlertsInvariant, ByEntry
    PROVE  Reportable(sessions) /\ now \in Nat
  <1>1. now \in Nat
    BY Constants DEF AlertsInvariant, Typed
  <1>2. DOMAIN sessions = 1 .. Len(sessions) /\ Len(sessions) \in Nat
    BY LenProperties DEF AlertsInvariant, Typed
  <1>3. \A i \in DOMAIN sessions : sessions[i].entry \in Nat /\ sessions[i].exit \in Nat \cup {None}
    BY RowFields DEF AlertsInvariant, Rows
  <1> QED BY <1>1, <1>2, <1>3 DEF ByEntry, Reportable

(* The reports of a day, a student's page and the summaries of the periods *)
(* never contradict each other, whatever sightings, edits and deletions    *)
(* came before (student_attendance, summary_for_date, period_summary): no  *)
(* session counts twice, and who is live is ongoing in their day.          *)
THEOREM ReportsStayInAgreement == Spec => []SummariesAgree
  <1>1. Init => AlertsInvariant /\ ByEntry
    <2>1. ASSUME Init PROVE ByEntry
      <3>1. DOMAIN <<>> = {}
        OBVIOUS
      <3> QED BY <2>1, <3>1 DEF Init, ByEntry
    <2> QED BY <2>1, InitInvariant
  <1>2. AlertsInvariant /\ ByEntry /\ [Next]_vars => (AlertsInvariant /\ ByEntry)'
    BY NextKeeps, SessionsOrdered
  <1>3. ASSUME AlertsInvariant, ByEntry PROVE SummariesAgree
    <2> SUFFICES ASSUME NEW s \in enrolled,
                        NEW date \in LocalDate(0) .. LocalDate(MaxTime)
                 PROVE  LET day == DaySummary(sessions, enrolled, date, TRUE, now)[s]
                            meant(p) == {st \in enrolled : Meant(periods[p], st)}
                            ofPeriod(p) ==
                                LET report == PeriodSummary(sessions, meant(p), p, date, FALSE, now) IN
                                IF s \in DOMAIN report THEN report[s].seconds ELSE 0
                        IN /\ day = StudentDay(sessions, s, date, now)
                           /\ \A p \in DOMAIN periods :
                                s \in meant(p) =>
                                    ofPeriod(p) = PeriodStudent(sessions, p, s, date, now).seconds
                           /\ SumOf([p \in DOMAIN periods |-> ofPeriod(p)]) <= day.seconds
                           /\ day.entries - day.exits =
                                Cardinality({i \in Live(sessions, enrolled) :
                                    sessions[i].student = s /\ sessions[i].date = date})
      BY DEF SummariesAgree
    <2> DEFINE day == DaySummary(sessions, enrolled, date, TRUE, now)[s]
               meant(p) == {st \in enrolled : Meant(periods[p], st)}
               report(p) == PeriodSummary(sessions, meant(p), p, date, FALSE, now)
               ofPeriod(p) == IF s \in DOMAIN report(p) THEN report(p)[s].seconds ELSE 0
               K(p) == InPeriod(sessions, p) \cap OnDate(sessions, date) \cap OfStudent(sessions, s)
               total(p) == SumOf([i \in K(p) |-> Seconds(sessions[i], now)])
               seconds == [p \in DOMAIN periods |-> ofPeriod(p)]
    <2>1. Reportable(sessions) /\ now \in Nat
      BY <1>3, SessionsReportable
    <2>2. ASSUME NEW p \in DOMAIN periods
          PROVE  /\ s \in meant(p) => ofPeriod(p) = total(p)
                 /\ s \notin meant(p) => ofPeriod(p) = 0
                 /\ total(p) \in Nat /\ ofPeriod(p) \in Nat
                 /\ PeriodStudent(sessions, p, s, date, now).seconds = total(p)
      <3>1. /\ s \in meant(p) => ofPeriod(p) = total(p)
            /\ s \notin meant(p) => ofPeriod(p) = 0
        <4> HIDE DEF meant
        <4> QED BY <2>1, PeriodRow
      <3>2. total(p) \in Nat
        <4>1. K(p) \subseteq DOMAIN sessions /\ IsFiniteSet(K(p))
          <5>1. IsFiniteSet(DOMAIN sessions)
            BY <2>1, ReportableFinite
          <5>2. K(p) \subseteq DOMAIN sessions
            BY DEF OfStudent
          <5> HIDE DEF K
          <5> QED BY <5>1, <5>2, FS_Subset
        <4>2. [i \in K(p) |-> Seconds(sessions[i], now)] \in [K(p) -> Nat]
          <5>1. \A i \in K(p) : Seconds(sessions[i], now) \in Nat
            <6> HIDE DEF K
            <6> QED BY <2>1, <4>1, SecondsCount
          <5> HIDE DEF K
          <5> QED BY <5>1
        <4> HIDE DEF K
        <4> QED BY <4>1, <4>2, UnitsFinite
      <3>3. PeriodStudent(sessions, p, s, date, now).seconds = total(p)
        BY DEF PeriodStudent, Totals
      <3> HIDE DEF meant, ofPeriod, total
      <3> QED BY <3>1, <3>2, <3>3
    <2>3. seconds \in [DOMAIN periods -> Nat]
      <3> HIDE DEF ofPeriod, total, meant
      <3> QED BY <2>2
    <2>4. \A p \in DOMAIN periods :
            seconds[p] \in {0, PeriodStudent(sessions, p, s, date, now).seconds}
      <3>1. ASSUME NEW p \in DOMAIN periods
            PROVE  seconds[p] \in {0, PeriodStudent(sessions, p, s, date, now).seconds}
        <4> HIDE DEF ofPeriod, total, meant
        <4> QED BY <2>2
      <3> HIDE DEF seconds
      <3> QED BY <3>1
    <2>5. /\ day = StudentDay(sessions, s, date, now)
          /\ SumOf(seconds) <= day.seconds
          /\ day.entries - day.exits = Cardinality(LiveOn(sessions, enrolled, s, date))
      <3>1. day = DaySummary(sessions, enrolled, date, TRUE, now)[s]
        OBVIOUS
      <3>2. now \in Nat /\ Reportable(sessions)
        BY <2>1
      <3> HIDE DEF seconds, day
      <3> QED BY <3>1, <3>2, <2>3, <2>4, ReportsAgree
    <2>6. \A p \in DOMAIN periods :
            s \in meant(p) => ofPeriod(p) = PeriodStudent(sessions, p, s, date, now).seconds
      <3> HIDE DEF ofPeriod, total, meant
      <3> QED BY <2>2
    <2> QED BY <2>5, <2>6, Zenon DEF LiveOn
  <1> QED BY <1>1, <1>2, <1>3, PTL DEF Spec
=============================================================================
