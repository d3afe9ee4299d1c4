-------------------------- MODULE PeriodAlerts --------------------------
(* The timetable, the period a session counts for, the job that compares   *)
(* the two and raises alerts, and what administrators do with these.       *)
(* Jobs may overlap each other, and everything else overlaps the jobs: a   *)
(* query or a commit is a step.  A sighting is one step here (Attendance   *)
(* has it in full).  Time is counted in units of which DayLength make a    *)
(* day; local time is ahead of UTC by Offset.                              *)
EXTENDS LiveFeed, Summaries

CONSTANTS
    Students, Sections, SectionOf,
    Anyone,       \* the section of a period that is for all
    PeriodIds,
    Installed,    \* the timetable to begin with
    Timetables,   \* the periods administrators may write
    Changes,      \* the fields they may change: parts of a period
    Jobs, Admins,
    DayLength, WeekLength, Offset,
    LateGrace, AbsentGrace, EarlyGrace,
    MaxTime, MaxOps   \* bounds

Period == [name : STRING, start : 0 .. DayLength - 1, end : 0 .. DayLength,
           days : SUBSET (0 .. WeekLength - 1), section : Sections \cup {Anyone}]
InRange(period) == period.start < period.end
Changed(period, change) ==
    [f \in DOMAIN period |-> IF f \in DOMAIN change THEN change[f] ELSE period[f]]

ASSUME AlertsAssumption ==
    /\ SectionOf \in [Students -> Sections]
    /\ {DayLength, WeekLength} \subseteq Nat \ {0} /\ Offset \in Int
    /\ {LateGrace, AbsentGrace, EarlyGrace, MaxTime, MaxOps} \subseteq Nat
    /\ LateGrace <= AbsentGrace
    /\ PeriodIds \subseteq Nat /\ Timetables \subseteq Period
    /\ DOMAIN Installed \subseteq PeriodIds /\ Installed \in [DOMAIN Installed -> Timetables]
    /\ \A p, q \in DOMAIN Installed : Installed[p].name = Installed[q].name => p = q
    /\ \A period \in Timetables : InRange(period)
    /\ \A change \in Changes, period \in Timetables : Changed(period, change) \in Period

VARIABLES
    now,
    enrolled,   \* students in the database
    periods,    \* the timetable: periods by id
    edited,     \* history: ids whose times, days or section were changed
    sessions,   \* attendance sessions in the order they were opened
    alerts,     \* alerts in the order they were created
    job,        \* what each run of the deviation job is doing
    admin,      \* what each administrator's request has read
    ops         \* sightings, requests and runs begun, for the bound

vars == <<now, enrolled, periods, edited, sessions, alerts, job, admin, ops, feedVars>>

Resting == [pc |-> "idle"]

Counted == ops < MaxOps /\ ops' = ops + 1

Init ==
    /\ now = 0
    /\ enrolled = Students
    /\ periods = Installed
    /\ edited = {}
    /\ sessions = <<>>
    /\ alerts = <<>>
    /\ job = [j \in Jobs |-> Resting]
    /\ admin = [a \in Admins |-> Resting]
    /\ ops = 0
    /\ FeedInit

-----------------------------------------------------------------------------
LocalDate(t) == (t + Offset) \div DayLength
LocalTime(t) == (t + Offset) % DayLength
Weekday(date) == date % WeekLength
Instant(date, time) == date * DayLength + time - Offset
UtcMidnight(date) == date * DayLength    \* midnight of that date, but in UTC

Meant(period, s) == period.section \in {Anyone, SectionOf[s]}

(* Mutant: a period holds its last instant too.                            *)
FitsClosed(p, t, s) ==
    /\ Meant(periods[p], s)
    /\ Weekday(LocalDate(t)) \in periods[p].days
    /\ periods[p].start <= LocalTime(t) /\ LocalTime(t) <= periods[p].end

Fits(p, t, s) ==
    /\ Meant(periods[p], s)
    /\ Weekday(LocalDate(t)) \in periods[p].days
    /\ periods[p].start <= LocalTime(t) /\ LocalTime(t) < periods[p].end

(* The fitting period that starts first; of several, any.                  *)
MatchingPeriods(t, s) ==
    LET fitting == {p \in DOMAIN periods : Fits(p, t, s)} IN
    IF fitting = {} THEN {None}
    ELSE {p \in fitting : \A q \in fitting : periods[p].start <= periods[q].start}

-----------------------------------------------------------------------------
(* Sightings.                                                              *)

IsOpen(i, s) == sessions[i].student = s /\ sessions[i].exit = None
Shut(i, t) == [sessions[i] EXCEPT !.exit = t]
ShutAll(s, t) == [i \in DOMAIN sessions |-> IF IsOpen(i, s) THEN Shut(i, t) ELSE sessions[i]]

Enter(s) ==
    /\ s \in enrolled /\ Counted
    /\ \A i \in DOMAIN sessions : IsOpen(i, s) => sessions[i].date < LocalDate(now)
    /\ \E p \in MatchingPeriods(now, s) :
        sessions' = Append(ShutAll(s, now),
            [student |-> s, period |-> p, date |-> LocalDate(now), entry |-> now, exit |-> None])
    /\ PublishOrNot
    /\ UNCHANGED <<now, enrolled, periods, edited, alerts, job, admin>>

Leave(s) ==
    /\ Counted
    /\ \E i \in DOMAIN sessions : IsOpen(i, s)
    /\ sessions' = ShutAll(s, now)
    /\ PublishOrNot
    /\ UNCHANGED <<now, enrolled, periods, edited, alerts, job, admin>>

Tick ==
    /\ now < MaxTime
    /\ now' = now + 1
    /\ UNCHANGED <<enrolled, periods, edited, sessions, alerts, job, admin, ops, feedVars>>

-----------------------------------------------------------------------------
(* The deviation job.                                                      *)

Due(period, t) ==
    /\ Weekday(LocalDate(t)) \in period.days
    /\ t >= Instant(LocalDate(t), period.start) + AbsentGrace

(* A run of the job goes through the periods due, through the students     *)
(* expected in each, and through the alerts due for each: this is what it  *)
(* does next.                                                              *)
Begun(t, todo) ==
    [pc |-> "period", now |-> t, todo |-> todo, at |-> <<>>,
     expected |-> {}, due |-> <<>>, looked |-> 0, raced |-> FALSE]

Onward(run) ==
    IF run.due # <<>> THEN [run EXCEPT !.pc = "check"]
    ELSE IF run.expected # {} THEN [run EXCEPT !.pc = "student"]
    ELSE IF run.todo # {} THEN Begun(run.now, run.todo)
    ELSE Resting

Goes(j, run) == job' = [k \in Jobs |-> IF k = j THEN Onward(run) ELSE job[k]]

(* Time and timetable are read once.                                       *)
JobBegin(j) ==
    /\ job[j].pc = "idle" /\ Counted
    /\ Goes(j, Begun(now, {<<p, periods[p]>> : p \in {p \in DOMAIN periods : Due(periods[p], now)}}))
    /\ UNCHANGED <<now, enrolled, periods, edited, sessions, alerts, admin, feedVars>>

JobPeriod(j) ==
    /\ job[j].pc = "period"
    /\ \E next \in job[j].todo :
        Goes(j, [job[j] EXCEPT !.todo = @ \ {next}, !.at = next,
                               !.expected = {s \in enrolled : Meant(next[2], s)}])
    /\ UNCHANGED <<now, enrolled, periods, edited, sessions, alerts, admin, ops, feedVars>>

(* The alerts due for a student with these sessions: being absent, or      *)
(* being late and, once for every session, leaving early.                  *)
DueFor(period, date, attended) ==
    LET late == \A i \in attended :
                    sessions[i].entry > Instant(date, period.start) + LateGrace
        early == {i \in attended :
                    /\ sessions[i].exit # None
                    /\ sessions[i].exit < Instant(date, period.end) - EarlyGrace}
    IN IF attended = {} THEN <<"student_absent">>
       ELSE (IF late THEN <<"student_late">> ELSE <<>>)
            \o [i \in 1 .. Cardinality(early) |-> "early_exit"]

(* Mutant: only sessions that go on count.                                 *)
AttendedStill(p, s, date) ==
    {i \in DOMAIN sessions : /\ sessions[i].student = s /\ sessions[i].period = p
                             /\ sessions[i].date = date /\ sessions[i].exit = None}

Attended(p, s, date) ==
    {i \in DOMAIN sessions : /\ sessions[i].student = s /\ sessions[i].period = p
                             /\ sessions[i].date = date}

JobStudent(j) ==
    /\ job[j].pc = "student"
    /\ \E s \in job[j].expected :
        LET date == LocalDate(job[j].now)
            kinds == DueFor(job[j].at[2], date, Attended(job[j].at[1], s, date))
        IN Goes(j, [job[j] EXCEPT !.expected = @ \ {s}, !.looked = Len(sessions),
                                  !.due = [i \in DOMAIN kinds |-> <<kinds[i], s>>]])
    /\ UNCHANGED <<now, enrolled, periods, edited, sessions, alerts, admin, ops, feedVars>>

Same(alert, kind, p, s) == alert.kind = kind /\ alert.period = p /\ alert.student = s

(* Mutant: an acknowledged alert does not count.                           *)
JobCheckOpen(j) ==
    /\ job[j].pc = "check"
    /\ IF \E i \in DOMAIN alerts :
            /\ Same(alerts[i], Head(job[j].due)[1], job[j].at[1], Head(job[j].due)[2])
            /\ alerts[i].created >= UtcMidnight(LocalDate(job[j].now))
            /\ alerts[i].acked = None
       THEN Goes(j, [job[j] EXCEPT !.due = Tail(@)])
       ELSE job' = [job EXCEPT ![j].pc = "insert", ![j].raced = FALSE]
    /\ UNCHANGED <<now, enrolled, periods, edited, sessions, alerts, admin, ops, feedVars>>

(* An alert of the same kind since midnight makes another one superfluous. *)
JobCheck(j) ==
    /\ job[j].pc = "check"
    /\ IF \E i \in DOMAIN alerts :
            /\ Same(alerts[i], Head(job[j].due)[1], job[j].at[1], Head(job[j].due)[2])
            /\ alerts[i].created >= UtcMidnight(LocalDate(job[j].now))
       THEN Goes(j, [job[j] EXCEPT !.due = Tail(@)])
       ELSE job' = [job EXCEPT ![j].pc = "insert", ![j].raced = FALSE]
    /\ UNCHANGED <<now, enrolled, periods, edited, sessions, alerts, admin, ops, feedVars>>

Inserting(j, kind, p, s) ==
    /\ job[j].pc = "insert" /\ job[j].at[1] = p
    /\ Head(job[j].due) = <<kind, s>>

(* The alert is committed on its own, then published.  A student or period *)
(* that is gone by now ends the run: the foreign key fails.                *)
JobInsert(j) ==
    /\ job[j].pc = "insert"
    /\ LET kind == Head(job[j].due)[1]
           s == Head(job[j].due)[2]
           p == job[j].at[1]
       IN IF s \notin enrolled \/ p \notin DOMAIN periods
          THEN /\ job' = [job EXCEPT ![j] = Resting]
               /\ UNCHANGED <<alerts, feedVars>>
          ELSE /\ alerts' = Append(alerts,
                    [kind |-> kind, student |-> s, period |-> p, date |-> LocalDate(job[j].now),
                     created |-> now, acked |-> None, resolved |-> None,
                     raced |-> job[j].raced, looked |-> job[j].looked])
               /\ job' = [k \in Jobs |->
                    IF k = j THEN Onward([job[j] EXCEPT !.due = Tail(@), !.raced = FALSE])
                    ELSE IF Inserting(k, kind, p, s) THEN [job[k] EXCEPT !.raced = TRUE]
                    ELSE job[k]]
               /\ PublishOrNot
    /\ UNCHANGED <<now, enrolled, periods, edited, sessions, admin, ops>>

-----------------------------------------------------------------------------
(* Administrators: alerts.                                                 *)

Ask(a, request) ==
    /\ admin[a] = Resting
    /\ Counted
    /\ admin' = [admin EXCEPT ![a] = request]
    /\ UNCHANGED <<now, enrolled, periods, edited, sessions, alerts, job, feedVars>>

(* A request that finds the stamp set changes nothing.                     *)
AckRead(a) ==
    \E i \in DOMAIN alerts :
        alerts[i].acked = None /\ Ask(a, [pc |-> "ack", alert |-> i])

AckCommit(a) ==
    /\ admin[a].pc = "ack"
    /\ alerts' = [alerts EXCEPT ![admin[a].alert].acked = now]
    /\ admin' = [admin EXCEPT ![a] = Resting]
    /\ UNCHANGED <<now, enrolled, periods, edited, sessions, job, ops, feedVars>>

ResolveRead(a) ==
    \E i \in DOMAIN alerts :
        /\ alerts[i].resolved = None
        /\ Ask(a, [pc |-> "resolve", alert |-> i, acked |-> alerts[i].acked])

(* Mutant: resolving leaves the acknowledgement alone.                     *)
ResolveCommitOnly(a) ==
    /\ admin[a].pc = "resolve"
    /\ alerts' = [alerts EXCEPT ![admin[a].alert].resolved = now]
    /\ admin' = [admin EXCEPT ![a] = Resting]
    /\ UNCHANGED <<now, enrolled, periods, edited, sessions, job, ops, feedVars>>

ResolveCommit(a) ==
    /\ admin[a].pc = "resolve"
    /\ LET i == admin[a].alert IN
       alerts' = [alerts EXCEPT ![i].resolved = now,
                                ![i].acked = IF admin[a].acked = None THEN now ELSE @]
    /\ admin' = [admin EXCEPT ![a] = Resting]
    /\ UNCHANGED <<now, enrolled, periods, edited, sessions, job, ops, feedVars>>

-----------------------------------------------------------------------------
(* Administrators: the timetable and the students.                         *)

Named(name) == {p \in DOMAIN periods : periods[p].name = name}

CreateRead(a) ==
    \E period \in Timetables :
        Named(period.name) = {} /\ Ask(a, [pc |-> "create", period |-> period])

(* The database refuses a name that is taken by now.                       *)
CreateCommit(a) ==
    /\ admin[a].pc = "create"
    /\ IF Named(admin[a].period.name) # {} THEN UNCHANGED periods
       ELSE \E p \in PeriodIds \ (DOMAIN periods \cup edited) :
            periods' = [q \in DOMAIN periods \cup {p} |-> IF q = p THEN admin[a].period ELSE periods[q]]
    /\ admin' = [admin EXCEPT ![a] = Resting]
    /\ UNCHANGED <<now, enrolled, edited, sessions, alerts, job, ops, feedVars>>

UpdateRead(a) ==
    \E p \in DOMAIN periods, change \in Changes :
        /\ "name" \in DOMAIN change => Named(change.name) \subseteq {p}
        /\ InRange(Changed(periods[p], change))
        /\ Ask(a, [pc |-> "update", id |-> p,
                   change |-> Restrict(change, {f \in DOMAIN change : change[f] # periods[p][f]})])

(* Only the fields that change are written; the database refuses a taken name, a  *)
(* range that is empty by now, and a row that is gone.                     *)
UpdateCommit(a) ==
    /\ admin[a].pc = "update"
    /\ LET p == admin[a].id
           change == admin[a].change
       IN IF /\ p \in DOMAIN periods
             /\ "name" \in DOMAIN change => Named(change.name) \subseteq {p}
             /\ InRange(Changed(periods[p], change))
          THEN /\ periods' = [periods EXCEPT ![p] = Changed(@, change)]
               /\ edited' = edited \cup (IF DOMAIN change \subseteq {"name"} THEN {} ELSE {p})
          ELSE UNCHANGED <<periods, edited>>
    /\ admin' = [admin EXCEPT ![a] = Resting]
    /\ UNCHANGED <<now, enrolled, sessions, alerts, job, ops, feedVars>>

(* Sessions and alerts stay and lose the reference.                        *)
DeletePeriod(p) ==
    /\ p \in DOMAIN periods /\ Counted
    /\ periods' = [q \in DOMAIN periods \ {p} |-> periods[q]]
    /\ edited' = edited \cup {p}
    /\ sessions' = [i \in DOMAIN sessions |->
            IF sessions[i].period = p THEN [sessions[i] EXCEPT !.period = None] ELSE sessions[i]]
    /\ alerts' = [i \in DOMAIN alerts |->
            IF alerts[i].period = p THEN [alerts[i] EXCEPT !.period = None] ELSE alerts[i]]
    /\ UNCHANGED <<now, enrolled, job, admin, feedVars>>

(* The student's sessions go; alerts stay and lose the reference.  A       *)
(* session that is gone keeps its place here, with no student.             *)
DeleteStudent(s) ==
    /\ s \in enrolled /\ Counted
    /\ enrolled' = enrolled \ {s}
    /\ sessions' = [i \in DOMAIN sessions |->
            IF sessions[i].student = s THEN [sessions[i] EXCEPT !.student = None] ELSE sessions[i]]
    /\ alerts' = [i \in DOMAIN alerts |->
            IF alerts[i].student = s THEN [alerts[i] EXCEPT !.student = None] ELSE alerts[i]]
    /\ UNCHANGED <<now, periods, edited, job, admin, feedVars>>

(* A dashboard that opens is a request too.                                *)
Watch(c) ==
    /\ \/ Open(c) /\ Counted
       \/ Follow(c) /\ UNCHANGED ops
    /\ UNCHANGED <<now, enrolled, periods, edited, sessions, alerts, job, admin>>

Next ==
    \/ Tick
    \/ \E s \in Students : Enter(s) \/ Leave(s) \/ DeleteStudent(s)
    \/ \E j \in Jobs : JobBegin(j) \/ JobPeriod(j) \/ JobStudent(j) \/ JobCheck(j) \/ JobInsert(j)
    \/ \E a \in Admins :
        \/ AckRead(a) \/ AckCommit(a) \/ ResolveRead(a) \/ ResolveCommit(a)
        \/ CreateRead(a) \/ CreateCommit(a) \/ UpdateRead(a) \/ UpdateCommit(a)
    \/ \E p \in PeriodIds : DeletePeriod(p)
    \/ \E c \in Clients : Watch(c)

Spec == Init /\ [][Next]_vars

-----------------------------------------------------------------------------
TypeOK ==
    /\ now \in 0 .. MaxTime /\ ops \in 0 .. MaxOps
    /\ enrolled \subseteq Students /\ edited \subseteq PeriodIds
    /\ DOMAIN periods \subseteq PeriodIds
    /\ \A p \in DOMAIN periods : periods[p] \in Period
    /\ \A i \in DOMAIN sessions :
        /\ sessions[i].student \in enrolled \cup {None}
        /\ sessions[i].period \in DOMAIN periods \cup {None}
        /\ sessions[i].exit = None \/ sessions[i].entry <= sessions[i].exit
    /\ \A i \in DOMAIN alerts :
        /\ alerts[i].student \in enrolled \cup {None}
        /\ alerts[i].period \in DOMAIN periods \cup {None}
    /\ \A j \in Jobs : job[j].pc \in {"idle", "period", "student", "check", "insert"}
    /\ \A a \in Admins : admin[a].pc \in {"idle", "ack", "resolve", "create", "update"}

(* The job looks for an alert before it inserts one, in two transactions,  *)
(* and alerts of one kind, student and period should come once a day:      *)
(* another one for the same day was inserted while this run was between    *)
(* its look and its insert, or dates from before midnight UTC of that day, *)
(* where the look does not reach when local time is ahead.                 *)
DuplicatesExplained ==
    \A i, j \in DOMAIN alerts :
        (/\ i < j
         /\ None \notin {alerts[i].student, alerts[i].period}
         /\ Same(alerts[j], alerts[i].kind, alerts[i].period, alerts[i].student)
         /\ alerts[i].date = alerts[j].date) =>
            alerts[j].raced \/ alerts[i].created < UtcMidnight(alerts[i].date)

(* An absence is only reported of a student who had no session in that     *)
(* period on that day when the job asked for them: one the alert           *)
(* contradicts was opened after that query.                                *)
AbsentExplained ==
    \A i \in DOMAIN alerts, k \in DOMAIN sessions :
        (/\ alerts[i].kind = "student_absent"
         /\ None \notin {alerts[i].student, alerts[i].period}
         /\ sessions[k].student = alerts[i].student
         /\ sessions[k].period = alerts[i].period
         /\ sessions[k].date = alerts[i].date) => k > alerts[i].looked

(* However requests interleave, the timetable keeps its names apart and    *)
(* its ranges ordered, and a session counts for a period that held its     *)
(* entry, unless that period was edited since.                             *)
PeriodsSound ==
    /\ \A p, q \in DOMAIN periods : periods[p].name = periods[q].name => p = q
    /\ \A p \in DOMAIN periods : InRange(periods[p])
    /\ \A i \in DOMAIN sessions :
        LET x == sessions[i] IN
        None \notin {x.student, x.period} /\ x.period \notin edited =>
            /\ Fits(x.period, x.entry, x.student)
            /\ x.entry < Instant(x.date, periods[x.period].end)

(* A resolved alert is acknowledged, whatever requests overlap, and        *)
(* neither stamp is older than the alert.                                  *)
ResolvedAcked ==
    \A i \in DOMAIN alerts :
        /\ alerts[i].resolved # None => alerts[i].acked # None
        /\ \A stamp \in {alerts[i].acked, alerts[i].resolved} :
            stamp # None => alerts[i].created <= stamp

(* The reports agree: what a day's summary says of a student is what the   *)
(* student's own page says, a student's time in the periods of a day is    *)
(* never more than the time of that day, and who is live is ongoing in the *)
(* summary of the day they came.  The two read a day differently: the page *)
(* takes the first of its rows, the summary the earliest entry.            *)
SummariesAgree ==
    \A s \in enrolled, date \in LocalDate(0) .. LocalDate(MaxTime) :
        LET day == DaySummary(sessions, enrolled, date, TRUE, now)[s]
            meant(p) == {st \in enrolled : Meant(periods[p], st)}
            ofPeriod(p) ==
                LET report == PeriodSummary(sessions, meant(p), p, date, FALSE, now) IN
                IF s \in DOMAIN report THEN report[s].seconds ELSE 0
        IN /\ day = StudentDay(sessions, s, date, now)
           /\ \A p \in DOMAIN periods :
                s \in meant(p) => ofPeriod(p) = PeriodStudent(sessions, p, s, date, now).seconds
           /\ SumOf([p \in DOMAIN periods |-> ofPeriod(p)]) <= day.seconds
           /\ day.entries - day.exits =
                Cardinality({i \in Live(sessions, enrolled) :
                    sessions[i].student = s /\ sessions[i].date = date})
=============================================================================
