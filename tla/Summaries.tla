--------------------------- MODULE Summaries ---------------------------
(* What attendance reports compute from session rows, each a record of a   *)
(* student, a period or None, a date, an entry and an exit or None, in the *)
(* order of their entries.  A query selects positions of rows.             *)
EXTENDS Integers, Sequences, SequencesExt, FiniteSets

None == -1

IsOngoing(row) == row.exit = None
Longest(m, n) == IF m > n THEN m ELSE n

(* An ongoing session lasts until now; a clock set back counts as zero.    *)
Seconds(row, t) == Longest(0, (IF IsOngoing(row) THEN t ELSE row.exit) - row.entry)

(* The sum of the numbers f[x]: so many units, counted.                    *)
SumOf(f) == Cardinality(UNION {{x} \X (1 .. f[x]) : x \in DOMAIN f})

OfStudent(rows, s) == {i \in DOMAIN rows : rows[i].student = s}
OnDate(rows, date) == {i \in DOMAIN rows : rows[i].date = date}
InPeriod(rows, p) == {i \in DOMAIN rows : rows[i].period = p}

(* The totals of some sessions: on a student's page the first entry is the *)
(* one of the row that comes first, in a summary the earliest there is.    *)
Totals(rows, K, t) ==
    [entries |-> Cardinality(K),
     exits |-> Cardinality({i \in K : ~IsOngoing(rows[i])}),
     seconds |-> SumOf([i \in K |-> Seconds(rows[i], t)]),
     first |-> IF K = {} THEN None ELSE rows[Min(K)].entry,
     last |-> Max({None} \cup {rows[i].exit : i \in K})]

Summed(rows, K, t) ==
    [Totals(rows, K, t) EXCEPT !.first = IF K = {} THEN None ELSE Min({rows[i].entry : i \in K})]

(* The totals of one student.                                              *)
StudentDay(rows, s, date, t) == Totals(rows, OnDate(rows, date) \cap OfStudent(rows, s), t)
PeriodStudent(rows, p, s, date, t) ==
    Totals(rows, InPeriod(rows, p) \cap OnDate(rows, date) \cap OfStudent(rows, s), t)

(* A row for every known student who was there, or for every known one.    *)
Report(rows, K, known, absent, t) ==
    [s \in {s \in known : absent \/ K \cap OfStudent(rows, s) # {}} |->
        Summed(rows, K \cap OfStudent(rows, s), t)]

DaySummary(rows, students, date, absent, t) == Report(rows, OnDate(rows, date), students, absent, t)

(* Mutant: the sessions of every day.                                      *)
PeriodSummaryEver(rows, meant, p, date, absent, t) ==
    Report(rows, InPeriod(rows, p), meant, absent, t)

(* meant: the students of the period's section.                            *)
PeriodSummary(rows, meant, p, date, absent, t) ==
    Report(rows, InPeriod(rows, p) \cap OnDate(rows, date), meant, absent, t)

Live(rows, students) ==
    {i \in DOMAIN rows : rows[i].student \in students /\ IsOngoing(rows[i])}
=============================================================================
