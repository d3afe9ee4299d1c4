SPECIFICATION Spec
CONSTANTS
    s1 = s1
    c1 = c1
    c2 = c2
    everyone = everyone
    Students = {s1}
    Sections = {c1, c2}
    SectionOf <- MCSectionOf
    Anyone = everyone
    PeriodIds = {1, 2}
    Installed <- MCInstalled
    Timetables <- MCTimetables
    Changes <- MCChanges
    Jobs = {j1, j2}
    Admins = {a1, a2}
    Clients = {d1}
    DayLength = 2
    WeekLength = 2
    Offset = 1
    LateGrace = 0
    AbsentGrace = 0
    EarlyGrace = 0
    BacklogLimit = 2
    ReplayLimit = 2
    MaxTime = 2
    MaxOps = 4
SYMMETRY MCSymmetry
CHECK_DEADLOCK FALSE
INVARIANTS DuplicatesExplained AbsentExplained PeriodsSound ResolvedAcked FeedExplained SummariesAgree
