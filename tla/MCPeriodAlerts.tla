------------------------- MODULE MCPeriodAlerts -------------------------
EXTENDS PeriodAlerts

CONSTANTS s1, c1, c2, everyone

MCSectionOf == s1 :> c1
Maths == [name |-> "maths", start |-> 0, end |-> 2, days |-> {0, 1}, section |-> everyone]
Art == [name |-> "art", start |-> 0, end |-> 1, days |-> {1}, section |-> c1]
MCTimetables == {Maths, Art}
MCInstalled == 1 :> Maths
MCChanges == {[start |-> 1], [end |-> 1, section |-> c2]}
MCSymmetry == Permutations(Jobs) \cup Permutations(Admins)
=============================================================================
