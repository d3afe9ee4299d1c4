------------------------------ MODULE Presence ------------------------------
(***************************************************************************)
(* What an attendance ledger promises, with no sessions, cameras or        *)
(* transactions: each student is away, or present since some date.         *)
(***************************************************************************)
EXTENDS Integers

CONSTANTS
  Students,  \* the students
  Dates,     \* calendar dates, natural numbers
  Away       \* the value for "not present", not a number

VARIABLE inside  \* inside[s]: the date the student is present since, or Away

Init == inside = [s \in Students |-> Away]

(* A student who was away is now present.                                  *)
Arrive(s, d) ==
  /\ inside[s] = Away
  /\ inside' = [inside EXCEPT ![s] = d]

(* Present students leave; the stale-session job makes several leave.      *)
Leave(S) ==
  /\ \A s \in S : inside[s] # Away
  /\ inside' = [s \in Students |-> IF s \in S THEN Away ELSE inside[s]]

(* A presence nobody ended is replaced by one of a later date.             *)
Rollover(s, d) ==
  /\ inside[s] \in Dates
  /\ inside[s] < d
  /\ inside' = [inside EXCEPT ![s] = d]

Next ==
  \/ \E s \in Students, d \in Dates : Arrive(s, d) \/ Rollover(s, d)
  \/ \E S \in SUBSET Students : Leave(S)

Spec == Init /\ [][Next]_inside

=============================================================================
