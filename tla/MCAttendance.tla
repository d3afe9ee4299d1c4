---------------------------- MODULE MCAttendance ----------------------------
(***************************************************************************)
(* Instances of Attendance for TLC.                                        *)
(***************************************************************************)
EXTENDS Attendance, TLC

CONSTANTS c1, c2

(* Two dates: midnight falls between instant 1 and instant 2.              *)
MCLocalDate == [t \in Time |-> t \div 2]

(* Two dates: midnight falls between instant 0 and instant 1.              *)
EarlyMidnight == [t \in Time |-> (t + 1) \div 2]

(* Two entry points, the second one also an exit.                          *)
TwoOpeners == c1 :> "entry" @@ c2 :> "both"

(* One entry point and one exit.                                           *)
EntryAndExit == c1 :> "entry" @@ c2 :> "exit"

=============================================================================
