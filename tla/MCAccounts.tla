---------------------------- MODULE MCAccounts ----------------------------
(* Each edit changes one column; the second name is the one accounts take  *)
(* and leave.                                                              *)
EXTENDS Accounts

CONSTANTS admin, ann, p, q

Only(f, v) == [SetStatus(None) EXCEPT ![f] = v]
MCEdits == {Only("name", ann), Only("pw", q), Only("role", "admin"), Only("role", "super_admin"),
            Only("status", "active")}
=============================================================================
