------------------------------ MODULE RemoteCall ------------------------------
(***************************************************************************)
(* What a caller of the inference service may rely on, with no queue,      *)
(* batch or clock: a call is answered with the faces of exactly the frames *)
(* it passed, in their order, or it fails.  A frame's faces are named by   *)
(* the frame.                                                              *)
(***************************************************************************)
EXTENDS Naturals, Sequences

CONSTANTS
  Callers,   \* camera pipelines and API requests
  Batches,   \* the sequences of frames that a call may pass
  Readable   \* the frames that decode as images

VARIABLE call  \* call[c]: where c's current or last call stands

Ready == [at |-> "ready", frames |-> <<>>, faces |-> <<>>]

Init == call = [c \in Callers |-> Ready]

(* One call at a time for each caller.                                     *)
Ask(c, frames) ==
  /\ call[c].at # "asked"
  /\ call' = [call EXCEPT ![c] = [at |-> "asked", frames |-> frames, faces |-> <<>>]]

Answer(c) ==
  /\ call[c].at = "asked"
  /\ \A i \in 1 .. Len(call[c].frames) : call[c].frames[i] \in Readable
  /\ call' = [call EXCEPT ![c] =
       [at |-> "answered", frames |-> <<>>, faces |-> call[c].frames]]

(* A timeout, a lost connection or an error reported by the service.       *)
Fail(c) ==
  /\ call[c].at = "asked"
  /\ call' = [call EXCEPT ![c] =
       [at |-> "failed", frames |-> <<>>, faces |-> <<>>]]

Next == \E c \in Callers : Answer(c) \/ Fail(c) \/ \E frames \in Batches : Ask(c, frames)

Spec == Init /\ [][Next]_call

=============================================================================
