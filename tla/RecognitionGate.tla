-------------------------- MODULE RecognitionGate --------------------------
(***************************************************************************)
(* What stands between a matched face and the attendance ledger, for one   *)
(* stream camera: the K-of-N confirmation buffer, which is a global of the *)
(* worker child and outlives the pipelines that run in it; the dedup key   *)
(* in Redis, which outlives everything; and the transaction, which is      *)
(* committed after the key was set.  A pipeline can end at any point in    *)
(* between, and the camera's next pipeline may run in the same child or in *)
(* another one, also while the old one is still busy.                      *)
(***************************************************************************)
EXTENDS Integers, Sequences, FiniteSets

CONSTANTS
  Students,     \* the students in the index
  Unknown,      \* a face that matches nobody; one stranger, with one key
  FaceLists,    \* what one frame may show: sequences of students and Unknown
                \* (no Unknown where log_unknown_faces is off)
  CameraType,   \* "entry", "exit" or "both"
  Children,     \* the children of the worker pool
  K,            \* confirmation_frames
  Window,       \* confirmation_window_s
  DedupWindow,  \* dedup_window_seconds, above 0
  LogAll,       \* dedup_log_all
  MaxTime,      \* bound on the wall clock
  MaxFrames,    \* bound on the frames taken
  None

Subjects == Students \cup {Unknown}
Time     == 0 .. MaxTime

ASSUME GateAssumption ==
  /\ Unknown \notin Students
  /\ FaceLists \subseteq Seq(Subjects)
  /\ CameraType \in {"entry", "exit", "both"}
  /\ K \in Nat \ {0} /\ Window \in Nat /\ DedupWindow \in Nat \ {0}
  /\ LogAll \in BOOLEAN
  /\ MaxTime \in Nat /\ MaxFrames \in Nat
  /\ None \notin Int

VARIABLES
  now,      \* the wall clock
  frames,   \* the number of frames taken so far
  at,       \* at[ch]: what the pipeline in the child does; "off": none
  hand,     \* hand[ch]: the frame being handled, its faces still to come first
  clock,    \* clock[ch]: the time stamp of the last frame
  buffer,   \* buffer[ch][s]: the sightings waiting to confirm s
  expires,  \* expires[x]: when the dedup key of x expires
  inside,   \* inside[s]: s has an open session of today
  log,      \* the camera's rows of the recognition log, in commit order
  lost      \* history: claims whose pipeline ended before its commit

pipelines == <<at, hand, clock, buffer>>
vars == <<now, frames, pipelines, expires, inside, log, lost>>

-----------------------------------------------------------------------------
(* An entry of the buffer is a time stamp; the frame and the place in it   *)
(* tell apart the sightings of one instant, so that a set can hold them.   *)
Sighting(h) == [ts |-> h.ts, frame |-> h.frame, place |-> Len(h.faces)]

NoHand ==
  [ts |-> 0, frame |-> 0, faces |-> << >>, votes |-> {}, claimed |-> None]

Face(ch) == Head(hand[ch].faces)

(* Variant with a fault: nothing is pruned.                                *)
KeptAll(buf, ts) == buf

(* buf[:] = [t for t in buf if t >= cutoff]: the order plays no part.      *)
Kept(buf, ts) == {v \in buf : v.ts >= ts - Window}

(* What process_recognition would do with a sighting of today, where       *)
(* students come and go through this camera alone.  The type is the        *)
(* camera's, so entries and exits at a "both" camera share a dedup key.    *)
Outcome(x) ==
  IF x = Unknown THEN "none"
  ELSE IF inside[x]
         THEN IF CameraType = "entry" THEN "none" ELSE "exit"
         ELSE IF CameraType = "exit" THEN "none" ELSE "entry"

(* Who is inside once the sighting in hand is committed.                   *)
Recorded(ch) ==
  [s \in Students |->
     IF s = Face(ch) /\ Outcome(s) # "none" THEN ~inside[s] ELSE inside[s]]

KeyPresent(x) == now < expires[x]

(* Variant with a fault: the continue is forgotten.                        *)
NextFaceFalling(ch) ==
  /\ hand' = [hand EXCEPT ![ch].faces = Tail(@),
                          ![ch].votes = {}, ![ch].claimed = None]
  /\ UNCHANGED at

(* The loop over the faces goes on with the next one.                      *)
NextFace(ch) ==
  /\ at' = [at EXCEPT ![ch] = "faces"]
  /\ hand' = [hand EXCEPT ![ch].faces = Tail(@),
                          ![ch].votes = {}, ![ch].claimed = None]

Row(ch, kind, outcome) ==
  [subject |-> Face(ch), ts |-> hand[ch].ts, kind |-> kind,
   outcome |-> outcome, votes |-> hand[ch].votes, claimed |-> hand[ch].claimed]

-----------------------------------------------------------------------------
Init ==
  /\ now = 0
  /\ frames = 0
  /\ at = [ch \in Children |-> "off"]
  /\ hand = [ch \in Children |-> NoHand]
  /\ clock = [ch \in Children |-> 0]
  /\ buffer = [ch \in Children |-> [s \in Students |-> {}]]
  /\ expires = [x \in Subjects |-> 0]
  /\ inside = [s \in Students |-> FALSE]
  /\ log = << >>
  /\ lost = {}

(* A pipeline starts in a free child; its reader stamps frames from now on. *)
Start(ch) ==
  /\ at[ch] = "off"
  /\ at' = [at EXCEPT ![ch] = "idle"]
  /\ clock' = [clock EXCEPT ![ch] = now]
  /\ UNCHANGED <<now, frames, hand, buffer, expires, inside, log, lost>>

(* A frame comes back from inference with its faces; it may have waited.   *)
TakeFrame(ch) ==
  /\ at[ch] = "idle"
  /\ frames < MaxFrames
  /\ frames' = frames + 1
  /\ \E ts \in clock[ch] .. now, fs \in FaceLists :
       /\ clock' = [clock EXCEPT ![ch] = ts]
       /\ hand' = [hand EXCEPT ![ch] = [NoHand EXCEPT
                     !.ts = ts, !.frame = frames + 1, !.faces = fs]]
  /\ at' = [at EXCEPT ![ch] = "faces"]
  /\ UNCHANGED <<now, buffer, expires, inside, log, lost>>

EndFrame(ch) ==
  /\ at[ch] = "faces"
  /\ hand[ch].faces = << >>
  /\ at' = [at EXCEPT ![ch] = "idle"]
  /\ hand' = [hand EXCEPT ![ch] = NoHand]
  /\ UNCHANGED <<now, frames, clock, buffer, expires, inside, log, lost>>

(* An unmatched face needs no confirmation.                                *)
Unmatched(ch) ==
  /\ at[ch] = "faces"
  /\ hand[ch].faces # << >>
  /\ Face(ch) = Unknown
  /\ at' = [at EXCEPT ![ch] = "claim"]
  /\ UNCHANGED <<now, frames, hand, clock, buffer, expires, inside, log, lost>>

(* Variant with a fault: the buffer is not cleared by a confirmation.      *)
ConfirmKeeping(ch) ==
  LET s    == Face(ch)
      kept == Kept(buffer[ch][s] \cup {Sighting(hand[ch])}, hand[ch].ts)
  IN  /\ at[ch] = "faces"
      /\ hand[ch].faces # << >>
      /\ s # Unknown
      /\ buffer' = [buffer EXCEPT ![ch][s] = kept]
      /\ IF Cardinality(kept) >= K
           THEN /\ at' = [at EXCEPT ![ch] = "claim"]
                /\ hand' = [hand EXCEPT ![ch].votes = kept]
           ELSE NextFace(ch)
      /\ UNCHANGED <<now, frames, clock, expires, inside, log, lost>>

(* _confirm_pass: the sighting joins the buffer, the old ones leave it,    *)
(* and K of them confirm the student and empty it.                         *)
Confirm(ch) ==
  LET s    == Face(ch)
      kept == Kept(buffer[ch][s] \cup {Sighting(hand[ch])}, hand[ch].ts)
  IN  /\ at[ch] = "faces"
      /\ hand[ch].faces # << >>
      /\ s # Unknown
      /\ IF Cardinality(kept) >= K
           THEN /\ buffer' = [buffer EXCEPT ![ch][s] = {}]
                /\ at' = [at EXCEPT ![ch] = "claim"]
                /\ hand' = [hand EXCEPT ![ch].votes = kept]
           ELSE /\ buffer' = [buffer EXCEPT ![ch][s] = kept]
                /\ NextFace(ch)
      /\ UNCHANGED <<now, frames, clock, expires, inside, log, lost>>

(* Variant with a fault: SET without NX.                                   *)
ClaimAnyway(ch) ==
  /\ at[ch] = "claim"
  /\ expires' = [expires EXCEPT ![Face(ch)] = now + DedupWindow]
  /\ at' = [at EXCEPT ![ch] = "commit"]
  /\ hand' = [hand EXCEPT ![ch].claimed = now]
  /\ UNCHANGED <<now, frames, clock, buffer, inside, log, lost>>

(* dedup_pass: SET NX EX sets the key, ...                                 *)
Claim(ch) ==
  /\ at[ch] = "claim"
  /\ ~KeyPresent(Face(ch))
  /\ expires' = [expires EXCEPT ![Face(ch)] = now + DedupWindow]
  /\ at' = [at EXCEPT ![ch] = "commit"]
  /\ hand' = [hand EXCEPT ![ch].claimed = now]
  /\ UNCHANGED <<now, frames, clock, buffer, inside, log, lost>>

(* ... or finds it, and the sighting is dropped or only logged, ...        *)
Suppress(ch) ==
  /\ at[ch] = "claim"
  /\ KeyPresent(Face(ch))
  /\ log' = IF LogAll /\ Face(ch) # Unknown
              THEN Append(log, Row(ch, "repeat", "none")) ELSE log
  /\ NextFace(ch)
  /\ UNCHANGED <<now, frames, clock, buffer, expires, inside, lost>>

(* ... or Redis does not answer, and the sighting passes without a key.    *)
(* (If it set the key and only the answer was lost, the step is Claim.)    *)
PassBlindly(ch) ==
  /\ at[ch] = "claim"
  /\ at' = [at EXCEPT ![ch] = "commit"]
  /\ UNCHANGED <<now, frames, hand, clock, buffer, expires, inside, log, lost>>

(* Variant with a fault: only a sighting that changes a session is logged. *)
CommitChangesOnly(ch) ==
  /\ at[ch] = "commit"
  /\ log' = IF Outcome(Face(ch)) = "none"
              THEN log ELSE Append(log, Row(ch, "first", Outcome(Face(ch))))
  /\ inside' = Recorded(ch)
  /\ NextFace(ch)
  /\ UNCHANGED <<now, frames, clock, buffer, expires, lost>>

(* The audit row and the session change are one commit.  (Attendance has   *)
(* the transaction in full.)                                               *)
Commit(ch) ==
  /\ at[ch] = "commit"
  /\ log' = Append(log, Row(ch, "first", Outcome(Face(ch))))
  /\ inside' = Recorded(ch)
  /\ NextFace(ch)
  /\ UNCHANGED <<now, frames, clock, buffer, expires, lost>>

LostClaim(x, claimed) == [subject |-> x, claimed |-> claimed]

(* The pipeline ends, at the top of its loop when it is stopped, anywhere  *)
(* when an exception leaves the loop: an open transaction is rolled back,  *)
(* the key stays.                                                          *)
End(ch) ==
  /\ at[ch] # "off"
  /\ at' = [at EXCEPT ![ch] = "off"]
  /\ hand' = [hand EXCEPT ![ch] = NoHand]
  /\ clock' = [clock EXCEPT ![ch] = 0]
  /\ lost' = IF at[ch] = "commit"
               THEN lost \cup {LostClaim(Face(ch), hand[ch].claimed)}
               ELSE lost
  /\ UNCHANGED <<now, frames, expires, inside, log>>

(* The child lives on with its buffer, ...                                 *)
Leave(ch) == End(ch) /\ UNCHANGED buffer

(* ... or dies, and the pool replaces it with a fresh one.                 *)
Die(ch) ==
  /\ End(ch)
  /\ buffer' = [buffer EXCEPT ![ch] = [s \in Students |-> {}]]

Tick ==
  /\ now < MaxTime
  /\ now' = now + 1
  /\ UNCHANGED <<frames, pipelines, expires, inside, log, lost>>

Next ==
  \/ \E ch \in Children :
       \/ Start(ch) \/ TakeFrame(ch) \/ EndFrame(ch) \/ Unmatched(ch)
       \/ Confirm(ch) \/ Claim(ch) \/ Suppress(ch) \/ PassBlindly(ch)
       \/ Commit(ch) \/ Leave(ch) \/ Die(ch)
  \/ Tick

Spec == Init /\ [][Next]_vars

-----------------------------------------------------------------------------
(* Properties                                                              *)

Vote == [ts : Time, frame : Nat, place : Nat]

Hand ==
  [ts : Time, frame : 0 .. MaxFrames, faces : Seq(Subjects),
   votes : SUBSET Vote, claimed : Time \cup {None}]

LogRow ==
  [subject : Subjects, ts : Time, kind : {"first", "repeat"},
   outcome : {"none", "entry", "exit"}, votes : SUBSET Vote,
   claimed : Time \cup {None}]

(* Every variable keeps its type; a pipeline that claims or commits has a  *)
(* face in hand, and no frame is from the future.                          *)
TypeOK ==
  /\ now \in Time /\ frames \in 0 .. MaxFrames
  /\ at \in [Children -> {"off", "idle", "faces", "claim", "commit"}]
  /\ hand \in [Children -> Hand]
  /\ \A ch \in Children :
       at[ch] \in {"claim", "commit"} => hand[ch].faces # << >>
  /\ clock \in [Children -> Time]
  /\ \A ch \in Children : clock[ch] <= now
  /\ buffer \in [Children -> [Students -> SUBSET Vote]]
  /\ expires \in [Subjects -> 0 .. (MaxTime + DedupWindow)]
  /\ inside \in [Students -> BOOLEAN]
  /\ log \in Seq(LogRow)
  /\ lost \subseteq [subject : Subjects, claimed : Time \cup {None}]

(* A recorded student was confirmed by K sightings of the last Window      *)
(* seconds, and no sighting confirms twice: neither a buffer left by an    *)
(* earlier pipeline of the child nor a second pipeline of the camera gives *)
(* a row votes that are too old or that another row has already used.      *)
RowsEarned ==
  \A i \in DOMAIN log : log[i].subject # Unknown =>
    /\ Cardinality(log[i].votes) >= K
    /\ \A v \in log[i].votes : v.ts \in (log[i].ts - Window) .. log[i].ts
    /\ \A j \in DOMAIN log : log[i].votes \cap log[j].votes # {} => i = j

(* "same student + same camera within DEDUP_WINDOW_SECONDS -> one event"   *)
(* (docs/ARCHITECTURE.md:55): whatever pipelines the camera has, one after *)
(* the other or two at a time, two recordings of a subject that went       *)
(* through Redis were claimed a window apart.                              *)
OncePerWindow ==
  \A i, j \in DOMAIN log :
    /\ i # j
    /\ log[i].kind = "first" /\ log[i].claimed # None
    /\ log[j].kind = "first" /\ log[j].claimed # None
    /\ log[i].subject = log[j].subject
    => \/ log[i].claimed + DedupWindow <= log[j].claimed
       \/ log[j].claimed + DedupWindow <= log[i].claimed

(* Suppression has a reason: while a dedup key holds a subject back, the   *)
(* sighting that set it is recorded, or is about to be, or went down with  *)
(* its pipeline.                                                           *)
KeysAccounted ==
  \A x \in Subjects : KeyPresent(x) =>
    LET since == expires[x] - DedupWindow
    IN  \/ \E i \in DOMAIN log : log[i].subject = x /\ log[i].claimed = since
        \/ \E ch \in Children :
             at[ch] = "commit" /\ Face(ch) = x /\ hand[ch].claimed = since
        \/ LostClaim(x, since) \in lost

=============================================================================
