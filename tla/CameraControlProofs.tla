------------------------ MODULE CameraControlProofs ------------------------
(***************************************************************************)
(* Theorems about CameraControl, for any number of cameras, slots,         *)
(* children, tasks and API threads.                                        *)
(*                                                                         *)
(* Type correctness holds in every environment.  That a camera has one     *)
(* pipeline, that it is never hidden from a stop request and that a stop   *)
(* flag is not lost hold as long as two start requests for one camera do   *)
(* not overlap, stops are not forced and keys do not outlive their day.    *)
(* Requests for different cameras, stops and starts of one camera, crashes,*)
(* slow loops, the reaper and a failing broker may overlap as they like.   *)
(* That no state key stands unexplained holds in every environment.        *)
(***************************************************************************)
EXTENDS CameraControl, WellFoundedInduction, TLAPS

-----------------------------------------------------------------------------
(* Type correctness                                                        *)

(* The labels of the program counters, spelled out.                        *)
LEMMA IdleIsNoRequest ==
  /\ Idle \notin Request /\ Idle.at = "idle" /\ Idle.slot = NoSlot
  /\ Idle.task = None
  /\ "idle" \notin StartLabels \cup StopLabels
  /\ "idle" \notin SlotLabels
BY DEF Idle, Request, StartLabels, StopLabels, SlotLabels

(* A task that was never sent is told apart from every sent one.           *)
LEMMA FreeIsNoTask == Free \notin Task /\ Free.at = "free" /\ "free" \notin Labels
BY DEF Free, Task, Labels

(* The slot search walks from 0 through the slot numbers to NoSlot.        *)
LEMMA SlotNumbers ==
  /\ NoSlot \notin SlotIds /\ NoSlot \in Nat /\ 0 \in SlotIds
  /\ SlotIds \subseteq Nat
  /\ \A i \in SlotIds : i + 1 \in SlotIds \cup {NoSlot}
BY ControlAssumption DEF SlotIds, NoSlot

(* A nonempty set of slot numbers has a smallest one.                      *)
LEMMA SmallestNat ==
  ASSUME NEW S \in SUBSET Nat, S # {}
  PROVE  \E i \in S : \A j \in S : i <= j
<1>1. IsWellFoundedOn(OpToRel(<, Nat), Nat)
    BY NatLessThanWellFounded
<1>2. PICK i \in S : \A j \in S : ~ (<<j, i>> \in OpToRel(<, Nat))
    BY <1>1, WFMin
<1>3. \A j \in S : ~ (j < i)
    BY <1>2 DEF OpToRel
<1> QED BY <1>3

(* A request that is not idle is a proper one.                             *)
LEMMA RequestAt ==
  ASSUME TypeOK, NEW r \in Requests, req[r].at # "idle"
  PROVE  req[r] \in Request
BY IdleIsNoRequest DEF TypeOK

(* A task that is not free is a proper one.                                *)
LEMMA TaskAt ==
  ASSUME TypeOK, NEW t \in Tasks, task[t].at # "free"
  PROVE  task[t] \in Task
BY FreeIsNoTask DEF TypeOK

(* The initial state is typed.                                             *)
LEMMA TypeInit == Init => TypeOK
<1> SUFFICES ASSUME Init PROVE TypeOK
    OBVIOUS
<1>1. /\ state \in [Cameras -> {None, "starting", "running", "stopping"}]
      /\ stop \subseteq Cameras
      /\ beat \in [Cameras -> {None} \cup 0 .. (HeartbeatTtl - 1)]
      /\ taskKey \in [Cameras -> Tasks \cup {None}]
      /\ members \subseteq Cameras
      /\ slot \in [SlotIds -> Cameras \cup {None}]
      /\ revoked \subseteq Tasks
      /\ reap \in SlotIds \cup {NoSlot}
      /\ left \subseteq Cameras
    BY DEF Init
<1>2. task \in [Tasks -> Task \cup {Free}]
    BY DEF Init
<1>3. req \in [Requests -> Request \cup {Idle}]
    BY DEF Init
<1>4. \A r \in Requests : req[r].at \in SlotLabels => req[r].slot \in SlotIds
    BY IdleIsNoRequest DEF Init
<1> QED BY <1>1, <1>2, <1>3, <1>4 DEF TypeOK

(* The part of TypeOK about requests, for a step of one thread.            *)
LEMMA RequestTyped ==
  ASSUME TypeOK, NEW r \in Requests, NEW q \in Request \cup {Idle},
         q.at \in SlotLabels => q.slot \in SlotIds,
         req' = [req EXCEPT ![r] = q]
  PROVE  /\ req' \in [Requests -> Request \cup {Idle}]
         /\ \A p \in Requests : req'[p].at \in SlotLabels => req'[p].slot \in SlotIds
<1>1. req \in [Requests -> Request \cup {Idle}]
    BY DEF TypeOK
<1>2. req' \in [Requests -> Request \cup {Idle}]
    BY <1>1
<1>3. ASSUME NEW p \in Requests, req'[p].at \in SlotLabels
      PROVE  req'[p].slot \in SlotIds
  <2>1. CASE p = r
      BY <1>1, <1>3, <2>1
  <2>2. CASE p # r
      BY <1>1, <1>3, <2>2 DEF TypeOK
  <2> QED BY <2>1, <2>2
<1> QED BY <1>2, <1>3

(* A request that ends leaves the requests typed.                          *)
LEMMA RequestIdles ==
  ASSUME TypeOK, NEW r \in Requests, req' = [req EXCEPT ![r] = Idle]
  PROVE  /\ req' \in [Requests -> Request \cup {Idle}]
         /\ \A p \in Requests : req'[p].at \in SlotLabels => req'[p].slot \in SlotIds
BY RequestTyped, IdleIsNoRequest

(* The next label of a request; a label that writes a slot needs one.      *)
LEMMA RequestMoves ==
  ASSUME TypeOK, NEW r \in Requests, req[r].at # "idle",
         NEW label \in StartLabels \cup StopLabels, ReqTo(r, label),
         label \in SlotLabels => req[r].slot \in SlotIds
  PROVE  /\ req' \in [Requests -> Request \cup {Idle}]
         /\ \A p \in Requests : req'[p].at \in SlotLabels => req'[p].slot \in SlotIds
<1> DEFINE q == [req[r] EXCEPT !.at = label]
<1>1. req[r] \in Request
    BY RequestAt
<1>2. q \in Request /\ q.at = label /\ q.slot = req[r].slot
    BY <1>1 DEF Request
<1>3. req' = [req EXCEPT ![r] = q]
    BY DEF ReqTo
<1> HIDE DEF q
<1> QED BY <1>2, <1>3, RequestTyped

(* ... and of a task.                                                      *)
LEMMA TaskMoves ==
  ASSUME TypeOK, NEW t \in Tasks, task[t].at # "free",
         NEW label \in Labels, TaskTo(t, label)
  PROVE  task' \in [Tasks -> Task \cup {Free}]
<1>1. task[t] \in Task
    BY TaskAt
<1>2. [task[t] EXCEPT !.at = label] \in Task
    BY <1>1 DEF Task
<1> QED BY <1>2 DEF TaskTo, TypeOK

(* Deleting a camera's keys leaves the keys typed.                         *)
LEMMA ClearTyped ==
  ASSUME TypeOK, NEW c \in Cameras, ClearKeys(c)
  PROVE  /\ state' \in [Cameras -> {None, "starting", "running", "stopping"}]
         /\ stop' \subseteq Cameras
         /\ beat' \in [Cameras -> {None} \cup 0 .. (HeartbeatTtl - 1)]
         /\ taskKey' \in [Cameras -> Tasks \cup {None}]
         /\ members' \subseteq Cameras
         /\ slot' \in [SlotIds -> Cameras \cup {None}]
         /\ left' \subseteq Cameras
BY DEF TypeOK, ClearKeys

(* TypeOK after a step, from what the step does to each kind of variable.  *)
LEMMA KeysKept ==
  ASSUME TypeOK, UNCHANGED keys
  PROVE  /\ state' \in [Cameras -> {None, "starting", "running", "stopping"}]
         /\ stop' \subseteq Cameras
         /\ beat' \in [Cameras -> {None} \cup 0 .. (HeartbeatTtl - 1)]
         /\ taskKey' \in [Cameras -> Tasks \cup {None}]
         /\ members' \subseteq Cameras
         /\ slot' \in [SlotIds -> Cameras \cup {None}]
         /\ left' \subseteq Cameras
BY DEF TypeOK, keys

(* A start request that passes its check keeps the types, ...              *)
LEMMA StartCheckTyped ==
  ASSUME TypeOK, NEW r \in Requests, NEW c \in Cameras, StartCheck(r, c)
  PROVE  TypeOK'
<1> DEFINE q == [Idle EXCEPT !.at = "look", !.camera = c, !.slot = 0]
<1>1. q \in Request /\ (q.at \in SlotLabels => q.slot \in SlotIds)
    BY SlotNumbers DEF Idle, Request, StartLabels, SlotLabels
<1>2. req' = [req EXCEPT ![r] = q]
    BY DEF StartCheck
<1> HIDE DEF q
<1>3. /\ req' \in [Requests -> Request \cup {Idle}]
      /\ \A p \in Requests : req'[p].at \in SlotLabels => req'[p].slot \in SlotIds
    BY <1>1, <1>2, RequestTyped
<1>4. UNCHANGED <<keys, task, revoked, reap>>
    BY DEF StartCheck
<1> QED BY <1>3, <1>4 DEF TypeOK, keys

(* ... as does its look at a slot, ...                                     *)
LEMMA StartLookTyped ==
  ASSUME TypeOK, NEW r \in Requests, StartLook(r)
  PROVE  TypeOK'
<1> DEFINE i == req[r].slot
<1>1. /\ req[r].at = "look" /\ req[r].at # "idle"
      /\ req[r] \in Request
      /\ UNCHANGED <<keys, task, revoked, reap>>
    BY RequestAt DEF StartLook, At
<1>2. i \in SlotIds \cup {NoSlot}
    BY <1>1 DEF Request
<1>3. /\ req' \in [Requests -> Request \cup {Idle}]
      /\ \A p \in Requests : req'[p].at \in SlotLabels => req'[p].slot \in SlotIds
  <2>1. CASE i = NoSlot /\ req' = [req EXCEPT ![r] = Idle]
      BY <2>1, RequestIdles
  <2>2. CASE i # NoSlot /\ (ReqTo(r, "announce") \/ ReqTo(r, "claim") \/ ReqTo(r, "reclaim"))
      BY <1>1, <1>2, <2>2, RequestMoves DEF StartLabels
  <2>3. CASE i # NoSlot /\ req' = [req EXCEPT ![r].slot = i + 1]
    <3> DEFINE q == [req[r] EXCEPT !.slot = i + 1]
    <3>1. q \in Request
        BY <1>1, <1>2, <2>3, SlotNumbers DEF Request
    <3>2. q.at \notin SlotLabels
        BY <1>1 DEF SlotLabels, Request
    <3>3. req' = [req EXCEPT ![r] = q]
        BY <2>3
    <3> HIDE DEF q
    <3> QED BY <3>1, <3>2, <3>3, RequestTyped
  <2> QED BY <2>1, <2>2, <2>3 DEF StartLook
<1> QED BY <1>1, <1>3 DEF TypeOK, keys

(* ... the claim of a free slot or of a dead owner's, ...                  *)
LEMMA StartClaimTyped ==
  ASSUME TypeOK, NEW r \in Requests, StartReclaim(r) \/ StartClaim(r)
  PROVE  TypeOK'
<1> DEFINE i == req[r].slot
<1>1. /\ req[r].at \in SlotLabels /\ req[r].at \in {"reclaim", "claim"}
      /\ UNCHANGED <<state, stop, beat, taskKey, members, task, revoked, reap, left>>
    BY DEF StartReclaim, StartClaim, At, SlotLabels
<1>2. req[r].at # "idle" /\ req[r] \in Request
    BY <1>1, RequestAt
<1>3. i \in SlotIds /\ req[r].camera \in Cameras
    BY <1>1, <1>2 DEF TypeOK, Request
<1>4. slot' \in [SlotIds -> Cameras \cup {None}]
    BY <1>3 DEF TypeOK, StartReclaim, StartClaim
<1>5. /\ req' \in [Requests -> Request \cup {Idle}]
      /\ \A p \in Requests : req'[p].at \in SlotLabels => req'[p].slot \in SlotIds
  <2>1. CASE ReqTo(r, "claim") \/ ReqTo(r, "announce")
      BY <1>2, <1>3, <2>1, RequestMoves DEF StartLabels
  <2>2. CASE req' = [req EXCEPT ![r].at = "look", ![r].slot = i + 1]
    <3> DEFINE q == [req[r] EXCEPT !.at = "look", !.slot = i + 1]
    <3>1. q \in Request
        BY <1>2, <1>3, SlotNumbers DEF Request, StartLabels
    <3>2. q.at \notin SlotLabels
        BY <1>2 DEF SlotLabels, Request
    <3>3. req' = [req EXCEPT ![r] = q]
        BY <2>2 DEF TypeOK
    <3> HIDE DEF q
    <3> QED BY <3>1, <3>2, <3>3, RequestTyped
  <2> QED BY <2>1, <2>2 DEF StartReclaim, StartClaim
<1> QED BY <1>1, <1>4, <1>5 DEF TypeOK

(* ... and the rest of the request, from the state key to the task id.     *)
LEMMA StartRestTyped ==
  ASSUME TypeOK, NEW r \in Requests,
         StartAnnounce(r) \/ StartSend(r) \/ StartSendFails(r) \/ StartRecord(r)
  PROVE  TypeOK'
<1>1. /\ req[r].at \in {"announce", "send", "record"}
      /\ req[r].at # "idle" /\ req[r] \in Request
    BY RequestAt DEF StartAnnounce, StartSend, StartSendFails, StartRecord, At
<1>2. req[r].camera \in Cameras /\ req[r].slot \in SlotIds
    BY <1>1 DEF TypeOK, Request, SlotLabels
<1>3. CASE StartAnnounce(r)
  <2>1. /\ req' \in [Requests -> Request \cup {Idle}]
        /\ \A p \in Requests : req'[p].at \in SlotLabels => req'[p].slot \in SlotIds
      BY <1>1, <1>2, <1>3, RequestMoves DEF StartAnnounce, StartLabels
  <2> QED BY <1>2, <1>3, <2>1 DEF StartAnnounce, TypeOK
<1>4. CASE StartSend(r)
  <2> PICK t \in Tasks :
         /\ task' = [task EXCEPT ![t] =
              [camera |-> req[r].camera, slot |-> req[r].slot, at |-> "queued"]]
         /\ req' = [req EXCEPT ![r].at = "record", ![r].task = t]
      BY <1>4 DEF StartSend
  <2> DEFINE q == [req[r] EXCEPT !.at = "record", !.task = t]
  <2>1. q \in Request /\ q.slot \in SlotIds
      BY <1>1, <1>2 DEF Request, StartLabels
  <2>2. req' = [req EXCEPT ![r] = q]
      BY DEF TypeOK
  <2> HIDE DEF q
  <2>3. /\ req' \in [Requests -> Request \cup {Idle}]
        /\ \A p \in Requests : req'[p].at \in SlotLabels => req'[p].slot \in SlotIds
      BY <2>1, <2>2, RequestTyped
  <2>4. task' \in [Tasks -> Task \cup {Free}]
      BY <1>2 DEF TypeOK, Task, Labels
  <2>5. /\ UNCHANGED <<state, stop, beat, taskKey, members, slot, revoked, reap>>
        /\ left' = left \ {req[r].camera}
      BY <1>4 DEF StartSend
  <2> QED BY <2>3, <2>4, <2>5 DEF TypeOK
<1>5. CASE StartSendFails(r)
  <2>1. /\ req' \in [Requests -> Request \cup {Idle}]
        /\ \A p \in Requests : req'[p].at \in SlotLabels => req'[p].slot \in SlotIds
      BY <1>5, RequestIdles DEF StartSendFails
  <2> QED BY <1>2, <1>5, <2>1 DEF StartSendFails, TypeOK
<1>6. CASE StartRecord(r)
  <2>1. /\ req' \in [Requests -> Request \cup {Idle}]
        /\ \A p \in Requests : req'[p].at \in SlotLabels => req'[p].slot \in SlotIds
      BY <1>6, RequestIdles DEF StartRecord
  <2>2. req[r].task \in Tasks \cup {None}
      BY <1>1 DEF Request
  <2> QED BY <1>2, <1>6, <2>1, <2>2 DEF StartRecord, TypeOK
<1> QED BY <1>3, <1>4, <1>5, <1>6

(* A stop request that found the camera running keeps the types, ...       *)
LEMMA StopCheckTyped ==
  ASSUME TypeOK, NEW r \in Requests, NEW c \in Cameras, NEW f \in BOOLEAN,
         StopCheck(r, c, f)
  PROVE  TypeOK'
<1> DEFINE q == [at |-> "flag", camera |-> c, slot |-> SlotOf(c),
                 task |-> taskKey[c], force |-> f]
<1>1. SlotOf(c) \in SlotIds \cup {NoSlot}
  <2> DEFINE owned == {i \in SlotIds : slot[i] = c}
             first(i) == \A j \in owned : i <= j
  <2>1. CASE owned = {}
      BY <2>1 DEF SlotOf
  <2>2. CASE owned # {}
    <3>1. \E i \in owned : first(i)
      <4>1. owned \subseteq Nat /\ owned # {}
          BY <2>2, SlotNumbers
      <4> HIDE DEF owned
      <4> QED BY <4>1, SmallestNat
    <3>2. (CHOOSE i \in owned : first(i)) \in owned
        BY <3>1
    <3> QED BY <2>2, <3>2 DEF SlotOf
  <2> QED BY <2>1, <2>2
<1>2. q \in Request /\ q.at \notin SlotLabels
    BY <1>1 DEF Request, TypeOK, StopLabels, SlotLabels
<1>3. req' = [req EXCEPT ![r] = q] /\ UNCHANGED <<keys, task, revoked, reap>>
    BY DEF StopCheck
<1> HIDE DEF q
<1>4. /\ req' \in [Requests -> Request \cup {Idle}]
      /\ \A p \in Requests : req'[p].at \in SlotLabels => req'[p].slot \in SlotIds
    BY <1>2, <1>3, RequestTyped
<1> QED BY <1>3, <1>4 DEF TypeOK, keys

(* ... as do its writes, forced or not.                                    *)
LEMMA StopTyped ==
  ASSUME TypeOK, NEW r \in Requests, StopSteps(r)
  PROVE  TypeOK'
<1>1. req[r].at \in StopLabels /\ req[r].at # "idle" /\ req[r] \in Request
    BY RequestAt DEF StopSteps, StopFlag, StopMark, StopRevoke, StopClear,
                     StopOwner, StopDrop, At, StopLabels
<1>2. req[r].camera \in Cameras
    BY <1>1 DEF Request
<1> DEFINE ReqTyped ==
      /\ req' \in [Requests -> Request \cup {Idle}]
      /\ \A p \in Requests : req'[p].at \in SlotLabels => req'[p].slot \in SlotIds
<1>3. CASE StopFlag(r)
  <2>1. ReqTyped
      BY <1>1, <1>3, RequestMoves DEF StopFlag, StopLabels, SlotLabels
  <2> QED BY <1>2, <1>3, <2>1 DEF StopFlag, TypeOK
<1>4. CASE StopMark(r)
  <2>1. CASE req' = [req EXCEPT ![r] = Idle]
    <3>1. ReqTyped
        BY <2>1, RequestIdles
    <3> QED BY <1>2, <1>4, <3>1 DEF StopMark, TypeOK
  <2>2. CASE ReqTo(r, "revoke")
    <3>1. ReqTyped
        BY <1>1, <2>2, RequestMoves DEF StopLabels, SlotLabels
    <3> QED BY <1>2, <1>4, <3>1 DEF StopMark, TypeOK
  <2> QED BY <1>4, <2>1, <2>2 DEF StopMark, ReqTo
<1>5. CASE StopRevoke(r)
  <2>1. ReqTyped
      BY <1>1, <1>5, RequestMoves DEF StopRevoke, StopLabels, SlotLabels
  <2>2. revoked' \subseteq Tasks
      BY <1>1, <1>5 DEF StopRevoke, TypeOK, Request
  <2> QED BY <1>5, <2>1, <2>2 DEF StopRevoke, TypeOK, keys
<1>6. CASE StopClear(r)
  <2>1. ReqTyped
      BY <1>1, <1>6, RequestMoves DEF StopClear, StopLabels, SlotLabels
  <2> QED BY <1>2, <1>6, <2>1, ClearTyped DEF StopClear, TypeOK
<1>7. CASE StopOwner(r)
  <2>1. CASE ReqTo(r, "drop") /\ req[r].slot # NoSlot
    <3>1. ReqTyped
        BY <1>1, <2>1, RequestMoves DEF StopLabels, Request
    <3> QED BY <1>7, <3>1 DEF StopOwner, TypeOK, keys
  <2>2. CASE req' = [req EXCEPT ![r] = Idle]
    <3>1. ReqTyped
        BY <2>2, RequestIdles
    <3> QED BY <1>7, <3>1 DEF StopOwner, TypeOK, keys
  <2> QED BY <1>7, <2>1, <2>2 DEF StopOwner
<1>8. CASE StopDrop(r)
  <2>1. ReqTyped
      BY <1>8, RequestIdles DEF StopDrop
  <2> QED BY <1>8, <2>1 DEF StopDrop, TypeOK
<1> QED BY <1>3, <1>4, <1>5, <1>6, <1>7, <1>8 DEF StopSteps

(* Every step of a pipeline task, its death included, keeps the types.     *)
LEMMA TaskTyped ==
  ASSUME TypeOK, NEW t \in Tasks,
         Progress(t) \/ Beat(t) \/ FailLoop(t) \/ Kill(t) \/ Crash(t)
  PROVE  TypeOK'
<1> DEFINE Typed == task' \in [Tasks -> Task \cup {Free}]
<1>1. CASE Begin(t) \/ SeeStop(t) \/ FailLoop(t)
  <2>1. Typed
      BY <1>1, TaskMoves DEF Begin, SeeStop, FailLoop, Looping, Labels
  <2> QED BY <1>1, <2>1 DEF Begin, SeeStop, FailLoop, TypeOK, keys
<1>2. CASE Run(t)
  <2>1. Typed
      BY <1>2, TaskMoves DEF Run, Labels
  <2>2. task[t].camera \in Cameras
      BY <1>2, TaskAt DEF Run, Task
  <2>3. 0 \in 0 .. (HeartbeatTtl - 1)
      BY ControlAssumption
  <2> QED BY <1>2, <2>1, <2>2, <2>3 DEF Run, TypeOK
<1>3. CASE Beat(t)
  <2>1. 0 \in 0 .. (HeartbeatTtl - 1)
      BY ControlAssumption
  <2> QED BY <1>3, <2>1 DEF Beat, TypeOK
<1>4. CASE Cleanup(t)
  <2>1. Typed
      BY <1>4, TaskMoves DEF Cleanup, Labels
  <2>2. task[t].camera \in Cameras
      BY <1>4, TaskAt DEF Cleanup, Task
  <2> QED BY <1>4, <2>1, <2>2, ClearTyped DEF Cleanup, TypeOK
<1>5. CASE CheckOwner(t)
  <2>1. Typed /\ revoked' \subseteq Tasks
      BY <1>5, TaskMoves DEF CheckOwner, Labels, TypeOK
  <2> QED BY <1>5, <2>1 DEF CheckOwner, TypeOK, keys
<1>6. CASE DropSlot(t)
  BY <1>6 DEF DropSlot, TypeOK
<1>7. CASE Kill(t) \/ Crash(t)
  BY <1>7, TaskAt DEF Kill, Crash, Dies, Holds, Active, Task, TypeOK, keys
<1> QED BY <1>1, <1>2, <1>3, <1>4, <1>5, <1>6, <1>7 DEF Progress

(* Expiring keys and the reaper keep the types.                            *)
LEMMA OthersTyped ==
  ASSUME TypeOK, (\E c \in Cameras : Age(c) \/ ExpireKeys(c)) \/ ReaperLook \/ ReaperDrop
  PROVE  TypeOK'
<1>1. CASE \E c \in Cameras : Age(c)
  <2> PICK c \in Cameras : Age(c)
      BY <1>1
  <2>1. beat[c] \in 0 .. (HeartbeatTtl - 1)
      BY DEF Age, TypeOK
  <2>2. beat[c] + 1 < HeartbeatTtl => beat[c] + 1 \in 0 .. (HeartbeatTtl - 1)
      BY <2>1, ControlAssumption
  <2>3. beat' \in [Cameras -> {None} \cup 0 .. (HeartbeatTtl - 1)]
      BY <2>2 DEF Age, TypeOK
  <2> QED BY <2>3 DEF Age, TypeOK
<1>2. CASE \E c \in Cameras : ExpireKeys(c)
  BY <1>2 DEF ExpireKeys, TypeOK
<1>3. CASE ReaperLook
  BY <1>3 DEF ReaperLook, TypeOK, keys
<1>4. CASE ReaperDrop
  BY <1>4 DEF ReaperDrop, TypeOK
<1> QED BY <1>1, <1>2, <1>3, <1>4

(* Types are kept by every step.                                           *)
LEMMA TypeStep == TypeOK /\ [Next]_vars => TypeOK'
<1> SUFFICES ASSUME TypeOK, [Next]_vars PROVE TypeOK'
    OBVIOUS
<1>1. ASSUME NEW r \in Requests, Arrival(r) PROVE TypeOK'
    BY <1>1, StartCheckTyped, StopCheckTyped DEF Arrival
<1>2. ASSUME NEW r \in Requests, StartSteps(r) PROVE TypeOK'
    BY <1>2, StartLookTyped, StartClaimTyped, StartRestTyped DEF StartSteps
<1>3. ASSUME NEW r \in Requests, StopSteps(r) PROVE TypeOK'
    BY <1>3, StopTyped
<1>4. ASSUME NEW t \in Tasks,
             Progress(t) \/ Beat(t) \/ FailLoop(t) \/ Kill(t) \/ Crash(t)
      PROVE  TypeOK'
    BY <1>4, TaskTyped
<1>5. CASE UNCHANGED vars
    BY <1>5 DEF TypeOK, vars
<1> QED BY <1>1, <1>2, <1>3, <1>4, <1>5, OthersTyped DEF Next

(* Type correctness of the control plane, whatever the environment does:   *)
(* no heartbeat outlives its expiry and no request, pipeline or reaper     *)
(* writes a slot that does not exist.                                      *)
THEOREM ControlTypeCorrect == Spec => []TypeOK
<1> QED BY TypeInit, TypeStep, PTL DEF Spec

-----------------------------------------------------------------------------
(* One pipeline per camera                                                 *)

(* The environment of the remaining theorems, apart from StartsApart: no   *)
(* forced stops, no key older than its expiry.                             *)
Unforced == "force" \notin Allowed /\ "day" \notin Allowed

(* A task holds its camera's keys from the moment it is sent until its     *)
(* cleanup has deleted them; "ending" is what OnePipeline leaves out and   *)
(* the induction needs, since that cleanup deletes whatever it finds.      *)
OneHolder ==
  \A t, u \in Tasks : Holds(t) /\ Holds(u) /\ task[t].camera = task[u].camera => t = u

HolderShown == \A t \in Tasks : Holds(t) => state[task[t].camera] # None

LoopCounted == \A t \in Tasks : Looping(t) => task[t].camera \in members

(* Between its check and the hand-over to the broker, a start request has  *)
(* the camera to itself; once announced, the camera is not stopped.        *)
StartAlone ==
  \A r \in Requests : req[r].at \in BeforeSend =>
    /\ \A t \in Tasks : Holds(t) => task[t].camera # req[r].camera
    /\ At(r, "send") => state[req[r].camera] # None

NoForce ==
  \A r \in Requests :
    ~req[r].force /\ req[r].at \notin {"revoke", "clear", "owner", "drop"}

PipelineInv == OneHolder /\ HolderShown /\ LoopCounted /\ StartAlone /\ NoForce

(* The pipeline invariant holds initially.                                 *)
LEMMA PipelineInit == Init => PipelineInv
BY DEF Init, PipelineInv, OneHolder, HolderShown, LoopCounted, StartAlone,
       NoForce, Holds, Active, Looping, At, Free, Idle, BeforeSend

(* A step that starts no task, leaves no camera without its state or its   *)
(* place in the set, and moves no request into BeforeSend.                 *)
LEMMA QuietStep ==
  ASSUME TypeOK, TypeOK', PipelineInv,
         \A t \in Tasks : Holds(t)' =>
           /\ Holds(t) /\ task'[t].camera = task[t].camera
           /\ state'[task[t].camera] # None,
         \A t \in Tasks : Looping(t)' => Looping(t) /\ task[t].camera \in members',
         \A r \in Requests : req'[r].at \in BeforeSend =>
           /\ req[r].at \in BeforeSend /\ req'[r].camera = req[r].camera
           /\ req'[r].at = "send" => state'[req[r].camera] # None,
         NoForce'
  PROVE  PipelineInv'
<1>1. OneHolder'
    BY DEF PipelineInv, OneHolder
<1>2. HolderShown'
    BY DEF HolderShown
<1>3. LoopCounted'
  <2>1. ASSUME NEW t \in Tasks, Looping(t)' PROVE task'[t].camera \in members'
    <3>1. Looping(t) /\ task[t].camera \in members' /\ Holds(t)'
        BY <2>1 DEF Holds, Active, Looping
    <3> QED BY <3>1
  <2> QED BY <2>1 DEF LoopCounted
<1>4. StartAlone'
    BY DEF PipelineInv, StartAlone, At
<1> QED BY <1>1, <1>2, <1>3, <1>4 DEF PipelineInv

(* Nothing but a start request's own camera is touched before it is sent.  *)
LEMMA StartCheckPipeline ==
  ASSUME TypeOK, TypeOK', PipelineInv,
         NEW r \in Requests, NEW c \in Cameras, StartCheck(r, c)
  PROVE  PipelineInv'
<1>1. state[c] = None
    BY ControlAssumption DEF StartCheck, Reported, TypeOK
<1>2. \A t \in Tasks : Holds(t) => task[t].camera # c
    BY <1>1 DEF PipelineInv, HolderShown
<1>3. /\ req' = [req EXCEPT ![r] = [Idle EXCEPT !.at = "look", !.camera = c, !.slot = 0]]
      /\ UNCHANGED <<state, members, task>>
    BY DEF StartCheck, keys
<1>4. /\ req'[r].at = "look" /\ req'[r].camera = c /\ ~req'[r].force
      /\ \A q \in Requests : q # r => req'[q] = req[q]
    BY <1>3 DEF TypeOK, Idle
<1>5. OneHolder' /\ HolderShown' /\ LoopCounted'
    BY <1>3 DEF PipelineInv, OneHolder, HolderShown, LoopCounted, Holds, Active, Looping
<1>6. StartAlone'
  <2> SUFFICES ASSUME NEW q \in Requests, req'[q].at \in BeforeSend
               PROVE  /\ \A t \in Tasks : Holds(t)' => task'[t].camera # req'[q].camera
                      /\ At(q, "send")' => state'[req'[q].camera] # None
      BY DEF StartAlone
  <2>1. \A t \in Tasks : Holds(t)' <=> Holds(t)
      BY <1>3 DEF Holds, Active
  <2>2. CASE q = r
      BY <1>2, <1>3, <1>4, <2>1, <2>2 DEF At
  <2>3. CASE q # r
      BY <1>3, <1>4, <2>1, <2>3 DEF PipelineInv, StartAlone, At
  <2> QED BY <2>2, <2>3
<1>7. NoForce'
    BY <1>4 DEF PipelineInv, NoForce
<1> QED BY <1>5, <1>6, <1>7 DEF PipelineInv

(* Sending the task of the only start request for the camera gives it its  *)
(* only holder.                                                            *)
LEMMA StartSendPipeline ==
  ASSUME TypeOK, TypeOK', PipelineInv, StartsApart, NEW r \in Requests, StartSend(r)
  PROVE  PipelineInv'
<1> PICK t \in Tasks :
       /\ Unknown(t)
       /\ task' = [task EXCEPT ![t] =
            [camera |-> req[r].camera, slot |-> req[r].slot, at |-> "queued"]]
       /\ req' = [req EXCEPT ![r].at = "record", ![r].task = t]
    BY DEF StartSend
<1> DEFINE c == req[r].camera
<1>1. /\ req[r].at \in BeforeSend /\ At(r, "send")
      /\ UNCHANGED <<state, members>>
    BY DEF StartSend, At, BeforeSend, keys
<1>2. /\ task'[t].camera = c /\ task'[t].at = "queued"
      /\ \A u \in Tasks : u # t => task'[u] = task[u]
    BY DEF TypeOK
<1>3. /\ req'[r].at = "record" /\ req'[r].force = req[r].force
      /\ \A q \in Requests : q # r => req'[q] = req[q]
    BY RequestAt, <1>1 DEF TypeOK, Request, At
<1>4. (\A u \in Tasks : Holds(u) => task[u].camera # c) /\ state[c] # None
    BY <1>1 DEF PipelineInv, StartAlone
<1>5. /\ \A u \in Tasks : u # t => (Holds(u)' <=> Holds(u)) /\ (Looping(u)' <=> Looping(u))
      /\ ~Looping(t)'
    BY <1>2 DEF Holds, Active, Looping
<1>6. OneHolder'
    BY <1>2, <1>4, <1>5 DEF PipelineInv, OneHolder
<1>7. HolderShown'
    BY <1>1, <1>2, <1>4, <1>5 DEF PipelineInv, HolderShown
<1>8. LoopCounted'
    BY <1>1, <1>2, <1>5 DEF PipelineInv, LoopCounted
<1>9. StartAlone'
  <2> SUFFICES ASSUME NEW q \in Requests, req'[q].at \in BeforeSend
               PROVE  /\ \A u \in Tasks : Holds(u)' => task'[u].camera # req'[q].camera
                      /\ At(q, "send")' => state'[req'[q].camera] # None
      BY DEF StartAlone
  <2>1. q # r /\ req'[q] = req[q]
      BY <1>3 DEF BeforeSend
  <2>2. req[q].camera # c
      BY <1>1, <2>1 DEF StartsApart
  <2>3. /\ \A u \in Tasks : Holds(u) => task[u].camera # req[q].camera
        /\ At(q, "send") => state[req[q].camera] # None
      BY <2>1 DEF PipelineInv, StartAlone
  <2> QED BY <1>1, <1>2, <1>5, <2>1, <2>2, <2>3 DEF At
<1>10. NoForce'
    BY <1>3 DEF PipelineInv, NoForce
<1> QED BY <1>6, <1>7, <1>8, <1>9, <1>10 DEF PipelineInv

(* The other steps of a start request add no holder; it claims a slot for a*)
(* camera that no pipeline holds and no other start request has.           *)
LEMMA StartRestPipeline ==
  ASSUME TypeOK, TypeOK', PipelineInv, StartsApart, NEW r \in Requests,
         \/ StartLook(r) \/ StartReclaim(r) \/ StartClaim(r) \/ StartAnnounce(r)
         \/ StartSendFails(r) \/ StartRecord(r)
  PROVE  PipelineInv'
<1> DEFINE c == req[r].camera
<1>1. /\ task' = task /\ members \subseteq members'
      /\ \A t \in Tasks : (Holds(t)' <=> Holds(t)) /\ (Looping(t)' <=> Looping(t))
    BY DEF StartLook, StartReclaim, StartClaim, StartAnnounce, StartSendFails,
           StartRecord, keys, Holds, Active, Looping
<1>2. \A q \in Requests : q # r => req'[q] = req[q]
    BY DEF StartLook, StartReclaim, StartClaim, StartAnnounce, StartSendFails,
           StartRecord, ReqTo, TypeOK
<1>3. req[r].at \in StartLabels /\ req[r].at # "idle" /\ req[r] \in Request /\ c \in Cameras
  <2>1. req[r].at \in StartLabels /\ req[r].at # "idle"
      BY DEF StartLook, StartReclaim, StartClaim, StartAnnounce,
             StartSendFails, StartRecord, At, StartLabels
  <2> QED BY <2>1, RequestAt DEF Request
<1>4. ~req[r].force
    BY DEF PipelineInv, NoForce
<1>5. \A t \in Tasks : Looping(t)' => Looping(t) /\ task[t].camera \in members'
    BY <1>1 DEF PipelineInv, LoopCounted
<1>6. \A t \in Tasks : Holds(t) => task[t].camera \in Cameras /\ state[task[t].camera] # None
    BY TaskAt DEF PipelineInv, HolderShown, Holds, Active, Task
(* It is enough to say what becomes of r, and of the state keys that other *)
(* requests and the holders rely on.                                       *)
<1>7. ASSUME ~req'[r].force, req'[r].at \notin {"revoke", "clear", "owner", "drop"},
             \A t \in Tasks : Holds(t) => state'[task[t].camera] # None,
             \A q \in Requests : q # r /\ req[q].at = "send" => state'[req[q].camera] # None,
             req'[r].at \in BeforeSend =>
               /\ req[r].at \in BeforeSend /\ req'[r].camera = c
               /\ req'[r].at = "send" => state'[c] # None
      PROVE  PipelineInv'
  <2>1. NoForce'
      BY <1>2, <1>7 DEF PipelineInv, NoForce
  <2>2. \A t \in Tasks : Holds(t)' =>
           Holds(t) /\ task'[t].camera = task[t].camera /\ state'[task[t].camera] # None
      BY <1>1, <1>7
  <2>3. \A q \in Requests : req'[q].at \in BeforeSend =>
           /\ req[q].at \in BeforeSend /\ req'[q].camera = req[q].camera
           /\ req'[q].at = "send" => state'[req[q].camera] # None
      BY <1>2, <1>7
  <2> QED BY <1>5, <2>1, <2>2, <2>3, QuietStep
<1>8. \A q \in Requests : req[q].at = "send" => state[req[q].camera] # None
    BY DEF PipelineInv, StartAlone, At, BeforeSend
<1>9. CASE StartLook(r) \/ StartReclaim(r) \/ StartClaim(r)
  <2>1. req[r].at \in BeforeSend /\ state' = state
      BY <1>9 DEF StartLook, StartReclaim, StartClaim, At, BeforeSend, keys
  <2>2. /\ req'[r].at \in {"look", "claim", "reclaim", "announce", "idle"}
        /\ req'[r].at \in BeforeSend => req'[r].camera = c
        /\ ~req'[r].force
      BY <1>3, <1>4, <1>9, <2>1
      DEF StartLook, StartReclaim, StartClaim, ReqTo, At, TypeOK, Request, Idle, BeforeSend
  <2> QED BY <1>6, <1>7, <1>8, <2>1, <2>2
<1>10. CASE StartAnnounce(r)
  <2>1. req[r].at \in BeforeSend /\ state' = [state EXCEPT ![c] = "starting"]
      BY <1>10 DEF StartAnnounce, At, BeforeSend
  <2>2. req'[r].at = "send" /\ req'[r].camera = c /\ ~req'[r].force
      BY <1>3, <1>4, <1>10 DEF StartAnnounce, ReqTo, At, TypeOK, Request
  <2>3. state'[c] # None /\ \A d \in Cameras : state[d] # None => state'[d] # None
      BY <1>3, <2>1, ControlAssumption DEF TypeOK
  <2>4. \A q \in Requests : req[q].at = "send" => req[q].camera \in Cameras
      BY RequestAt DEF Request
  <2> QED BY <1>6, <1>7, <1>8, <2>1, <2>2, <2>3, <2>4
<1>11. CASE StartSendFails(r)
  <2>1. /\ req[r].at \in BeforeSend /\ state' = [state EXCEPT ![c] = None]
        /\ req'[r] = Idle
      BY <1>11 DEF StartSendFails, At, BeforeSend, TypeOK
  <2>2. \A t \in Tasks : Holds(t) => task[t].camera # c
      BY <2>1 DEF PipelineInv, StartAlone
  <2>3. \A q \in Requests : q # r /\ req[q].at = "send" => req[q].camera # c
      BY <2>1 DEF StartsApart, BeforeSend
  <2>4. \A d : d # c /\ d \in Cameras => state'[d] = state[d]
      BY <2>1 DEF TypeOK
  <2>5. \A q \in Requests : req[q].at = "send" => req[q].camera \in Cameras
      BY RequestAt DEF Request
  <2>6. ~Idle.force /\ Idle.at = "idle" /\ "idle" \notin BeforeSend
      BY DEF Idle, BeforeSend
  <2> QED BY <1>6, <1>7, <1>8, <2>1, <2>2, <2>3, <2>4, <2>5, <2>6
<1>12. CASE StartRecord(r)
  <2>1. state' = state /\ req'[r] = Idle
      BY <1>12 DEF StartRecord, TypeOK
  <2>2. ~Idle.force /\ Idle.at = "idle" /\ "idle" \notin BeforeSend
      BY DEF Idle, BeforeSend
  <2> QED BY <1>6, <1>7, <1>8, <2>1, <2>2
<1> QED BY <1>9, <1>10, <1>11, <1>12

(* A stop request that is not forced only raises flags.                    *)
LEMMA StopPipeline ==
  ASSUME TypeOK, TypeOK', PipelineInv, Unforced, NEW r \in Requests,
         (\E c \in Cameras, f \in BOOLEAN : StopCheck(r, c, f)) \/ StopSteps(r)
  PROVE  PipelineInv'
<1>1. ~req[r].force /\ req[r].at \notin {"revoke", "clear", "owner", "drop"}
    BY DEF PipelineInv, NoForce
<1>2. \/ \E c \in Cameras, f \in BOOLEAN : StopCheck(r, c, f)
      \/ StopFlag(r) \/ StopMark(r)
    BY <1>1 DEF StopSteps, StopRevoke, StopClear, StopOwner, StopDrop, At
<1>3. /\ task' = task /\ members' = members
      /\ \A q \in Requests : q # r => req'[q] = req[q]
    BY <1>2 DEF StopCheck, StopFlag, StopMark, ReqTo, keys, TypeOK
<1>4. /\ req'[r].at \in {"flag", "mark", "idle"} /\ ~req'[r].force
  <2>1. CASE \E c \in Cameras, f \in BOOLEAN : StopCheck(r, c, f)
      BY <2>1 DEF StopCheck, Unforced, TypeOK
  <2>2. CASE StopFlag(r) \/ StopMark(r)
    <3>1. req[r].at # "idle" /\ req[r] \in Request
        BY <2>2, RequestAt DEF StopFlag, StopMark, At
    <3> QED BY <1>1, <2>2, <3>1 DEF StopFlag, StopMark, ReqTo, TypeOK, Request, Idle
  <2> QED BY <1>2, <2>1, <2>2
<1>5. \A d \in Cameras : state[d] # None => state'[d] # None
    BY <1>2, ControlAssumption DEF StopCheck, StopFlag, StopMark, keys, TypeOK
<1>6. \A t \in Tasks : (Holds(t)' <=> Holds(t)) /\ (Looping(t)' <=> Looping(t))
    BY <1>3 DEF Holds, Active, Looping
<1>7. \A t \in Tasks : Holds(t)' =>
         Holds(t) /\ task'[t].camera = task[t].camera /\ state'[task[t].camera] # None
  <2> SUFFICES ASSUME NEW t \in Tasks, Holds(t) PROVE state'[task[t].camera] # None
      BY <1>3, <1>6
  <2>1. task[t].camera \in Cameras
      BY TaskAt DEF Holds, Active, Task
  <2> QED BY <1>5, <2>1 DEF PipelineInv, HolderShown
<1>8. \A t \in Tasks : Looping(t)' => Looping(t) /\ task[t].camera \in members'
    BY <1>3, <1>6 DEF PipelineInv, LoopCounted
<1>9. \A q \in Requests : req'[q].at \in BeforeSend =>
         /\ req[q].at \in BeforeSend /\ req'[q].camera = req[q].camera
         /\ req'[q].at = "send" => state'[req[q].camera] # None
  <2> SUFFICES ASSUME NEW q \in Requests, req'[q].at \in BeforeSend
               PROVE  /\ req[q].at \in BeforeSend /\ req'[q].camera = req[q].camera
                      /\ req'[q].at = "send" => state'[req[q].camera] # None
      OBVIOUS
  <2>1. q # r /\ req'[q] = req[q]
      BY <1>3, <1>4 DEF BeforeSend
  <2>2. req[q].camera \in Cameras
      BY <2>1, RequestAt DEF BeforeSend, Request
  <2> QED BY <1>5, <2>1, <2>2 DEF PipelineInv, StartAlone, At
<1>10. NoForce'
    BY <1>3, <1>4 DEF PipelineInv, NoForce
<1> QED BY <1>7, <1>8, <1>9, <1>10, QuietStep

(* A task changes only itself and its own camera's keys, ...               *)
LEMMA TaskPipeline ==
  ASSUME TypeOK, TypeOK', PipelineInv, NEW t \in Tasks,
         \/ Begin(t) \/ Run(t) \/ Beat(t) \/ SeeStop(t) \/ FailLoop(t)
         \/ CheckOwner(t) \/ DropSlot(t) \/ Kill(t) \/ Crash(t)
  PROVE  PipelineInv'
<1>1. /\ req' = req /\ members \subseteq members'
      /\ \A u \in Tasks : u # t => task'[u] = task[u]
    BY DEF Begin, Run, Beat, SeeStop, FailLoop, CheckOwner, DropSlot, Kill,
           Crash, Dies, TaskTo, keys, TypeOK
<1>2. \A d \in Cameras : state[d] # None => state'[d] # None
    BY ControlAssumption
    DEF Begin, Run, Beat, SeeStop, FailLoop, CheckOwner, DropSlot, Kill, Crash, Dies,
        keys, TypeOK
<1>3. Holds(t)' => Holds(t) /\ task'[t].camera = task[t].camera
    BY TaskAt DEF Begin, Run, Beat, SeeStop, FailLoop, CheckOwner, DropSlot, Kill,
           Crash, Dies, TaskTo, TypeOK, Holds, Active, Looping, Free, Task
<1>4. Looping(t)' => (Looping(t) \/ Run(t)) /\ task'[t].camera = task[t].camera
    BY TaskAt DEF Begin, Run, Beat, SeeStop, FailLoop, CheckOwner, DropSlot, Kill,
           Crash, Dies, TaskTo, TypeOK, Looping, Free, Task
<1>5. \A u \in Tasks : Holds(u)' => Holds(u) /\ task'[u].camera = task[u].camera
    BY <1>1, <1>3 DEF Holds, Active
<1>6. OneHolder'
    BY <1>5 DEF PipelineInv, OneHolder
<1>7. HolderShown'
  <2> SUFFICES ASSUME NEW u \in Tasks, Holds(u)' PROVE state'[task'[u].camera] # None
      BY DEF HolderShown
  <2>1. Holds(u) /\ task'[u].camera = task[u].camera
      BY <1>5
  <2>2. task[u].camera \in Cameras
      BY <2>1, TaskAt DEF Holds, Active, Task
  <2> QED BY <1>2, <2>1, <2>2 DEF PipelineInv, HolderShown
<1>8. LoopCounted'
  <2> SUFFICES ASSUME NEW u \in Tasks, Looping(u)' PROVE task'[u].camera \in members'
      BY DEF LoopCounted
  <2>1. CASE Run(t) /\ u = t
      BY <1>4, <2>1 DEF Run
  <2>2. CASE u = t /\ ~Run(t)
      BY <1>1, <1>4, <2>2 DEF PipelineInv, LoopCounted
  <2>3. CASE u # t
      BY <1>1, <2>3 DEF PipelineInv, LoopCounted, Looping
  <2> QED BY <2>1, <2>2, <2>3
<1>9. StartAlone'
  <2> SUFFICES ASSUME NEW q \in Requests, req'[q].at \in BeforeSend
               PROVE  /\ \A u \in Tasks : Holds(u)' => task'[u].camera # req'[q].camera
                      /\ At(q, "send")' => state'[req'[q].camera] # None
      BY DEF StartAlone
  <2>1. req[q] \in Request /\ req[q].camera \in Cameras
      BY <1>1, RequestAt DEF BeforeSend, Request
  <2> QED BY <1>1, <1>2, <1>5, <2>1 DEF PipelineInv, StartAlone, At
<1>10. NoForce'
    BY <1>1 DEF PipelineInv, NoForce
<1> QED BY <1>6, <1>7, <1>8, <1>9, <1>10 DEF PipelineInv

(* ... and a cleanup deletes the keys of a camera nobody else holds.       *)
LEMMA CleanupPipeline ==
  ASSUME TypeOK, TypeOK', PipelineInv, NEW t \in Tasks, Cleanup(t)
  PROVE  PipelineInv'
<1> DEFINE c == task[t].camera
<1>1. /\ Holds(t) /\ c \in Cameras /\ req' = req
      /\ state' = [state EXCEPT ![c] = None] /\ members' = members \ {c}
    BY TaskAt DEF Cleanup, ClearKeys, Holds, Task
<1>2. ~Holds(t)' /\ \A u \in Tasks : u # t => task'[u] = task[u]
    BY DEF Cleanup, TaskTo, TypeOK, Holds, Active
<1>3. \A u \in Tasks : Holds(u)' => u # t /\ Holds(u) /\ task'[u].camera = task[u].camera
    BY <1>2 DEF Holds, Active
<1>4. \A u \in Tasks : Holds(u)' => task[u].camera # c
    BY <1>1, <1>3 DEF PipelineInv, OneHolder
<1>5. \A u \in Tasks : Holds(u)' =>
         Holds(u) /\ task'[u].camera = task[u].camera /\ state'[task[u].camera] # None
  <2> SUFFICES ASSUME NEW u \in Tasks, Holds(u)' PROVE state'[task[u].camera] # None
      BY <1>3
  <2>1. state'[task[u].camera] = state[task[u].camera]
      BY <1>1, <1>4 DEF TypeOK
  <2> QED BY <1>3, <2>1 DEF PipelineInv, HolderShown
<1>6. \A u \in Tasks : Looping(u)' => Looping(u) /\ task[u].camera \in members'
  <2> SUFFICES ASSUME NEW u \in Tasks, Looping(u)'
               PROVE  Looping(u) /\ task[u].camera \in members'
      OBVIOUS
  <2>1. Holds(u)' /\ u # t
      BY <1>3 DEF Holds, Active, Looping
  <2> QED BY <1>1, <1>2, <1>4, <2>1 DEF PipelineInv, LoopCounted, Looping
<1>7. \A q \in Requests : req'[q].at \in BeforeSend =>
         /\ req[q].at \in BeforeSend /\ req'[q].camera = req[q].camera
         /\ req'[q].at = "send" => state'[req[q].camera] # None
  <2> SUFFICES ASSUME NEW q \in Requests, req[q].at = "send"
               PROVE  state'[req[q].camera] # None
      BY <1>1
  <2>1. req[q].camera # c /\ state[req[q].camera] # None
      BY <1>1 DEF PipelineInv, StartAlone, BeforeSend, At
  <2> QED BY <1>1, <2>1 DEF TypeOK
<1>8. NoForce'
    BY <1>1 DEF PipelineInv, NoForce
<1> QED BY <1>5, <1>6, <1>7, <1>8, QuietStep

(* With starts apart, no forced stop and no expiring key, the pipeline     *)
(* invariant is kept by every step.                                        *)
LEMMA PipelineStep ==
  ASSUME TypeOK, TypeOK', PipelineInv, Unforced, StartsApart, [Next]_vars
  PROVE  PipelineInv'
<1>1. ASSUME NEW r \in Requests, Arrival(r) PROVE PipelineInv'
    BY <1>1, StartCheckPipeline, StopPipeline DEF Arrival
<1>2. ASSUME NEW r \in Requests, StartSteps(r) PROVE PipelineInv'
    BY <1>2, StartRestPipeline, StartSendPipeline DEF StartSteps
<1>3. ASSUME NEW r \in Requests, StopSteps(r) PROVE PipelineInv'
    BY <1>3, StopPipeline
<1>4. ASSUME NEW t \in Tasks,
             Progress(t) \/ Beat(t) \/ FailLoop(t) \/ Kill(t) \/ Crash(t)
      PROVE  PipelineInv'
    BY <1>4, TaskPipeline, CleanupPipeline DEF Progress
<1>5. ASSUME UNCHANGED <<state, members, task, req>> PROVE PipelineInv'
    BY <1>5 DEF PipelineInv, OneHolder, HolderShown, LoopCounted, StartAlone,
                NoForce, Holds, Active, Looping, At
<1>6. CASE \/ \E c \in Cameras : Age(c) \/ ExpireKeys(c)
           \/ ReaperLook \/ ReaperDrop
    BY <1>5, <1>6 DEF Age, ExpireKeys, ReaperLook, ReaperDrop, keys, Unforced
<1>7. CASE UNCHANGED vars
    BY <1>5, <1>7 DEF vars
<1> QED BY <1>1, <1>2, <1>3, <1>4, <1>6, <1>7 DEF Next

(* The inductive invariant of the control plane.  It counts a pipeline     *)
(* until its cleanup has deleted the keys, and gives a start request the   *)
(* camera from its check until the task is sent.                           *)
THEOREM PipelineInvariant ==
  Unforced /\ Spec /\ []StartsApart => [](TypeOK /\ PipelineInv)
<1>1. Init => TypeOK /\ PipelineInv
    BY TypeInit, PipelineInit
<1> SUFFICES ASSUME Unforced PROVE Spec /\ []StartsApart => [](TypeOK /\ PipelineInv)
    OBVIOUS
<1>2. TypeOK /\ PipelineInv /\ StartsApart /\ [Next]_vars => (TypeOK /\ PipelineInv)'
    BY TypeStep, PipelineStep
<1> QED BY <1>1, <1>2, PTL DEF Spec

(* Only two overlapping starts of a camera give it two pipelines: crashes, *)
(* slot stealing, slow loops, the reaper, a failing broker, stops and the  *)
(* requests for other cameras do not (start_camera checks the state, then  *)
(* announces and sends).                                                   *)
THEOREM StartsApartOnePipeline == Unforced /\ Spec /\ []StartsApart => []OnePipeline
<1>1. PipelineInv => OnePipeline
    BY DEF PipelineInv, OneHolder, OnePipeline, Holds
<1> QED BY <1>1, PipelineInvariant, PTL

(* ... and never report a camera with a pipeline as stopped, so a stop     *)
(* request reaches it.                                                     *)
THEOREM StartsApartNeverHidden == Unforced /\ Spec /\ []StartsApart => []NeverHidden
<1>1. TypeOK /\ PipelineInv => NeverHidden
  <2> SUFFICES ASSUME TypeOK, PipelineInv, NEW t \in Tasks
               PROVE  /\ Active(t) => Reported(task[t].camera) # "stopped"
                      /\ Looping(t) => task[t].camera \in members
      BY DEF NeverHidden
  <2>1. Looping(t) => task[t].camera \in members
      BY DEF PipelineInv, LoopCounted
  <2>2. ASSUME Active(t) PROVE Reported(task[t].camera) # "stopped"
    <3>1. task[t].camera \in Cameras
        BY <2>2, TaskAt DEF Active, Task
    <3>2. state[task[t].camera] \in {"starting", "running", "stopping"}
        BY <2>2, <3>1 DEF PipelineInv, HolderShown, Holds, TypeOK
    <3>3. state[task[t].camera] # None
        BY <3>2, ControlAssumption
    <3> QED BY <3>2, <3>3, Zenon DEF Reported
  <2> QED BY <2>1, <2>2
<1> QED BY <1>1, PipelineInvariant, PTL

(* A stop flag is taken away only by the cleanup of the pipeline it was    *)
(* for, or when there is none.                                             *)
THEOREM StartsApartStopHeard == Unforced /\ Spec /\ []StartsApart => StopHeard
<1>1. ASSUME Unforced, TypeOK, TypeOK', PipelineInv, [Next]_vars,
             NEW t \in Tasks, Active(t),
             task[t].camera \in stop, task[t].camera \notin stop'
      PROVE  ~Active(t)'
  <2> DEFINE c == task[t].camera
  <2>1. stop' # stop
      BY <1>1
  <2>2. ASSUME NEW r \in Requests, Arrival(r) PROVE FALSE
      BY <2>1, <2>2 DEF Arrival, StartCheck, StopCheck, keys
  <2>3. ASSUME NEW r \in Requests, StartSteps(r) PROVE FALSE
    <3>1. StartAnnounce(r)
        BY <2>1, <2>3 DEF StartSteps, StartLook, StartReclaim, StartClaim,
                          StartSend, StartSendFails, StartRecord, keys
    <3>2. req[r].camera = c
        BY <1>1, <3>1 DEF StartAnnounce
    <3>3. req[r].at \in BeforeSend
        BY <3>1 DEF StartAnnounce, At, BeforeSend
    <3> QED BY <1>1, <3>2, <3>3 DEF PipelineInv, StartAlone, Holds
  <2>4. ASSUME NEW r \in Requests, StopSteps(r) PROVE FALSE
    <3>1. req[r].at \notin {"revoke", "clear", "owner", "drop"}
        BY <1>1 DEF PipelineInv, NoForce
    <3>2. StopFlag(r) \/ StopMark(r)
        BY <2>4, <3>1 DEF StopSteps, StopRevoke, StopClear, StopOwner, StopDrop, At
    <3> QED BY <1>1, <3>2 DEF StopFlag, StopMark
  <2>5. ASSUME NEW u \in Tasks, Cleanup(u) PROVE FALSE
    <3>1. task[u].camera = c /\ Holds(u) /\ task[u].at = "ending"
        BY <1>1, <2>5 DEF Cleanup, ClearKeys, Holds
    <3>2. u = t
        BY <1>1, <3>1 DEF PipelineInv, OneHolder, Holds
    <3> QED BY <1>1, <3>1, <3>2 DEF Active
  <2>6. ASSUME NEW u \in Tasks,
               Progress(u) \/ Beat(u) \/ FailLoop(u) \/ Kill(u) \/ Crash(u)
        PROVE  FALSE
      BY <2>1, <2>5, <2>6
      DEF Progress, Begin, Run, SeeStop, CheckOwner, DropSlot, Beat, FailLoop,
          Kill, Crash, Dies, keys
  <2>7. CASE \/ \E d \in Cameras : Age(d) \/ ExpireKeys(d)
             \/ ReaperLook \/ ReaperDrop
      BY <1>1, <2>1, <2>7 DEF Age, ExpireKeys, ReaperLook, ReaperDrop, keys, Unforced
  <2>8. CASE UNCHANGED vars
      BY <2>1, <2>8 DEF vars
  <2> QED BY <1>1, <2>2, <2>3, <2>4, <2>6, <2>7, <2>8 DEF Next
<1> SUFFICES ASSUME Unforced PROVE Spec /\ []StartsApart => StopHeard
    OBVIOUS
<1>2. TypeOK /\ TypeOK' /\ PipelineInv /\ [Next]_vars =>
               [\A t \in Tasks :
                  Active(t) /\ task[t].camera \in stop /\ task[t].camera \notin stop'
                    => t \in revoked \/ ~Active(t)']_vars
    BY <1>1
<1> QED BY <1>2, PipelineInvariant, PTL DEF Spec, StopHeard
-----------------------------------------------------------------------------
(* No state without somebody to delete it                                  *)

(* Who will delete, or hand on, the state key of a camera: a pipeline, a   *)
(* start that is about to send one, a forced stop on its way.              *)
Attended(c) ==
  \/ \E t \in Tasks : Holds(t) /\ task[t].camera = c
  \/ \E r \in Requests : req[r].camera = c /\ req[r].at \in {"send", "revoke", "clear"}

StateAttended == \A c \in Cameras : state[c] # None => c \in left \/ Attended(c)

(* A start request announces a state, and hands it on to the task it sends.*)
LEMMA StartAttended ==
  ASSUME TypeOK, StateAttended, NEW r \in Requests, StartSteps(r)
  PROVE  StateAttended'
<1> DEFINE c == req[r].camera
<1> SUFFICES ASSUME NEW d \in Cameras, state'[d] # None PROVE d \in left' \/ Attended(d)'
    BY DEF StateAttended
<1>1. \A q \in Requests : q # r => req'[q] = req[q]
    BY DEF StartSteps, StartLook, StartReclaim, StartClaim, StartAnnounce, StartSend,
           StartSendFails, StartRecord, ReqTo, TypeOK
<1>2. req[r].at \in StartLabels /\ req[r] \in Request /\ c \in Cameras
  <2>1. req[r].at \in StartLabels /\ req[r].at # "idle"
      BY DEF StartSteps, StartLook, StartReclaim, StartClaim, StartAnnounce, StartSend,
             StartSendFails, StartRecord, At, StartLabels
  <2> QED BY <2>1, RequestAt DEF Request
<1>3. CASE StartAnnounce(r)
  <2>1. req'[r].at = "send" /\ req'[r].camera = c /\ task' = task /\ left' = left
      BY <1>2, <1>3 DEF StartAnnounce, ReqTo, TypeOK, Request
  <2>2. CASE d = c
      BY <2>1, <2>2 DEF Attended
  <2>3. CASE d # c
    <3>1. state[d] # None
        BY <1>3, <2>3 DEF StartAnnounce, TypeOK
    <3>2. d \in left \/ Attended(d)
        BY <3>1 DEF StateAttended
    <3> QED BY <1>1, <2>1, <2>3, <3>2 DEF Attended, Holds, Active
  <2> QED BY <2>2, <2>3
<1>4. CASE StartSend(r)
  <2> PICK t \in Tasks :
         /\ Unknown(t)
         /\ task' = [task EXCEPT ![t] =
              [camera |-> c, slot |-> req[r].slot, at |-> "queued"]]
      BY <1>4 DEF StartSend
  <2>1. /\ task'[t].camera = c /\ task'[t].at = "queued"
        /\ \A u \in Tasks : u # t => task'[u] = task[u]
      BY DEF TypeOK
  <2>2. state' = state /\ left' = left \ {c} /\ ~Holds(t)
      BY <1>4 DEF StartSend, Unknown, Holds, Active
  <2>3. CASE d = c
      BY <2>1, <2>3 DEF Attended, Holds, Active
  <2>4. CASE d # c
    <3>1. d \in left \/ Attended(d)
        BY <2>2 DEF StateAttended
    <3> QED BY <1>1, <2>1, <2>2, <2>4, <3>1 DEF Attended, Holds, Active
  <2> QED BY <2>3, <2>4
<1>5. CASE StartSendFails(r)
  <2>1. /\ state' = [state EXCEPT ![c] = None] /\ left' = left \ {c} /\ task' = task
        /\ req'[r] = Idle
      BY <1>5 DEF StartSendFails, TypeOK
  <2>2. d # c /\ state[d] # None
      BY <1>2, <2>1 DEF TypeOK
  <2>3. d \in left \/ Attended(d)
      BY <2>2 DEF StateAttended
  <2> QED BY <1>1, <2>1, <2>2, <2>3 DEF Attended, Holds, Active
<1>6. CASE StartLook(r) \/ StartReclaim(r) \/ StartClaim(r) \/ StartRecord(r)
  <2>1. req[r].at \notin {"send", "revoke", "clear"}
      BY <1>6 DEF StartLook, StartReclaim, StartClaim, StartRecord, At
  <2>2. UNCHANGED <<state, task, left>>
      BY <1>6 DEF StartLook, StartReclaim, StartClaim, StartRecord, keys
  <2>3. d \in left \/ Attended(d)
      BY <2>2 DEF StateAttended
  <2> QED BY <1>1, <2>1, <2>2, <2>3 DEF Attended, Holds, Active
<1> QED BY <1>3, <1>4, <1>5, <1>6 DEF StartSteps

(* A stop marks a camera that a pipeline holds, or that it leaves on       *)
(* record, or goes on to delete the mark.                                  *)
LEMMA StopAttended ==
  ASSUME TypeOK, StateAttended, NEW r \in Requests, StopSteps(r)
  PROVE  StateAttended'
<1> DEFINE c == req[r].camera
<1> SUFFICES ASSUME NEW d \in Cameras, state'[d] # None PROVE d \in left' \/ Attended(d)'
    BY DEF StateAttended
<1>1. task' = task /\ \A q \in Requests : q # r => req'[q] = req[q]
    BY DEF StopSteps, StopFlag, StopMark, StopRevoke, StopClear, StopOwner, StopDrop, ReqTo, TypeOK
<1>2. req[r].at \in StopLabels /\ req[r] \in Request /\ c \in Cameras
  <2>1. req[r].at \in StopLabels /\ req[r].at # "idle"
      BY DEF StopSteps, StopFlag, StopMark, StopRevoke, StopClear, StopOwner, StopDrop, At, StopLabels
  <2> QED BY <2>1, RequestAt DEF Request
<1>3. \A e \in Cameras : state[e] # None => e \in left \/ Attended(e)
    BY DEF StateAttended
<1>4. CASE StopMark(r)
  <2>1. /\ state' = [state EXCEPT ![c] = "stopping"] /\ req[r].at = "mark"
        /\ left' = IF ~req[r].force /\ \A t \in Tasks : Holds(t) => task[t].camera # c
                   THEN left \cup {c} ELSE left
      BY <1>4 DEF StopMark, At
  <2>2. CASE d # c
    <3>1. d \in left \/ Attended(d)
        BY <1>3, <2>1, <2>2 DEF TypeOK
    <3> QED BY <1>1, <2>1, <2>2, <3>1 DEF Attended, Holds, Active
  <2>3. CASE d = c /\ req[r].force
    <3>1. req'[r].at = "revoke" /\ req'[r].camera = c
        BY <1>2, <1>4, <2>3 DEF StopMark, TypeOK, Request
    <3> QED BY <2>3, <3>1 DEF Attended
  <2>4. CASE d = c /\ ~req[r].force
    <3>1. d \in left' \/ \E t \in Tasks : Holds(t) /\ task[t].camera = d
        BY <2>1, <2>4
    <3> QED BY <1>1, <3>1 DEF Attended, Holds, Active
  <2> QED BY <2>2, <2>3, <2>4
<1>5. CASE StopRevoke(r)
  <2>1. req'[r].at = "clear" /\ req'[r].camera = c /\ UNCHANGED <<state, left>>
      BY <1>2, <1>5 DEF StopRevoke, ReqTo, TypeOK, Request, keys
  <2>2. d \in left \/ Attended(d)
      BY <1>3, <2>1
  <2> QED BY <1>1, <2>1, <2>2 DEF Attended, Holds, Active
<1>6. CASE StopClear(r)
  <2>1. state' = [state EXCEPT ![c] = None] /\ left' = left \ {c}
      BY <1>6 DEF StopClear, ClearKeys
  <2>2. d # c /\ state[d] # None
      BY <1>2, <2>1 DEF TypeOK
  <2>3. d \in left \/ Attended(d)
      BY <1>3, <2>2
  <2> QED BY <1>1, <2>1, <2>2, <2>3 DEF Attended, Holds, Active
<1>7. CASE StopFlag(r) \/ StopOwner(r) \/ StopDrop(r)
  <2>1. req[r].at \notin {"send", "revoke", "clear"} /\ UNCHANGED <<state, left>>
      BY <1>7 DEF StopFlag, StopOwner, StopDrop, At, keys
  <2>2. d \in left \/ Attended(d)
      BY <1>3, <2>1
  <2> QED BY <1>1, <2>1, <2>2 DEF Attended, Holds, Active
<1> QED BY <1>4, <1>5, <1>6, <1>7 DEF StopSteps

(* A pipeline lets go of its camera by deleting the key or by dying.       *)
LEMMA TaskAttended ==
  ASSUME TypeOK, StateAttended, NEW t \in Tasks,
         Progress(t) \/ Beat(t) \/ FailLoop(t) \/ Kill(t) \/ Crash(t)
  PROVE  StateAttended'
<1> DEFINE c == task[t].camera
<1> SUFFICES ASSUME NEW d \in Cameras, state'[d] # None PROVE d \in left' \/ Attended(d)'
    BY DEF StateAttended
<1>1. req' = req /\ \A u \in Tasks : u # t => task'[u] = task[u]
    BY DEF Progress, Begin, Run, SeeStop, Cleanup, CheckOwner, DropSlot, Beat, FailLoop,
           Kill, Crash, Dies, TaskTo, TypeOK
<1>2. \A e \in Cameras : state[e] # None => e \in left \/ Attended(e)
    BY DEF StateAttended
<1>3. \A u \in Tasks : u # t => (Holds(u)' <=> Holds(u)) /\ task'[u].camera = task[u].camera
    BY <1>1 DEF Holds, Active
<1>4. CASE Begin(t) \/ Run(t) \/ SeeStop(t) \/ FailLoop(t)
  <2>1. Holds(t) /\ task[t].at # "free" /\ left' = left
      BY <1>4 DEF Begin, Run, SeeStop, FailLoop, Looping, Holds, Active, keys
  <2>2. task[t] \in Task /\ c \in Cameras
      BY <2>1, TaskAt DEF Task
  <2>3. Holds(t)' /\ task'[t].camera = c
      BY <1>4, <2>2 DEF Begin, Run, SeeStop, FailLoop, TaskTo, Holds, Active, TypeOK, Task
  <2>4. CASE d = c
      BY <2>3, <2>4 DEF Attended
  <2>5. CASE d # c
    <3>1. state[d] # None
        BY <1>4, <2>5 DEF Begin, Run, SeeStop, FailLoop, keys, TypeOK
    <3>2. d \in left \/ Attended(d)
        BY <1>2, <3>1
    <3> QED BY <1>1, <1>3, <2>1, <2>5, <3>2 DEF Attended
  <2> QED BY <2>4, <2>5
<1>5. CASE Beat(t)
  <2>1. UNCHANGED <<state, task, left>>
      BY <1>5 DEF Beat
  <2>2. d \in left \/ Attended(d)
      BY <1>2, <2>1
  <2> QED BY <1>1, <2>1, <2>2 DEF Attended, Holds, Active
<1>6. CASE Cleanup(t)
  <2>1. /\ state' = [state EXCEPT ![c] = None] /\ left' = left \ {c} /\ Holds(t)
      BY <1>6 DEF Cleanup, ClearKeys, Holds
  <2>2. c \in Cameras
      BY <1>6, TaskAt DEF Cleanup, Task
  <2>3. d # c /\ state[d] # None
      BY <2>1, <2>2 DEF TypeOK
  <2>4. d \in left \/ Attended(d)
      BY <1>2, <2>3
  <2> QED BY <1>1, <1>3, <2>1, <2>3, <2>4 DEF Attended
<1>7. CASE CheckOwner(t) \/ DropSlot(t)
  <2>1. ~Holds(t) /\ UNCHANGED <<state, left>>
      BY <1>7 DEF CheckOwner, DropSlot, Holds, Active, keys
  <2>2. d \in left \/ Attended(d)
      BY <1>2, <2>1
  <2> QED BY <1>1, <1>3, <2>1, <2>2 DEF Attended
<1>8. CASE Kill(t) \/ Crash(t)
  <2>1. /\ left' = IF Holds(t) /\ state[c] # None THEN left \cup {c} ELSE left
        /\ state' = state
      BY <1>8 DEF Kill, Crash, Dies
  <2>2. CASE Holds(t) /\ c = d
      BY <2>1, <2>2
  <2>3. CASE ~(Holds(t) /\ c = d)
    <3>1. d \in left \/ Attended(d)
        BY <1>2, <2>1
    <3> QED BY <1>1, <1>3, <2>1, <2>3, <3>1 DEF Attended
  <2> QED BY <2>2, <2>3
<1> QED BY <1>4, <1>5, <1>6, <1>7, <1>8 DEF Progress

(* Every step keeps it, whatever the environment may do.                   *)
LEMMA AttendedStep == TypeOK /\ StateAttended /\ [Next]_vars => StateAttended'
<1> SUFFICES ASSUME TypeOK, StateAttended, [Next]_vars PROVE StateAttended'
    OBVIOUS
<1>1. ASSUME UNCHANGED <<state, task, req, left>> PROVE StateAttended'
    BY <1>1 DEF StateAttended, Attended, Holds, Active
<1>2. ASSUME NEW r \in Requests, Arrival(r) PROVE StateAttended'
  <2>1. UNCHANGED <<state, task, left>> /\ req[r].at = "idle"
        /\ \A q \in Requests : q # r => req'[q] = req[q]
      BY <1>2 DEF Arrival, StartCheck, StopCheck, At, keys, TypeOK
  <2>2. ASSUME NEW c \in Cameras, Attended(c) PROVE Attended(c)'
      BY <2>1, <2>2 DEF Attended, Holds, Active
  <2> QED BY <2>1, <2>2 DEF StateAttended
<1>3. ASSUME NEW r \in Requests, StartSteps(r) \/ StopSteps(r) PROVE StateAttended'
    BY <1>3, StartAttended, StopAttended
<1>4. ASSUME NEW t \in Tasks,
             Progress(t) \/ Beat(t) \/ FailLoop(t) \/ Kill(t) \/ Crash(t)
      PROVE  StateAttended'
    BY <1>4, TaskAttended
<1>5. ASSUME NEW c \in Cameras, Age(c) \/ ExpireKeys(c) PROVE StateAttended'
  <2>1. CASE UNCHANGED <<state, task, req, left>>
      BY <1>1, <2>1
  <2>2. CASE ~ UNCHANGED <<state, task, req, left>>
    <3>1. state' = [state EXCEPT ![c] = None] /\ left' = left \ {c} /\ UNCHANGED <<task, req>>
        BY <1>5, <2>2 DEF Age, ExpireKeys
    <3>2. ASSUME NEW d \in Cameras, state'[d] # None PROVE d # c /\ state[d] # None
        BY <3>1, <3>2 DEF TypeOK
    <3>3. ASSUME NEW d \in Cameras, Attended(d) PROVE Attended(d)'
        BY <3>1, <3>3 DEF Attended, Holds, Active
    <3> QED BY <3>1, <3>2, <3>3 DEF StateAttended
  <2> QED BY <2>1, <2>2
<1>6. CASE ReaperLook \/ ReaperDrop
    BY <1>1, <1>6 DEF ReaperLook, ReaperDrop, keys
<1>7. CASE UNCHANGED vars
    BY <1>1, <1>7 DEF vars
<1> QED BY <1>2, <1>3, <1>4, <1>5, <1>6, <1>7 DEF Next

(* A camera that nobody attends to is reported stopped, unless its         *)
(* pipeline died or an ordinary stop marked it after the pipeline had gone *)
(* and nothing has deleted the state since.  Forced stops, overlapping     *)
(* starts, expiring keys, crashes and the reaper are all allowed.          *)
THEOREM StatesAreExplained == Spec => []StateExplained
<1>1. Init => StateAttended
    BY DEF Init, StateAttended
<1>2. TypeOK /\ StateAttended => StateExplained
  <2> SUFFICES ASSUME TypeOK, StateAttended, NEW c \in Cameras, Unattended(c), c \notin left
               PROVE  Reported(c) = "stopped"
      BY DEF StateExplained
  <2>1. ~Attended(c)
      BY DEF Unattended, Attended, At
  <2>2. state[c] = None
      BY <2>1 DEF StateAttended
  <2> QED BY <2>2, Zenon DEF Reported
<1> QED BY <1>1, <1>2, AttendedStep, ControlTypeCorrect, PTL DEF Spec

=============================================================================
