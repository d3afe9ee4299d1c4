---------------------------- MODULE CameraControl ----------------------------
(***************************************************************************)
(* Starting, running and stopping the camera pipelines.                    *)
(*                                                                         *)
(* Three kinds of process share a few Redis keys and nothing else: the     *)
(* API's start and stop requests (threads of one server), the pipelines    *)
(* (Celery tasks in the children of one worker pool) and the reaper job.   *)
(* A Redis command, or a MULTI block, is atomic; a handler is a sequence   *)
(* of them, so every handler below is cut where another process can come   *)
(* between two commands that matter to it.                                 *)
(*                                                                         *)
(* A heartbeat key expires after HeartbeatTtl units of time.  Redis        *)
(* removes it at that age, so, but for the latency of a command, no reader *)
(* sees an older one: the "unhealthy" report, which needs one, does not    *)
(* appear, and the half of the reaper that acts on it is left out.         *)
(***************************************************************************)
EXTENDS Integers, FiniteSets

CONSTANTS
  Cameras,       \* the registered cameras
  Slots,         \* CAMERA_SLOTS: the slots are 0 .. Slots - 1
  Children,      \* the worker's concurrency, Slots + 2 as deployed
  Tasks,         \* identities of camera.run tasks; one is reused once forgotten
  Requests,      \* the API threads that can handle a start or stop at once
  HeartbeatTtl,  \* the age at which Redis removes a heartbeat
  Allowed,       \* what may happen besides start, stop and run: see Occasions
  None           \* an absent key

(* "crash": a worker child dies, or a task fails before its cleanup is     *)
(*   armed, leaving all keys behind;                                       *)
(* "slow": one turn of the pipeline loop may outlast the heartbeat (an     *)
(*   inference timeout of 15 s and a backoff of 30 s do);                  *)
(* "day": keys live long enough to expire (an hour or a day after the last *)
(*   write);                                                               *)
(* "force": stop requests may carry force=true;                            *)
(* "reaper": the reaper job is scheduled;                                  *)
(* "broker": handing a task to the broker may fail.                        *)
Occasions == {"crash", "slow", "day", "force", "reaper", "broker"}

ASSUME ControlAssumption ==
  /\ Slots \in Nat \ {0} /\ Children \in Nat /\ HeartbeatTtl \in Nat \ {0}
  /\ Allowed \subseteq Occasions
  /\ None \notin Cameras /\ None \notin Tasks /\ None \notin Int
  /\ None \notin {"starting", "running", "stopping"}

VARIABLES
  state,    \* cam:<id>:state
  stop,     \* the cameras whose stop flag is set
  beat,     \* the age of cam:<id>:hb
  taskKey,  \* cam:<id>:task
  members,  \* the set cameras:running
  slot,     \* slot:<i>:camera, the camera that owns slot i
  task,     \* the camera.run tasks: camera, slot and how far each has come
  revoked,  \* the tasks for which a terminate order is on its way
  req,      \* the request each API thread is handling
  reap,     \* the slot the reaper is about to free
  left      \* history: cameras whose state key lost its pipeline, or was
            \* written without one by a stop, and still stands

vars == <<state, stop, beat, taskKey, members, slot, task, revoked, req, reap, left>>
keys == <<state, stop, beat, taskKey, members, slot, left>>

-----------------------------------------------------------------------------
SlotIds == 0 .. (Slots - 1)
NoSlot  == Slots

Free == [camera |-> None, slot |-> NoSlot, at |-> "free"]
Idle == [at |-> "idle", camera |-> None, slot |-> NoSlot, task |-> None,
         force |-> FALSE]

(* A task that will, or does, process frames; one that has not deleted its *)
(* camera's keys yet; and one that occupies a child.                       *)
Active(t)  == task[t].at \in {"queued", "loading", "looping"}
Looping(t) == task[t].at = "looping"
Holds(t)   == Active(t) \/ task[t].at = "ending"
Busy(t)    == task[t].at \in {"loading", "looping", "ending", "freeing", "dropping"}

(* get_camera_runtime: what the API reports of a camera.                   *)
Reported(c) ==
  IF state[c] = None THEN "stopped"
  ELSE IF state[c] = "running" /\ beat[c] # None /\ beat[c] > HeartbeatTtl
         THEN "unhealthy"
  ELSE state[c]

(* get_camera_slot: the first slot the camera owns.                        *)
SlotOf(c) ==
  LET owned == {i \in SlotIds : slot[i] = c}
  IN  IF owned = {} THEN NoSlot ELSE CHOOSE i \in owned : \A j \in owned : i <= j

(* A task identity nobody refers to any more.                              *)
Unknown(t) ==
  /\ task[t].at = "free"
  /\ \A c \in Cameras : taskKey[c] # t
  /\ \A r \in Requests : req[r].task # t

TaskTo(t, label) == task' = [task EXCEPT ![t].at = label]
ReqTo(r, label)  == req' = [req EXCEPT ![r].at = label]
At(r, label)     == req[r].at = label

(* The keys a pipeline's cleanup and a forced stop delete in one MULTI.    *)
ClearKeys(c) ==
  /\ state' = [state EXCEPT ![c] = None]
  /\ stop' = stop \ {c}
  /\ beat' = [beat EXCEPT ![c] = None]
  /\ taskKey' = [taskKey EXCEPT ![c] = None]
  /\ members' = members \ {c}
  /\ left' = left \ {c}
  /\ UNCHANGED slot

Init ==
  /\ state = [c \in Cameras |-> None]
  /\ stop = {}
  /\ beat = [c \in Cameras |-> None]
  /\ taskKey = [c \in Cameras |-> None]
  /\ members = {}
  /\ slot = [i \in SlotIds |-> None]
  /\ task = [t \in Tasks |-> Free]
  /\ revoked = {}
  /\ req = [r \in Requests |-> Idle]
  /\ reap = NoSlot
  /\ left = {}

-----------------------------------------------------------------------------
(* POST /cameras/{id}/start                                                *)

(* Variant with a fault: a stopping camera may be started.                 *)
StartCheckWhileStopping(r, c) ==
  /\ At(r, "idle")
  /\ Reported(c) \in {"stopped", "stopping"}
  /\ \E t \in Tasks : Unknown(t)
  /\ req' = [req EXCEPT ![r] = [Idle EXCEPT !.at = "look", !.camera = c, !.slot = 0]]
  /\ UNCHANGED <<keys, task, revoked, reap>>

(* Refused with 409 unless the camera is reported stopped.  The bound on   *)
(* Tasks holds a request back while every identity is still referred to.   *)
StartCheck(r, c) ==
  /\ At(r, "idle")
  /\ Reported(c) = "stopped"
  /\ \E t \in Tasks : Unknown(t)
  /\ req' = [req EXCEPT ![r] = [Idle EXCEPT !.at = "look", !.camera = c, !.slot = 0]]
  /\ UNCHANGED <<keys, task, revoked, reap>>

(* One turn of _acquire_slot up to its first write: take a slot that is    *)
(* already ours, pass by a slot whose owner has a heartbeat, go on to      *)
(* claim a free one, or to reclaim one whose owner has no heartbeat.  Past *)
(* the last slot the request ends with 409.                                *)
StartLook(r) ==
  /\ At(r, "look")
  /\ LET i == req[r].slot
     IN  \/ /\ i = NoSlot
            /\ req' = [req EXCEPT ![r] = Idle]
         \/ /\ i # NoSlot /\ slot[i] = req[r].camera
            /\ ReqTo(r, "announce")
         \/ /\ i # NoSlot /\ slot[i] = None
            /\ ReqTo(r, "claim")
         \/ /\ i # NoSlot /\ slot[i] \notin {None, req[r].camera}
            /\ IF beat[slot[i]] # None
                 THEN req' = [req EXCEPT ![r].slot = i + 1]
                 ELSE ReqTo(r, "reclaim")
  /\ UNCHANGED <<keys, task, revoked, reap>>

(* DELETE of the stale owner, whoever the owner is by now.                 *)
StartReclaim(r) ==
  /\ At(r, "reclaim")
  /\ slot' = [slot EXCEPT ![req[r].slot] = None]
  /\ ReqTo(r, "claim")
  /\ UNCHANGED <<state, stop, beat, taskKey, members, task, revoked, reap, left>>

(* SET NX: the slot is ours, or somebody was faster and we look further.   *)
StartClaim(r) ==
  /\ At(r, "claim")
  /\ LET i == req[r].slot
     IN  IF slot[i] = None
           THEN /\ slot' = [slot EXCEPT ![i] = req[r].camera]
                /\ ReqTo(r, "announce")
           ELSE /\ req' = [req EXCEPT ![r].at = "look", ![r].slot = i + 1]
                /\ UNCHANGED slot
  /\ UNCHANGED <<state, stop, beat, taskKey, members, task, revoked, reap, left>>

(* Variant with a fault: the state is left to the pipeline to write.       *)
StartUnannounced(r) ==
  /\ At(r, "announce")
  /\ stop' = stop \ {req[r].camera}
  /\ ReqTo(r, "send")
  /\ UNCHANGED <<state, beat, taskKey, members, slot, task, revoked, reap, left>>

StartAnnounce(r) ==
  /\ At(r, "announce")
  /\ stop' = stop \ {req[r].camera}
  /\ state' = [state EXCEPT ![req[r].camera] = "starting"]
  /\ ReqTo(r, "send")
  /\ UNCHANGED <<beat, taskKey, members, slot, task, revoked, reap, left>>

(* send_task: from here on a worker may run it, before we record it.       *)
StartSend(r) ==
  /\ At(r, "send")
  /\ \E t \in Tasks :
       /\ Unknown(t)
       /\ task' = [task EXCEPT ![t] =
            [camera |-> req[r].camera, slot |-> req[r].slot, at |-> "queued"]]
       /\ req' = [req EXCEPT ![r].at = "record", ![r].task = t]
  /\ left' = left \ {req[r].camera}
  /\ UNCHANGED <<state, stop, beat, taskKey, members, slot, revoked, reap>>

StartSendFails(r) ==
  /\ "broker" \in Allowed
  /\ At(r, "send")
  /\ state' = [state EXCEPT ![req[r].camera] = None]
  /\ slot' = [slot EXCEPT ![req[r].slot] = None]
  /\ left' = left \ {req[r].camera}
  /\ req' = [req EXCEPT ![r] = Idle]
  /\ UNCHANGED <<stop, beat, taskKey, members, task, revoked, reap>>

StartRecord(r) ==
  /\ At(r, "record")
  /\ taskKey' = [taskKey EXCEPT ![req[r].camera] = req[r].task]
  /\ members' = members \cup {req[r].camera}
  /\ req' = [req EXCEPT ![r] = Idle]
  /\ UNCHANGED <<state, stop, beat, slot, task, revoked, reap, left>>

-----------------------------------------------------------------------------
(* POST /cameras/{id}/stop                                                 *)

(* A camera reported stopped needs nothing done.                           *)
StopCheck(r, c, force) ==
  /\ At(r, "idle")
  /\ force => "force" \in Allowed
  /\ Reported(c) # "stopped"
  /\ req' = [req EXCEPT ![r] = [at |-> "flag", camera |-> c, slot |-> SlotOf(c),
                                task |-> taskKey[c], force |-> force]]
  /\ UNCHANGED <<keys, task, revoked, reap>>

StopFlag(r) ==
  /\ At(r, "flag")
  /\ stop' = stop \cup {req[r].camera}
  /\ ReqTo(r, "mark")
  /\ UNCHANGED <<state, beat, taskKey, members, slot, task, revoked, reap, left>>

(* Whatever the state is by now, it becomes "stopping", also when the      *)
(* pipeline has gone in the meantime.                                      *)
StopMark(r) ==
  /\ At(r, "mark")
  /\ state' = [state EXCEPT ![req[r].camera] = "stopping"]
  /\ left' = IF ~req[r].force /\ \A t \in Tasks : Holds(t) => task[t].camera # req[r].camera
               THEN left \cup {req[r].camera} ELSE left
  /\ req' = IF req[r].force
              THEN [req EXCEPT ![r].at = "revoke"]
              ELSE [req EXCEPT ![r] = Idle]
  /\ UNCHANGED <<stop, beat, taskKey, members, slot, task, revoked, reap>>

(* Variant with a fault: without a task id there is nothing to force.      *)
StopRevokeKnown(r) ==
  /\ At(r, "revoke")
  /\ IF req[r].task # None
       THEN revoked' = revoked \cup {req[r].task} /\ ReqTo(r, "clear")
       ELSE req' = [req EXCEPT ![r] = Idle] /\ UNCHANGED revoked
  /\ UNCHANGED <<keys, task, reap>>

(* The terminate order is broadcast to the worker; it takes effect later.  *)
StopRevoke(r) ==
  /\ At(r, "revoke")
  /\ revoked' = IF req[r].task # None /\ task[req[r].task].at # "free"
                  THEN revoked \cup {req[r].task} ELSE revoked
  /\ ReqTo(r, "clear")
  /\ UNCHANGED <<keys, task, reap>>

StopClear(r) ==
  /\ At(r, "clear")
  /\ ClearKeys(req[r].camera)
  /\ ReqTo(r, "owner")
  /\ UNCHANGED <<task, revoked, reap>>

(* GET the owner of the slot that was read at the start of the request ... *)
StopOwner(r) ==
  /\ At(r, "owner")
  /\ IF req[r].slot # NoSlot /\ slot[req[r].slot] = req[r].camera
       THEN ReqTo(r, "drop")
       ELSE req' = [req EXCEPT ![r] = Idle]
  /\ UNCHANGED <<keys, task, revoked, reap>>

(* ... and DELETE the key.                                                 *)
StopDrop(r) ==
  /\ At(r, "drop")
  /\ slot' = [slot EXCEPT ![req[r].slot] = None]
  /\ req' = [req EXCEPT ![r] = Idle]
  /\ UNCHANGED <<state, stop, beat, taskKey, members, task, revoked, reap, left>>

-----------------------------------------------------------------------------
(* camera.run: a task in a child of the worker pool                        *)

(* Variant with a fault: one task at a time from each slot's queue.        *)
BeginOnePerSlot(t) ==
  /\ task[t].at = "queued"
  /\ t \notin revoked
  /\ \A u \in Tasks : Busy(u) => task[u].slot # task[t].slot
  /\ TaskTo(t, "loading")
  /\ UNCHANGED <<keys, revoked, req, reap>>

(* The pool takes from all its queues: a child that is free runs the task, *)
(* whether or not another task of the same slot's queue is running.        *)
Begin(t) ==
  /\ task[t].at = "queued"
  /\ t \notin revoked
  /\ Cardinality({u \in Tasks : Busy(u)}) < Children
  /\ TaskTo(t, "loading")
  /\ UNCHANGED <<keys, revoked, req, reap>>

(* Variant with a fault: a fresh pipeline drops the flag it finds.         *)
RunClearingFlag(t) ==
  /\ task[t].at = "loading"
  /\ TaskTo(t, "looping")
  /\ state' = [state EXCEPT ![task[t].camera] = "running"]
  /\ members' = members \cup {task[t].camera}
  /\ beat' = [beat EXCEPT ![task[t].camera] = 0]
  /\ stop' = stop \ {task[t].camera}
  /\ UNCHANGED <<taskKey, slot, revoked, req, reap, left>>

(* Camera and index are loaded; the pipeline marks itself alive, without a *)
(* look at what the keys say by now.                                       *)
Run(t) ==
  /\ task[t].at = "loading"
  /\ TaskTo(t, "looping")
  /\ state' = [state EXCEPT ![task[t].camera] = "running"]
  /\ members' = members \cup {task[t].camera}
  /\ beat' = [beat EXCEPT ![task[t].camera] = 0]
  /\ UNCHANGED <<stop, taskKey, slot, revoked, req, reap, left>>

(* The top of the loop: no stop flag, so refresh the heartbeat.            *)
Beat(t) ==
  /\ Looping(t)
  /\ task[t].camera \notin stop
  /\ beat' = [beat EXCEPT ![task[t].camera] = 0]
  /\ UNCHANGED <<state, stop, taskKey, members, slot, task, revoked, req, reap, left>>

(* Variant with a fault: the loop looks at the state key, not the flag.    *)
SeeStopByState(t) ==
  /\ Looping(t)
  /\ state[task[t].camera] = "stopping"
  /\ TaskTo(t, "ending")
  /\ UNCHANGED <<keys, revoked, req, reap>>

(* The top of the loop: the stop flag is set.                              *)
SeeStop(t) ==
  /\ Looping(t)
  /\ task[t].camera \in stop
  /\ TaskTo(t, "ending")
  /\ UNCHANGED <<keys, revoked, req, reap>>

(* An exception leaves the loop and reaches the same finally block.        *)
FailLoop(t) ==
  /\ Looping(t)
  /\ TaskTo(t, "ending")
  /\ UNCHANGED <<keys, revoked, req, reap>>

(* The finally block deletes the camera's keys, whoever wrote them, ...    *)
Cleanup(t) ==
  /\ task[t].at = "ending"
  /\ ClearKeys(task[t].camera)
  /\ TaskTo(t, "freeing")
  /\ UNCHANGED <<revoked, req, reap>>

(* ... GETs the owner of its slot ...                                      *)
CheckOwner(t) ==
  /\ task[t].at = "freeing"
  /\ IF slot[task[t].slot] = task[t].camera
       THEN TaskTo(t, "dropping") /\ UNCHANGED revoked
       ELSE task' = [task EXCEPT ![t] = Free] /\ revoked' = revoked \ {t}
  /\ UNCHANGED <<keys, req, reap>>

(* ... and DELETEs the key if it was its camera.                           *)
DropSlot(t) ==
  /\ task[t].at = "dropping"
  /\ slot' = [slot EXCEPT ![task[t].slot] = None]
  /\ task' = [task EXCEPT ![t] = Free]
  /\ revoked' = revoked \ {t}
  /\ UNCHANGED <<state, stop, beat, taskKey, members, req, reap, left>>

(* A task that dies leaves its camera's keys behind.                       *)
Dies(t) ==
  /\ left' = IF Holds(t) /\ state[task[t].camera] # None
               THEN left \cup {task[t].camera} ELSE left
  /\ task' = [task EXCEPT ![t] = Free]
  /\ revoked' = revoked \ {t}
  /\ UNCHANGED <<state, stop, beat, taskKey, members, slot, req, reap>>

(* The terminate order arrives: a running child is killed where it stands, *)
(* a queued task is thrown away.                                           *)
Kill(t) ==
  /\ t \in revoked
  /\ Dies(t)

(* The child dies, or the task fails before the finally block is armed     *)
(* (camera row gone, index not loadable): nothing is cleaned up, and tasks *)
(* are acknowledged early, so nobody runs it again.                        *)
Crash(t) ==
  /\ "crash" \in Allowed
  /\ Busy(t)
  /\ Dies(t)

-----------------------------------------------------------------------------
(* Time and the reaper                                                     *)

(* Variant with a fault: the heartbeat key is written without an expiry.   *)
AgeForever(c) ==
  /\ beat[c] # None
  /\ beat' = [beat EXCEPT ![c] = @ + 1]
  /\ UNCHANGED <<state, stop, taskKey, members, slot, task, revoked, req, reap, left>>

(* Unless turns may be slow, a looping pipeline touches its heartbeat      *)
(* before it expires.                                                      *)
Age(c) ==
  /\ beat[c] # None
  /\ \/ "slow" \in Allowed
     \/ beat[c] + 1 < HeartbeatTtl
     \/ \A t \in Tasks : Looping(t) => task[t].camera # c
  /\ beat' = [beat EXCEPT ![c] = IF @ + 1 < HeartbeatTtl THEN @ + 1 ELSE None]
  /\ UNCHANGED <<state, stop, taskKey, members, slot, task, revoked, req, reap, left>>

(* A key nobody has written for long expires: the state and the task id    *)
(* after a day, whatever still runs, the stop flag after an hour.          *)
ExpireKeys(c) ==
  /\ "day" \in Allowed
  /\ \/ /\ state[c] # None
        /\ state' = [state EXCEPT ![c] = None]
        /\ left' = left \ {c}
        /\ UNCHANGED <<taskKey, stop>>
     \/ /\ taskKey[c] # None
        /\ taskKey' = [taskKey EXCEPT ![c] = None]
        /\ UNCHANGED <<state, stop, left>>
     \/ /\ c \in stop
        /\ stop' = stop \ {c}
        /\ UNCHANGED <<state, taskKey, left>>
  /\ UNCHANGED <<beat, members, slot, task, revoked, req, reap>>

(* The reaper frees a slot whose owner it found without a heartbeat.       *)
ReaperLook ==
  /\ "reaper" \in Allowed
  /\ reap = NoSlot
  /\ \E i \in SlotIds :
       /\ slot[i] # None
       /\ beat[slot[i]] = None
       /\ reap' = i
  /\ UNCHANGED <<keys, task, revoked, req>>

ReaperDrop ==
  /\ reap # NoSlot
  /\ slot' = [slot EXCEPT ![reap] = None]
  /\ reap' = NoSlot
  /\ UNCHANGED <<state, stop, beat, taskKey, members, task, revoked, req, left>>

-----------------------------------------------------------------------------
StartSteps(r) ==
  \/ StartLook(r) \/ StartReclaim(r) \/ StartClaim(r) \/ StartAnnounce(r)
  \/ StartSend(r) \/ StartSendFails(r) \/ StartRecord(r)

StopSteps(r) ==
  \/ StopFlag(r) \/ StopMark(r) \/ StopRevoke(r) \/ StopClear(r)
  \/ StopOwner(r) \/ StopDrop(r)

Arrival(r) ==
  \E c \in Cameras : StartCheck(r, c) \/ \E f \in BOOLEAN : StopCheck(r, c, f)

(* What a task does by itself, apart from failing.                         *)
Progress(t) ==
  Begin(t) \/ Run(t) \/ SeeStop(t) \/ Cleanup(t) \/ CheckOwner(t) \/ DropSlot(t)

Next ==
  \/ \E r \in Requests : Arrival(r) \/ StartSteps(r) \/ StopSteps(r)
  \/ \E t \in Tasks : Progress(t) \/ Beat(t) \/ FailLoop(t) \/ Kill(t) \/ Crash(t)
  \/ \E c \in Cameras : Age(c) \/ ExpireKeys(c)
  \/ ReaperLook \/ ReaperDrop

Spec == Init /\ [][Next]_vars

(* Requests are carried through by their threads, a pipeline keeps turning *)
(* its loop and finishes its cleanup.  The queues are first-in first-out   *)
(* and the pool consumes them in turn, so a queued task is not passed over *)
(* for ever (strong fairness of Begin): children that come free again and  *)
(* again come to it too.                                                   *)
Fairness ==
  /\ \A r \in Requests : WF_vars(StartSteps(r)) /\ WF_vars(StopSteps(r))
  /\ \A t \in Tasks : WF_vars(Progress(t)) /\ SF_vars(Begin(t))

FairSpec == Spec /\ Fairness

-----------------------------------------------------------------------------
(* Properties                                                              *)

Labels == {"queued", "loading", "looping", "ending", "freeing", "dropping"}

StartLabels == {"look", "reclaim", "claim", "announce", "send", "record"}
StopLabels  == {"flag", "mark", "revoke", "clear", "owner", "drop"}
SlotLabels  == {"reclaim", "claim", "announce", "send", "record", "drop"}

Task == [camera : Cameras, slot : SlotIds, at : Labels]

Request ==
  [at : StartLabels \cup StopLabels, camera : Cameras,
   slot : SlotIds \cup {NoSlot}, task : Tasks \cup {None}, force : BOOLEAN]

(* Every variable keeps its type; a heartbeat never reaches its expiry,    *)
(* and a request that writes a slot key has one to write.                  *)
TypeOK ==
  /\ state \in [Cameras -> {None, "starting", "running", "stopping"}]
  /\ stop \subseteq Cameras
  /\ beat \in [Cameras -> {None} \cup 0 .. (HeartbeatTtl - 1)]
  /\ taskKey \in [Cameras -> Tasks \cup {None}]
  /\ members \subseteq Cameras
  /\ slot \in [SlotIds -> Cameras \cup {None}]
  /\ task \in [Tasks -> Task \cup {Free}]
  /\ revoked \subseteq Tasks
  /\ req \in [Requests -> Request \cup {Idle}]
  /\ \A r \in Requests : req[r].at \in SlotLabels => req[r].slot \in SlotIds
  /\ reap \in SlotIds \cup {NoSlot}
  /\ left \subseteq Cameras

(* Two start requests for one camera do not overlap, from their check to   *)
(* the hand-over of the task; anything else may.                           *)
BeforeSend == {"look", "reclaim", "claim", "announce", "send"}

StartsApart ==
  \A r, q \in Requests :
    /\ req[r].at \in BeforeSend /\ req[q].at \in BeforeSend
    /\ req[r].camera = req[q].camera
    => r = q

(* A camera never has two pipelines.  The ledger relies on it: two         *)
(* pipelines of one entry camera would be two entry points.                *)
OnePipeline ==
  \A t, u \in Tasks :
    Active(t) /\ Active(u) /\ task[t].camera = task[u].camera => t = u

(* A camera with a pipeline, queued or running, is never reported stopped: *)
(* otherwise a stop request would be waved through.  Once the pipeline     *)
(* runs, the camera is also in the set that the metrics count.             *)
NeverHidden ==
  \A t \in Tasks :
    /\ Active(t) => Reported(task[t].camera) # "stopped"
    /\ Looping(t) => task[t].camera \in members

(* A stop flag is not lost: while the camera's pipeline is waiting to run  *)
(* or running, nobody takes the flag away, except a forced stop that has   *)
(* sent the pipeline its terminate order.                                  *)
StopHeard ==
  [][\A t \in Tasks :
       Active(t) /\ task[t].camera \in stop /\ task[t].camera \notin stop'
         => t \in revoked \/ ~Active(t)']_vars

(* A stop request ends the pipeline, also when it comes before the task    *)
(* has run and announced itself.                                           *)
StopEnds ==
  \A t \in Tasks :
    (Active(t) /\ task[t].camera \in stop) ~> ~Active(t)

(* A pipeline that was started gets a child to run in, whoever holds the   *)
(* slots ("a long camera task can never starve ... another camera",        *)
(* app/workers/celery_app.py:10), as long as there are children enough.     *)
TaskBegins == \A t \in Tasks : task[t].at = "queued" ~> task[t].at # "queued"

(* A camera that nobody attends to is reported stopped: no pipeline of it  *)
(* is under way, no start is about to send one, and no forced stop is      *)
(* about to delete its keys.  The exceptions are a pipeline that died, by  *)
(* itself or by a terminate order, and an ordinary stop that came after    *)
(* the pipeline had gone; after them the camera is refused to every start, *)
(* until a forced stop or the expiry of the key makes it good.             *)
Unattended(c) ==
  /\ \A t \in Tasks : Holds(t) => task[t].camera # c
  /\ \A r \in Requests :
       req[r].camera = c => ~At(r, "send") /\ ~At(r, "revoke") /\ ~At(r, "clear")

StateExplained ==
  \A c \in Cameras : Unattended(c) => Reported(c) = "stopped" \/ c \in left

=============================================================================
