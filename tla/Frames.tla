----------------------------- MODULE Frames -----------------------------
(* The way of a camera's frames: a reader thread opens the source, reads,  *)
(* samples and puts frames into a bounded queue, taking the oldest out     *)
(* when it is full; the pipeline thread collects batches, has the engine   *)
(* look at them and hands each frame on with its faces.  The engine may    *)
(* fail in each of its stages and falls back, for the rest of its life or  *)
(* by starting over on the CPU.  One queue operation, one read, one engine *)
(* stage is a step.                                                        *)
EXTENDS FaceEngine

CONSTANTS
    Source,        \* the images that the camera shows, each the faces on it, best score first
    Others,        \* images of other cameras in the same engine call
    QueueSize, BatchSize, SamplingRate,
    LoopMin,       \* a file pass with more frames than this starts over at once
    MaxFails,      \* reads that may fail in a row before a stream is reopened
    FirstDelay, MaxDelay,
    Batchable      \* whether the detector's graph takes several images

ASSUME FramesAssumption ==
    /\ Source \in Seq(Seq(Faces)) /\ Others \subseteq Seq(Seq(Faces))
    /\ {QueueSize, BatchSize, SamplingRate, MaxFails, FirstDelay, MaxDelay} \subseteq Nat \ {0}
    /\ LoopMin \in Nat /\ FirstDelay <= MaxDelay
    /\ Batchable \in BOOLEAN

VARIABLES
    reader,   \* the reader thread
    queue,    \* sampled frames, oldest first
    asked,    \* the stop flag in Redis
    stop,     \* the event that ends the reader
    task,     \* the pipeline thread
    engine,   \* the engine: on the CPU for good, batched detection enabled
    handled,  \* history: numbers of the frames handed on, in order
    dropped,  \* history: numbers of the frames taken out of a full queue
    gone      \* history: those not encoded, lost in a call, or given up at the end

vars == <<reader, queue, asked, stop, task, engine, handled, dropped, gone>>

MaxRead == Len(Source)    \* bound: frames read
Packet == [seq : 1 .. MaxRead, image : ToSet(Source)]
NoPacket == [seq |-> 0]

Waiting == [pc |-> "collect", batch |-> <<>>, others |-> <<>>, dets |-> <<>>, tried |-> FALSE,
            failed |-> FALSE, results |-> <<>>]

Init ==
    /\ reader \in [pc : {"open"}, file : BOOLEAN, delay : {FirstDelay}, fails : {0}, index : {0},
                   sampled : {0}, read : {0}, packet : {NoPacket}]
    /\ queue = <<>>
    /\ asked = FALSE /\ stop = FALSE
    /\ task = Waiting
    /\ engine \in [cpu : BOOLEAN, batched : {FALSE, Batchable}]
    /\ handled = <<>>
    /\ dropped = {}
    /\ gone = {}

-----------------------------------------------------------------------------
(* The reader thread.                                                      *)

Doubled(delay) == IF 2 * delay <= MaxDelay THEN 2 * delay ELSE MaxDelay

(* Each of its loops looks at the event before it goes round.              *)
Ended ==
    /\ stop
    /\ reader.pc \in {"open", "wait", "read", "push"}
    /\ reader' = [reader EXCEPT !.pc = "done", !.packet = NoPacket]
    /\ gone' = IF reader.pc = "push" THEN gone \cup {reader.packet.seq} ELSE gone
    /\ UNCHANGED <<queue, asked, stop, task, engine, handled, dropped>>

Open ==
    /\ reader.pc = "open" /\ ~stop
    /\ reader' = [reader EXCEPT !.pc = "read", !.delay = FirstDelay, !.fails = 0, !.index = 0]
    /\ UNCHANGED <<queue, asked, stop, task, engine, handled, dropped, gone>>

OpenFails ==
    /\ reader.pc = "open" /\ ~stop
    /\ reader' = [reader EXCEPT !.pc = "wait", !.delay = Doubled(@)]
    /\ UNCHANGED <<queue, asked, stop, task, engine, handled, dropped, gone>>

Waited ==
    /\ reader.pc = "wait"
    /\ reader' = [reader EXCEPT !.pc = "open"]
    /\ UNCHANGED <<queue, asked, stop, task, engine, handled, dropped, gone>>

(* Of the frames since the source was opened, every SamplingRate-th is     *)
(* used, the first one included.                                           *)
Read ==
    /\ reader.pc = "read" /\ ~stop
    /\ reader.read < MaxRead
    /\ LET sample == reader.index % SamplingRate = 0 IN
       reader' = [reader EXCEPT
           !.pc = IF sample THEN "push" ELSE "read",
           !.fails = 0,
           !.index = @ + 1,
           !.read = @ + 1,
           !.sampled = IF sample THEN @ + 1 ELSE @,
           !.packet = IF sample THEN [seq |-> reader.sampled + 1, image |-> Source[reader.read + 1]] ELSE NoPacket]
    /\ UNCHANGED <<queue, asked, stop, task, engine, handled, dropped, gone>>

(* The end of a file that gave enough frames is its beginning; one that    *)
(* gave few is tried again later; a stream may fail for a while.           *)
ReadFails ==
    /\ reader.pc = "read" /\ ~stop
    /\ reader' = [reader EXCEPT
           !.fails = @ + 1,
           !.pc = IF ~reader.file THEN (IF reader.fails + 1 >= MaxFails THEN "open" ELSE "read")
                  ELSE IF reader.index > LoopMin THEN "open" ELSE "wait",
           !.delay = IF reader.file /\ reader.index <= LoopMin THEN Doubled(@) ELSE @]
    /\ UNCHANGED <<queue, asked, stop, task, engine, handled, dropped, gone>>

Put ==
    /\ reader.pc = "push" /\ ~stop
    /\ Len(queue) < QueueSize
    /\ queue' = Append(queue, reader.packet)
    /\ reader' = [reader EXCEPT !.pc = "read", !.packet = NoPacket]
    /\ UNCHANGED <<asked, stop, task, engine, handled, dropped, gone>>

PutFull ==
    /\ reader.pc = "push" /\ ~stop
    /\ Len(queue) = QueueSize
    /\ reader' = [reader EXCEPT !.pc = "drop"]
    /\ UNCHANGED <<queue, asked, stop, task, engine, handled, dropped, gone>>

(* Mutant: the frame that came last makes room.                            *)
DropLast ==
    /\ reader.pc = "drop"
    /\ IF queue = <<>> THEN UNCHANGED <<queue, dropped>>
       ELSE /\ dropped' = dropped \cup {Last(queue).seq}
            /\ queue' = Front(queue)
    /\ reader' = [reader EXCEPT !.pc = "push"]
    /\ UNCHANGED <<asked, stop, task, engine, handled, gone>>

(* Mutant: the new frame is given up when there was nothing to take out.   *)
DropBoth ==
    /\ reader.pc = "drop"
    /\ IF queue = <<>> THEN UNCHANGED <<queue, dropped>>
       ELSE /\ dropped' = dropped \cup {Head(queue).seq}
            /\ queue' = Tail(queue)
    /\ reader' = [reader EXCEPT !.pc = IF queue = <<>> THEN "read" ELSE "push"]
    /\ UNCHANGED <<asked, stop, task, engine, handled, gone>>

(* Mutant: a frame that finds the queue full is put by a call that blocks  *)
(* until there is room, and does not look at the event.                    *)
PutBlocks ==
    /\ reader.pc = "drop"
    /\ Len(queue) < QueueSize
    /\ queue' = Append(queue, reader.packet)
    /\ reader' = [reader EXCEPT !.pc = "read", !.packet = NoPacket]
    /\ UNCHANGED <<asked, stop, task, engine, handled, dropped, gone>>

(* Meanwhile the pipeline may have taken some, or all.                     *)
Drop ==
    /\ reader.pc = "drop"
    /\ IF queue = <<>> THEN UNCHANGED <<queue, dropped>>
       ELSE /\ dropped' = dropped \cup {Head(queue).seq}
            /\ queue' = Tail(queue)
    /\ reader' = [reader EXCEPT !.pc = "push"]
    /\ UNCHANGED <<asked, stop, task, engine, handled, gone>>

-----------------------------------------------------------------------------
(* The pipeline thread, up to the engine.                                  *)

AskStop ==
    /\ asked' = TRUE
    /\ UNCHANGED <<reader, queue, stop, task, engine, handled, dropped, gone>>

Batch == {task.batch[i].seq : i \in DOMAIN task.batch}

(* The loop sees the flag, or fails on a face: the reader is told.         *)
Leave ==
    /\ \/ task.pc = "collect" /\ task.batch = <<>> /\ asked
       \/ task.pc = "handle"
    /\ task' = [Waiting EXCEPT !.pc = "ended"]
    /\ stop' = TRUE
    /\ gone' = gone \cup Batch
    /\ UNCHANGED <<reader, queue, asked, engine, handled, dropped>>

Collect ==
    /\ task.pc = "collect"
    /\ task.batch # <<>> => ~asked
    /\ Len(task.batch) < BatchSize
    /\ queue # <<>>
    /\ task' = [task EXCEPT !.batch = Append(@, Head(queue))]
    /\ queue' = Tail(queue)
    /\ UNCHANGED <<reader, asked, stop, engine, handled, dropped, gone>>

(* The queue is empty, the batch full, its time over or a stop asked for.  *)
(* Frames that do not encode are left out; the others go to the engine,    *)
(* where images of other cameras may follow them.                          *)
Images1 == [i \in DOMAIN task.batch |-> task.batch[i].image] \o task.others

Submit ==
    /\ task.pc = "collect" /\ task.batch # <<>>
    /\ \E i \in 0 .. Len(task.batch), others \in Others :
        LET encoded == IF i = 0 THEN task.batch ELSE RemoveAt(task.batch, i) IN
        /\ task' = IF encoded = <<>> THEN Waiting
                   ELSE [task EXCEPT !.pc = "detect", !.batch = encoded, !.others = others]
        /\ gone' = IF i = 0 THEN gone ELSE gone \cup {task.batch[i].seq}
    /\ UNCHANGED <<reader, queue, asked, stop, engine, handled, dropped>>

(* The call fails on the way, its answer is late, or starting over fails:  *)
(* the batch is gone.                                                      *)
CallFails ==
    /\ task.pc \in {"detect", "embed", "recover"}
    /\ task' = Waiting
    /\ gone' = gone \cup Batch
    /\ UNCHANGED <<reader, queue, asked, stop, engine, handled, dropped>>

-----------------------------------------------------------------------------
(* The engine.                                                             *)

Together == engine.batched /\ Len(Images1) > 1

DetectTogether ==
    /\ task.pc = "detect" /\ Together
    /\ task' = [task EXCEPT !.pc = "embed"]
    /\ UNCHANGED <<reader, queue, asked, stop, engine, handled, dropped, gone>>

DetectTogetherFails ==
    /\ task.pc = "detect" /\ Together
    /\ engine' = [engine EXCEPT !.batched = FALSE]
    /\ UNCHANGED <<reader, queue, asked, stop, task, handled, dropped, gone>>

DetectEach ==
    /\ task.pc = "detect" /\ ~Together
    /\ task' = [task EXCEPT !.pc = "embed"]
    /\ UNCHANGED <<reader, queue, asked, stop, engine, handled, dropped, gone>>

DetectEachFails ==
    /\ task.pc = "detect" /\ ~Together
    /\ task' = [task EXCEPT !.pc = "recover"]
    /\ UNCHANGED <<reader, queue, asked, stop, engine, handled, dropped, gone>>

(* reset_to_cpu: the model is loaded again and probed again.               *)
Recover ==
    /\ task.pc = "recover" /\ ~task.tried
    /\ engine' \in [cpu : {TRUE}, batched : {FALSE, Batchable}]
    /\ task' = [task EXCEPT !.pc = "detect", !.tried = TRUE]
    /\ UNCHANGED <<reader, queue, asked, stop, handled, dropped, gone>>

Embed ==
    /\ task.pc = "embed"
    /\ LET crops == Aligned(Images1) IN
       \E kept \in SUBSET DOMAIN crops :
        task' = [task EXCEPT !.pc = "handle", !.failed = kept # DOMAIN crops,
                             !.results = Assembled(Images1, crops, Embedded(crops, kept))]
    /\ UNCHANGED <<reader, queue, asked, stop, engine, handled, dropped, gone>>

(* Each frame with its own results, in order; the other cameras get theirs.*)
Handle ==
    /\ task.pc = "handle"
    /\ handled' = Append(handled, Head(task.batch).seq)
    /\ task' = IF Len(task.batch) = 1 THEN Waiting
               ELSE [task EXCEPT !.batch = Tail(@), !.results = Tail(@)]
    /\ UNCHANGED <<reader, queue, asked, stop, engine, dropped, gone>>

-----------------------------------------------------------------------------
ReaderStep ==
    Ended \/ Open \/ OpenFails \/ Waited \/ Read
        \/ ReadFails \/ Put \/ PutFull \/ Drop
TaskStep ==
    Leave \/ Collect \/ Submit \/ CallFails \/ DetectTogether \/ DetectTogetherFails
        \/ DetectEach \/ DetectEachFails \/ Recover \/ Embed \/ Handle
Next == ReaderStep \/ TaskStep \/ AskStop

Spec == Init /\ [][Next]_vars

(* The reader thread runs, its waits and reads end, and the pipeline turns *)
(* its loop; a read may bring a frame or not.                              *)
FairSpec == Spec /\ WF_vars(ReaderStep) /\ WF_vars(TaskStep)

-----------------------------------------------------------------------------
(* Properties.                                                             *)

Numbers(packets) == [i \in DOMAIN packets |-> packets[i].seq]
InHand == reader.pc \in {"push", "drop"}
Hand == IF InHand THEN <<reader.packet>> ELSE <<>>
Line == handled \o Numbers(task.batch) \o Numbers(queue) \o Numbers(Hand)

(* Every variable keeps its type, and the queue its size.                  *)
TypeOK ==
    /\ reader.pc \in {"open", "wait", "read", "push", "drop", "done"}
    /\ reader.delay \in FirstDelay .. MaxDelay
    /\ reader.fails \in 0 .. MaxRead + MaxFails
    /\ reader.sampled <= reader.read
    /\ queue \in Seq(Packet) /\ Len(queue) <= QueueSize
    /\ task.pc \in {"collect", "detect", "embed", "recover", "handle", "ended"}
    /\ task.batch \in Seq(Packet) /\ Len(task.batch) <= BatchSize
    /\ engine \in [cpu : BOOLEAN, batched : BOOLEAN]

(* Frames are handed on in the order they were read, none twice, although  *)
(* two threads take from the queue; one that was taken out to make room is *)
(* older than all that wait.                                               *)
InOrder ==
    /\ \A i, j \in DOMAIN Line : i < j => Line[i] < Line[j]
    /\ \A n \in dropped, i \in DOMAIN queue : n < queue[i].seq

(* The queue loses old frames only: every frame that was sampled is on its *)
(* way, handed on, or gone for a reason; one is dropped for a new one at   *)
(* most, and only when more have come than the queue holds.                *)
NewestKept ==
    /\ 1 .. reader.sampled = ToSet(Line) \cup dropped \cup gone
    /\ reader.sampled \notin dropped
    /\ dropped # {} => Cardinality(dropped) + QueueSize <= reader.sampled

(* A frame gets boxes of its own faces only, best score first; the vector  *)
(* of a box is the one of its face unless the embedding of a face in the   *)
(* same call failed (then it may be that of another camera's face).        *)
OwnFaces ==
    task.pc = "handle" =>
        \A i \in DOMAIN task.batch :
            LET faces == task.results[i] IN
            /\ \A j \in DOMAIN faces :
                /\ faces[j].face \in ToSet(task.batch[i].image) \cap Usable
                /\ faces[j].vector = faces[j].face \/ task.failed
            /\ \A j, k \in DOMAIN faces : j < k => faces[j].score >= faces[k].score

(* The reader ends when the pipeline has, whatever it is waiting for, and  *)
(* also when nobody takes from the queue any more.                         *)
ReaderEnds == stop ~> reader.pc = "done"
=============================================================================
