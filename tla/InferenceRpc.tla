----------------------------- MODULE InferenceRpc -----------------------------
(***************************************************************************)
(* Remote calls to the shared inference service over Redis lists.          *)
(*                                                                         *)
(* A caller pushes a request at the head of one list and blocks on a list  *)
(* of its own for the response.  The server takes requests from the head   *)
(* too, so the newest is served first; it gathers several, drops the ones  *)
(* that are too old, decodes their frames into one array, runs one engine  *)
(* call on it and hands every request its slice of the results.            *)
(*                                                                         *)
(* The engine is reduced to what the loop relies on: one result per image, *)
(* in the order of the images; the faces found in a frame are named by the *)
(* frame.  Time is the age of each request and of each wait, in units in   *)
(* which the request timeout is Timeout.                                   *)
(***************************************************************************)
EXTENDS Integers, Sequences, FiniteSets

CONSTANTS
  Callers,       \* camera pipelines and API requests, one call at a time each
  Frames,        \* JPEG frames
  Readable,      \* the frames that decode as images
  Batches,       \* the sequences of frames that a request may carry
  MaxBatch,      \* max_batch_frames
  Timeout,       \* inference_request_timeout_s
  Nums,          \* request numbers; <<caller, number>> is the request's uuid
  MaxInFlight,   \* bound: requests and responses alive at once
  Faults         \* whether the server may die or fail to push a response

ASSUME RpcAssumption ==
  /\ Readable \subseteq Frames
  /\ Batches \subseteq Seq(Frames) \ {<<>>}
  /\ MaxBatch \in Nat \ {0} /\ Timeout \in Nat \ {0}
  /\ MaxInFlight \in Nat /\ Faults \in BOOLEAN

VARIABLES
  call,     \* call[c]: the caller's current or last call
  queue,    \* infer:requests, head first
  mail,     \* the responses waiting in infer:response:<id> lists
  server,   \* what the server does: "pop", "gather", "sift", "decode", "infer", "answer"
  raws,     \* the requests gathered from the queue
  requests, \* the ones of them that are fresh
  images,   \* the decoded frames of the batch
  plan,     \* the slice of images that belongs to each request
  results,  \* what the engine returned, or Failed
  lost      \* history: the requests a fault destroyed in the last step

vars == <<call, queue, mail, server, raws, requests, images, plan, results, lost>>
serverVars == <<server, raws, requests, images, plan, results>>

-----------------------------------------------------------------------------
None == "none"

NoCall == [at |-> "ready", num |-> None, frames |-> <<>>, faces |-> <<>>, age |-> 0]
Failed == <<"failed">>

Waiting(c) == call[c].at = "asked"

Id(req) == <<req.caller, req.num>>
Ids(s)  == {Id(s[i]) : i \in 1 .. Len(s)}

(* The requests somewhere between caller and response.                     *)
InFlight == Ids(queue) \cup Ids(raws) \cup Ids(requests) \cup Ids(plan) \cup {Id(m) : m \in mail}

Error(req)       == [caller |-> req.caller, num |-> req.num, ok |-> FALSE, faces |-> <<>>]
Success(req, fs) == [caller |-> req.caller, num |-> req.num, ok |-> TRUE, faces |-> fs]

Ended(at, faces) ==
  [at |-> at, num |-> None, frames |-> <<>>, faces |-> faces, age |-> 0]

Init ==
  /\ call = [c \in Callers |-> NoCall]
  /\ queue = <<>>
  /\ mail = {}
  /\ server = "pop"
  /\ raws = <<>> /\ requests = <<>> /\ images = <<>> /\ plan = <<>> /\ results = <<>>
  /\ lost = {}

-----------------------------------------------------------------------------
(* Callers: _rpc                                                           *)

(* LPUSH the request and block on the response list.                       *)
Send(c, frames) ==
  /\ ~Waiting(c)
  /\ Cardinality(InFlight) < MaxInFlight
  /\ \E n \in Nums :
       /\ <<c, n>> \notin InFlight
       /\ queue' = <<[caller |-> c, num |-> n, frames |-> frames, age |-> 0]>> \o queue
       /\ call' = [call EXCEPT ![c] =
            [at |-> "asked", num |-> n, frames |-> frames, faces |-> <<>>, age |-> 0]]
  /\ lost' = {}
  /\ UNCHANGED <<mail, serverVars>>

(* BLPOP returns the response: the results, or an InferenceError.          *)
Receive(c) ==
  /\ Waiting(c)
  /\ \E m \in mail :
       /\ Id(m) = <<c, call[c].num>>
       /\ mail' = mail \ {m}
       /\ call' = [call EXCEPT ![c] =
            IF m.ok THEN Ended("answered", m.faces) ELSE Ended("failed", <<>>)]
  /\ lost' = {}
  /\ UNCHANGED <<queue, serverVars>>

(* Mutant: the timeout is rounded down to 0, which blocks for ever.        *)
TimeOutZero(c) == FALSE

(* BLPOP returns nothing, after the timeout; or the connection is lost.    *)
(* The request, and a response to it, stay where they are.                 *)
TimeOut(c) ==
  /\ Waiting(c)
  /\ call[c].age >= Timeout
  /\ \A m \in mail : Id(m) # <<c, call[c].num>>
  /\ call' = [call EXCEPT ![c] = Ended("failed", <<>>)]
  /\ lost' = {}
  /\ UNCHANGED <<queue, mail, serverVars>>

LoseConnection(c) ==
  /\ Waiting(c)
  /\ call' = [call EXCEPT ![c] = Ended("failed", <<>>)]
  /\ lost' = {}
  /\ UNCHANGED <<queue, mail, serverVars>>

(* A response nobody waits for expires.  One that is waited for does not:  *)
(* its time to live is longer than any wait.                               *)
Expire(m) ==
  /\ m \in mail
  /\ ~(Waiting(m.caller) /\ call[m.caller].num = m.num)
  /\ mail' = mail \ {m}
  /\ lost' = {}
  /\ UNCHANGED <<call, queue, serverVars>>

-----------------------------------------------------------------------------
(* The server: run_loop                                                    *)

Pop ==
  /\ server = "pop"
  /\ queue # <<>>
  /\ raws' = <<Head(queue)>>
  /\ queue' = Tail(queue)
  /\ server' = "gather"
  /\ lost' = {}
  /\ UNCHANGED <<call, mail, requests, images, plan, results>>

(* The limit counts requests, whatever the number of their frames.         *)
Gather ==
  /\ server = "gather"
  /\ Len(raws) < MaxBatch
  /\ queue # <<>>
  /\ raws' = Append(raws, Head(queue))
  /\ queue' = Tail(queue)
  /\ lost' = {}
  /\ UNCHANGED <<call, mail, server, requests, images, plan, results>>

Fresh(req) == req.age <= Timeout

(* The batch window has closed, at any moment: the requests are parsed one *)
(* by one and the stale ones dropped.                                      *)
Sift ==
  /\ server \in {"gather", "sift"}
  /\ LET raw == Head(raws)
         req == [caller |-> raw.caller, num |-> raw.num, frames |-> raw.frames]
     IN  requests' = IF Fresh(raw) THEN Append(requests, req) ELSE requests
  /\ raws' = Tail(raws)
  /\ server' = IF raws' # <<>> THEN "sift"
               ELSE IF requests' = <<>> THEN "pop" ELSE "decode"
  /\ lost' = {}
  /\ UNCHANGED <<call, queue, mail, images, plan, results>>

(* Push a response; a failure to push is logged and the response is gone.  *)
Respond(response) ==
  \/ mail' = mail \cup {response} /\ lost' = {}
  \/ Faults /\ lost' = {Id(response)} /\ UNCHANGED mail

(* Mutant: an unreadable frame empties the whole array.                    *)
DecodeClearing ==
  /\ server = "decode"
  /\ LET req  == Head(requests)
         unreadable == \E i \in 1 .. Len(req.frames) : req.frames[i] \notin Readable
         slice == [caller |-> req.caller, num |-> req.num,
                   start |-> Len(images), count |-> Len(req.frames)]
     IN  IF unreadable
           THEN /\ Respond(Error(req))
                /\ images' = <<>>
                /\ UNCHANGED plan
           ELSE /\ images' = images \o req.frames
                /\ plan' = Append(plan, slice)
                /\ UNCHANGED mail /\ lost' = {}
  /\ requests' = Tail(requests)
  /\ server' = IF requests' # <<>> THEN "decode"
               ELSE IF plan' = <<>> THEN "pop" ELSE "infer"
  /\ UNCHANGED <<call, queue, raws, results>>

(* Mutant: a request answered with an error stays in the plan.             *)
DecodeAnyway ==
  /\ server = "decode"
  /\ LET req  == Head(requests)
         unreadable == \E i \in 1 .. Len(req.frames) : req.frames[i] \notin Readable
         slice == [caller |-> req.caller, num |-> req.num,
                   start |-> Len(images), count |-> Len(req.frames)]
     IN  IF unreadable
           THEN /\ Respond(Error(req))
                /\ plan' = Append(plan, slice)
                /\ UNCHANGED images
           ELSE /\ images' = images \o req.frames
                /\ plan' = Append(plan, slice)
                /\ UNCHANGED mail /\ lost' = {}
  /\ requests' = Tail(requests)
  /\ server' = IF requests' # <<>> THEN "decode"
               ELSE IF plan' = <<>> THEN "pop" ELSE "infer"
  /\ UNCHANGED <<call, queue, raws, results>>

(* A request with an unreadable frame is answered with an error and its    *)
(* frames are taken out of the array again; otherwise it gets its slice.   *)
Decode ==
  /\ server = "decode"
  /\ LET req  == Head(requests)
         unreadable == \E i \in 1 .. Len(req.frames) : req.frames[i] \notin Readable
         slice == [caller |-> req.caller, num |-> req.num,
                   start |-> Len(images), count |-> Len(req.frames)]
     IN  IF unreadable
           THEN /\ Respond(Error(req))
                /\ UNCHANGED <<images, plan>>
           ELSE /\ images' = images \o req.frames
                /\ plan' = Append(plan, slice)
                /\ UNCHANGED mail /\ lost' = {}
  /\ requests' = Tail(requests)
  /\ server' = IF requests' # <<>> THEN "decode"
               ELSE IF plan' = <<>> THEN "pop" ELSE "infer"
  /\ UNCHANGED <<call, queue, raws, results>>

(* The engine call succeeds, at once or after the fall-back to the CPU; or *)
(* both attempts fail.                                                     *)
Infer ==
  /\ server = "infer"
  /\ results' \in {images, Failed}
  /\ server' = "answer"
  /\ lost' = {}
  /\ UNCHANGED <<call, queue, mail, raws, requests, images, plan>>

(* results[start : start + count], cut short at the end of the results.    *)
Part(s, start, count) ==
  LET left == Len(s) - start
  IN  [i \in 1 .. (IF count <= left THEN count ELSE left) |-> s[start + i]]

(* Mutant: nobody is told that the engine failed.                          *)
AnswerSuccess ==
  /\ server = "answer"
  /\ LET slice == Head(plan)
     IN  IF results = Failed THEN UNCHANGED mail /\ lost' = {}
         ELSE Respond(Success(slice, Part(results, slice.start, slice.count)))
  /\ plan' = Tail(plan)
  /\ IF plan' = <<>>
       THEN server' = "pop" /\ images' = <<>> /\ results' = <<>>
       ELSE UNCHANGED <<server, images, results>>
  /\ UNCHANGED <<call, queue, raws, requests>>

(* Every request of the plan gets its slice of the results, or the error.  *)
Answer ==
  /\ server = "answer"
  /\ LET slice == Head(plan)
     IN  Respond(IF results = Failed THEN Error(slice)
                 ELSE Success(slice, Part(results, slice.start, slice.count)))
  /\ plan' = Tail(plan)
  /\ IF plan' = <<>>
       THEN server' = "pop" /\ images' = <<>> /\ results' = <<>>
       ELSE UNCHANGED <<server, images, results>>
  /\ UNCHANGED <<call, queue, raws, requests>>

(* The server dies, and what it had taken from the queue with it: killed,  *)
(* or by a Redis error between two pops of one batch.                      *)
Crash ==
  /\ Faults
  /\ server # "pop"
  /\ server' = "pop"
  /\ lost' = Ids(raws) \cup Ids(requests) \cup Ids(plan)
  /\ raws' = <<>> /\ requests' = <<>> /\ images' = <<>> /\ plan' = <<>> /\ results' = <<>>
  /\ UNCHANGED <<call, queue, mail>>

-----------------------------------------------------------------------------
(* Ages stop at the first one that is past the timeout.                    *)
Older(age) == IF age <= Timeout THEN age + 1 ELSE age

AgeAll(s) == [i \in 1 .. Len(s) |-> [s[i] EXCEPT !.age = Older(@)]]

Tick ==
  /\ call' = [c \in Callers |->
                IF Waiting(c) THEN [call[c] EXCEPT !.age = Older(@)] ELSE call[c]]
  /\ queue' = AgeAll(queue)
  /\ raws' = AgeAll(raws)
  /\ lost' = {}
  /\ UNCHANGED <<mail, server, requests, images, plan, results>>

Serve == Pop \/ Gather \/ Sift \/ Decode \/ Infer \/ Answer

Next ==
  \/ \E c \in Callers :
       \/ \E frames \in Batches : Send(c, frames)
       \/ Receive(c) \/ TimeOut(c) \/ LoseConnection(c)
  \/ \E m \in mail : Expire(m)
  \/ Serve \/ Crash \/ Tick

Spec == Init /\ [][Next]_vars

(* The server keeps working, time passes, and a blocked caller returns.    *)
FairSpec ==
  /\ Spec
  /\ WF_vars(Sift) /\ WF_vars(Pop \/ Decode \/ Infer \/ Answer)
  /\ WF_vars(Tick)
  /\ \A c \in Callers : WF_vars(Receive(c) \/ TimeOut(c))

-----------------------------------------------------------------------------
(* Properties                                                              *)

Call == [at : {"ready", "asked", "answered", "failed"}, num : Nums \cup {None},
         frames : Batches \cup {<<>>}, faces : Batches \cup {<<>>}, age : 0 .. (Timeout + 1)]
Raw == [caller : Callers, num : Nums, frames : Batches, age : 0 .. (Timeout + 1)]
Request == [caller : Callers, num : Nums, frames : Batches]
Slice == [caller : Callers, num : Nums, start : Nat, count : Nat]
Response == [caller : Callers, num : Nums, ok : BOOLEAN, faces : Seq(Frames)]

(* Every variable keeps its type; the server gathers no more than MaxBatch *)
(* requests, and sifts, decodes, infers and answers only while it has      *)
(* something to work on.                                                   *)
TypeOK ==
  /\ call \in [Callers -> Call]
  /\ queue \in Seq(Raw) /\ raws \in Seq(Raw) /\ requests \in Seq(Request)
  /\ mail \subseteq Response
  /\ server \in {"pop", "gather", "sift", "decode", "infer", "answer"}
  /\ images \in Seq(Readable) /\ plan \in Seq(Slice)
  /\ Len(raws) <= MaxBatch
  /\ server \in {"gather", "sift"} => raws # <<>>
  /\ server = "decode" => requests # <<>>
  /\ server \in {"infer", "answer"} => plan # <<>>

(* A request is in one place at a time: it is never served twice, and no   *)
(* caller finds two responses.                                             *)
InOnePlace ==
  Cardinality(InFlight) =
    Len(queue) + Len(raws) + Len(requests) + Len(plan) + Cardinality(mail)

View(c) == [at |-> call[c].at, frames |-> call[c].frames, faces |-> call[c].faces]

Remote == INSTANCE RemoteCall WITH call <- [c \in Callers |-> View(c)]

(* Whatever else is in the batch, whatever is dropped, fails to decode,    *)
(* comes late or dies, a call is answered with its own frames' faces.      *)
ImplementsRemoteCall == Remote!Spec

(* A request that was fresh when the batch closed is answered, unless a    *)
(* fault destroys it: only stale requests are dropped without a word.      *)
FreshAnswered ==
  \A c \in Callers, n \in Nums :
    (server = "decode" /\ <<c, n>> \in Ids(requests))
      ~> ((\E m \in mail : Id(m) = <<c, n>>) \/ <<c, n>> \in lost)

(* A caller does not hang: its call ends whatever becomes of the server.   *)
CallsEnd == \A c \in Callers : Waiting(c) ~> ~Waiting(c)

=============================================================================
