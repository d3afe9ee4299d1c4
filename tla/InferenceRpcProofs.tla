------------------------- MODULE InferenceRpcProofs -------------------------
(* Proofs about InferenceRpc, for any number of callers, requests and      *)
(* frames, any batch limit and timeout, with faults and without.           *)
EXTENDS InferenceRpc, SequenceTheorems, FiniteSetTheorems, TLAPS

Distinct(s) == \A i, j \in 1 .. Len(s) : Id(s[i]) = Id(s[j]) => i = j
MailIds == {Id(m) : m \in mail}

(* Every request is in one place, once.                                    *)
Separate ==
  /\ Distinct(queue) /\ Distinct(raws) /\ Distinct(requests) /\ Distinct(plan)
  /\ IsFiniteSet(mail) /\ \A m, o \in mail : Id(m) = Id(o) => m = o
  /\ Ids(queue) \cap Ids(raws) = {} /\ Ids(queue) \cap Ids(requests) = {}
  /\ Ids(queue) \cap Ids(plan) = {} /\ Ids(queue) \cap MailIds = {}
  /\ Ids(raws) \cap Ids(requests) = {} /\ Ids(raws) \cap Ids(plan) = {}
  /\ Ids(raws) \cap MailIds = {}
  /\ Ids(requests) \cap Ids(plan) = {} /\ Ids(requests) \cap MailIds = {}
  /\ Ids(plan) \cap MailIds = {}

(* Of calls cl: caller c waits for the response to id.                     *)
Asks(cl, c, id) == cl[c].at = "asked" /\ id = <<c, cl[c].num>>

(* A request on its way carries what its caller asked, if that one waits;  *)
(* so do its slice of the images and, after that, the response.            *)
Carries(cl, req) == \A c \in Callers : Asks(cl, c, Id(req)) => req.frames = cl[c].frames
Covers(cl, imgs, slice) ==
  /\ slice.start + slice.count <= Len(imgs)
  /\ \A c \in Callers : Asks(cl, c, Id(slice)) =>
       /\ slice.count = Len(cl[c].frames)
       /\ \A k \in 1 .. slice.count : imgs[slice.start + k] = cl[c].frames[k]
Answers(cl, m) ==
  \A c \in Callers : (Asks(cl, c, Id(m)) /\ m.ok) =>
    /\ m.faces = cl[c].frames
    /\ \A k \in 1 .. Len(cl[c].frames) : cl[c].frames[k] \in Readable

OwnFrames ==
  /\ \A i \in 1 .. Len(queue) : Carries(call, queue[i])
  /\ \A i \in 1 .. Len(raws) : Carries(call, raws[i])
  /\ \A i \in 1 .. Len(requests) : Carries(call, requests[i])
  /\ \A i \in 1 .. Len(plan) : Covers(call, images, plan[i])
  /\ \A m \in mail : Answers(call, m)

(* Between the steps of a batch nothing is left of the one before.         *)
Phases ==
  /\ server \in {"pop", "gather", "sift"} => plan = <<>>
  /\ server \in {"pop", "gather", "infer", "answer"} => requests = <<>>
  /\ server \in {"pop", "decode", "infer", "answer"} => raws = <<>>
  /\ server = "answer" => results \in {images, Failed}

RpcInvariant == TypeOK /\ Separate /\ OwnFrames /\ Phases

-----------------------------------------------------------------------------
(* The ids of sequences.                                                   *)
LEMMA EmptyIds == Ids(<<>>) = {} /\ Distinct(<<>>) /\ MailIds = {Id(m) : m \in mail}
BY DEF Ids, Distinct, MailIds

(* Taking the head of a list takes its id.                                 *)
LEMMA TailIds ==
  ASSUME NEW S, NEW s \in Seq(S), s # <<>>
  PROVE  /\ Head(s) = s[1] /\ 1 \in 1 .. Len(s) /\ Head(s) \in S /\ Tail(s) \in Seq(S)
         /\ Len(Tail(s)) = Len(s) - 1
         /\ \A i \in 1 .. Len(Tail(s)) : Tail(s)[i] = s[i + 1] /\ i + 1 \in 1 .. Len(s)
         /\ Id(Head(s)) \in Ids(s) /\ Ids(Tail(s)) \subseteq Ids(s)
         /\ Distinct(s) => Distinct(Tail(s)) /\ Id(Head(s)) \notin Ids(Tail(s))
<1>1. /\ Head(s) \in S /\ Tail(s) \in Seq(S) /\ Len(Tail(s)) = Len(s) - 1
      /\ \A i \in 1 .. Len(Tail(s)) : Tail(s)[i] = s[i + 1]
  BY HeadTailProperties
<1>2. Len(s) \in Nat /\ Len(s) >= 1
  BY EmptySeq, LenProperties
<1>3. Head(s) = s[1]
  OBVIOUS
<1>4. \A i \in 1 .. Len(Tail(s)) : i + 1 \in 1 .. Len(s) /\ i + 1 # 1
  BY <1>1, <1>2
<1>5. Id(Head(s)) \in Ids(s)
  BY <1>2, <1>3 DEF Ids
<1>6. Ids(Tail(s)) \subseteq Ids(s)
  BY <1>1, <1>4 DEF Ids
<1>7. ASSUME Distinct(s) PROVE Distinct(Tail(s))
  <2> SUFFICES ASSUME NEW i \in 1 .. Len(Tail(s)), NEW j \in 1 .. Len(Tail(s)),
                      Id(Tail(s)[i]) = Id(Tail(s)[j])
               PROVE  i = j
    BY DEF Distinct
  <2>1. i + 1 = j + 1
    BY <1>1, <1>4, <1>7 DEF Distinct
  <2> QED
    BY <2>1, <1>1, <1>2
<1>8. ASSUME Distinct(s), Id(Head(s)) \in Ids(Tail(s)) PROVE FALSE
  <2>1. PICK i \in 1 .. Len(Tail(s)) : Id(Tail(s)[i]) = Id(Head(s))
    BY <1>8 DEF Ids
  <2>2. Id(s[i + 1]) = Id(s[1])
    BY <2>1, <1>1, <1>3
  <2> QED
    BY <2>2, <1>2, <1>4, <1>8 DEF Distinct
<1> QED
  BY <1>1, <1>2, <1>3, <1>4, <1>5, <1>6, <1>7, <1>8

(* Adding to the end of a list adds an id.                                 *)
LEMMA AppendIds ==
  ASSUME NEW S, NEW s \in Seq(S), NEW e \in S
  PROVE  /\ Append(s, e) \in Seq(S) /\ Append(s, e) # <<>> /\ Len(Append(s, e)) = Len(s) + 1
         /\ \A i \in 1 .. Len(Append(s, e)) :
              (i \in 1 .. Len(s) /\ Append(s, e)[i] = s[i]) \/ (i = Len(s) + 1 /\ Append(s, e)[i] = e)
         /\ Ids(Append(s, e)) = Ids(s) \cup {Id(e)}
         /\ Distinct(s) /\ Id(e) \notin Ids(s) => Distinct(Append(s, e))
<1>1. /\ Append(s, e) \in Seq(S) /\ Append(s, e) # <<>> /\ Len(Append(s, e)) = Len(s) + 1
      /\ \A i \in 1 .. Len(s) : Append(s, e)[i] = s[i]
      /\ Append(s, e)[Len(s) + 1] = e
  BY AppendProperties
<1>2. Len(s) \in Nat
  BY LenProperties
<1>3. \A i : i \in 1 .. (Len(s) + 1) <=> (i \in 1 .. Len(s) \/ i = Len(s) + 1)
  BY <1>2
<1> DEFINE a == Append(s, e)
<1> HIDE DEF a
<1>4. \A i \in 1 .. Len(a) : (i \in 1 .. Len(s) /\ a[i] = s[i]) \/ (i = Len(s) + 1 /\ a[i] = e)
  BY <1>1, <1>3 DEF a
<1>5. Ids(a) = Ids(s) \cup {Id(e)}
  <2>1. ASSUME NEW x \in Ids(a) PROVE x \in Ids(s) \cup {Id(e)}
    <3>1. PICK i \in 1 .. Len(a) : x = Id(a[i])
      BY DEF Ids
    <3> QED
      BY <3>1, <1>4 DEF Ids
  <2>2. ASSUME NEW x \in Ids(s) PROVE x \in Ids(a)
    <3>1. PICK i \in 1 .. Len(s) : x = Id(s[i])
      BY DEF Ids
    <3>2. i \in 1 .. Len(a) /\ a[i] = s[i]
      BY <1>1, <1>3 DEF a
    <3> QED
      BY <3>1, <3>2 DEF Ids
  <2>3. Id(e) \in Ids(a)
    <3>1. Len(s) + 1 \in 1 .. Len(a) /\ a[Len(s) + 1] = e
      BY <1>1, <1>2, <1>3 DEF a
    <3> QED
      BY <3>1 DEF Ids
  <2> QED
    BY <2>1, <2>2, <2>3
<1>6. ASSUME Distinct(s), Id(e) \notin Ids(s) PROVE Distinct(a)
  <2> SUFFICES ASSUME NEW i \in 1 .. Len(a), NEW j \in 1 .. Len(a), Id(a[i]) = Id(a[j])
               PROVE  i = j
    BY DEF Distinct
  <2>1. \A k \in 1 .. Len(s) : Id(s[k]) # Id(e)
    BY <1>6 DEF Ids
  <2> QED
    BY <2>1, <1>4, <1>6 DEF Distinct
<1> QED
  BY <1>1, <1>4, <1>5, <1>6 DEF a

(* So does adding to its front.                                            *)
LEMMA PrependIds ==
  ASSUME NEW S, NEW s \in Seq(S), NEW e \in S
  PROVE  /\ <<e>> \o s \in Seq(S)
         /\ \A i \in 1 .. Len(<<e>> \o s) :
              (i = 1 /\ (<<e>> \o s)[i] = e) \/ (i - 1 \in 1 .. Len(s) /\ (<<e>> \o s)[i] = s[i - 1])
         /\ Ids(<<e>> \o s) = Ids(s) \cup {Id(e)}
         /\ Distinct(s) /\ Id(e) \notin Ids(s) => Distinct(<<e>> \o s)
<1> DEFINE a == <<e>> \o s
<1>1. <<e>> \in Seq(S) /\ Len(<<e>>) = 1 /\ <<e>>[1] = e
  OBVIOUS
<1>2. Len(s) \in Nat
  BY LenProperties
<1>3. a \in Seq(S) /\ Len(a) = Len(s) + 1
  BY <1>1, <1>2, ConcatProperties
<1>4. \A i \in 1 .. Len(a) : a[i] = IF i <= 1 THEN <<e>>[i] ELSE s[i - 1]
  BY <1>1, <1>2, ConcatProperties
<1>5. \A i \in 1 .. Len(a) : i = 1 \/ (i - 1 \in 1 .. Len(s) /\ ~(i <= 1))
  BY <1>2, <1>3
<1>6. \A i \in 1 .. Len(a) : (i = 1 /\ a[i] = e) \/ (i - 1 \in 1 .. Len(s) /\ a[i] = s[i - 1])
  BY <1>1, <1>4, <1>5
<1>7. \A k \in 1 .. Len(s) : k + 1 \in 1 .. Len(a) /\ a[k + 1] = s[k]
  BY <1>2, <1>3, <1>4
<1>8. 1 \in 1 .. Len(a) /\ a[1] = e
  BY <1>1, <1>2, <1>3, <1>4
<1> HIDE DEF a
<1>9. Ids(a) = Ids(s) \cup {Id(e)}
  <2>1. ASSUME NEW x \in Ids(a) PROVE x \in Ids(s) \cup {Id(e)}
    <3>1. PICK i \in 1 .. Len(a) : x = Id(a[i])
      BY DEF Ids
    <3> QED
      BY <3>1, <1>6 DEF Ids
  <2>2. ASSUME NEW x \in Ids(s) PROVE x \in Ids(a)
    <3>1. PICK k \in 1 .. Len(s) : x = Id(s[k])
      BY DEF Ids
    <3> QED
      BY <3>1, <1>7 DEF Ids
  <2> QED
    BY <2>1, <2>2, <1>8 DEF Ids
<1>10. ASSUME Distinct(s), Id(e) \notin Ids(s) PROVE Distinct(a)
  <2> SUFFICES ASSUME NEW i \in 1 .. Len(a), NEW j \in 1 .. Len(a), Id(a[i]) = Id(a[j])
               PROVE  i = j
    BY DEF Distinct
  <2>1. \A k \in 1 .. Len(s) : Id(s[k]) # Id(e)
    BY <1>10 DEF Ids
  <2>2. CASE i = 1 \/ j = 1
    BY <2>1, <2>2, <1>6
  <2>3. CASE i # 1 /\ j # 1
    <3>1. i - 1 = j - 1
      BY <2>3, <1>6, <1>10 DEF Distinct
    <3> QED
      BY <3>1
  <2> QED
    BY <2>2, <2>3
<1> QED
  BY <1>3, <1>6, <1>9, <1>10 DEF a

(* A list without repetitions has as many ids as elements.                 *)
LEMMA CountIds ==
  ASSUME NEW S, NEW s \in Seq(S), Distinct(s)
  PROVE  IsFiniteSet(Ids(s)) /\ Cardinality(Ids(s)) = Len(s)
<1> DEFINE f == [i \in 1 .. Len(s) |-> Id(s[i])]
<1>1. Len(s) \in Nat
  BY LenProperties
<1>2. IsFiniteSet(1 .. Len(s)) /\ Cardinality(1 .. Len(s)) = Len(s)
  BY <1>1, FS_Interval
<1>3. f \in Bijection(1 .. Len(s), Ids(s))
  <2>1. f \in [1 .. Len(s) -> Ids(s)]
    BY DEF Ids
  <2>2. \A i, j \in 1 .. Len(s) : f[i] = f[j] => i = j
    BY DEF Distinct
  <2>3. \A x \in Ids(s) : \E i \in 1 .. Len(s) : f[i] = x
    BY DEF Ids
  <2> HIDE DEF f
  <2> QED
    BY <2>1, <2>2, <2>3 DEF Bijection, Injection, Surjection, IsInjective
<1>4. ExistsBijection(1 .. Len(s), Ids(s))
  BY <1>3 DEF ExistsBijection
<1> QED
  BY <1>2, <1>4, FS_Bijection

-----------------------------------------------------------------------------
(* The invariant holds at first.                                           *)
LEMMA RpcInit == Init => RpcInvariant
<1> SUFFICES ASSUME Init PROVE RpcInvariant
  OBVIOUS
<1> USE DEF Init
<1>1. \A S : <<>> \in Seq(S)
  OBVIOUS
<1>2. TypeOK
  <2>1. NoCall \in Call
    BY RpcAssumption DEF NoCall, Call
  <2>2. Len(raws) = 0
    OBVIOUS
  <2> QED
    BY <1>1, <2>1, <2>2, RpcAssumption DEF TypeOK
<1>3. MailIds = {} /\ IsFiniteSet(mail)
  BY FS_EmptySet DEF MailIds
<1>4. Separate
  BY <1>3, EmptyIds DEF Separate
<1>5. OwnFrames
  BY DEF OwnFrames
<1>6. Phases
  BY DEF Phases
<1> QED
  BY <1>2, <1>4, <1>5, <1>6 DEF RpcInvariant

(* Whoever waits for the id after the step waited for it before.           *)
Undisturbed(id) ==
  \A c \in Callers : Asks(call', c, id) => Asks(call, c, id) /\ call'[c].frames = call[c].frames

(* What is on its way stays right while its caller is not disturbed.       *)
LEMMA StillCarries ==
  ASSUME NEW e, Carries(call, e), Undisturbed(Id(e))
  PROVE  Carries(call', e)
BY DEF Carries, Undisturbed

(* So do the responses ...                                                 *)
LEMMA StillAnswers ==
  ASSUME NEW m, Answers(call, m), Undisturbed(Id(m))
  PROVE  Answers(call', m)
BY DEF Answers, Undisturbed

(* ... and the slices, while the images stay.                              *)
LEMMA StillCovers ==
  ASSUME NEW e, Covers(call, images, e), Undisturbed(Id(e))
  PROVE  Covers(call', images, e)
BY DEF Covers, Undisturbed

(* The ids that are in flight.                                             *)
LEMMA InFlightIds ==
  /\ \A i \in 1 .. Len(queue) : Id(queue[i]) \in InFlight
  /\ \A i \in 1 .. Len(raws) : Id(raws[i]) \in InFlight
  /\ \A i \in 1 .. Len(requests) : Id(requests[i]) \in InFlight
  /\ \A i \in 1 .. Len(plan) : Id(plan[i]) \in InFlight
  /\ \A m \in mail : Id(m) \in InFlight
  /\ InFlight = Ids(queue) \cup Ids(raws) \cup Ids(requests) \cup Ids(plan) \cup MailIds
BY DEF InFlight, Ids, MailIds

(* A step of the server leaves the callers alone.                          *)
LEMMA CallersLeftAlone == call' = call => \A id : Undisturbed(id)
BY DEF Undisturbed

(* A caller sends a request under an id that is nowhere in use.            *)
LEMMA SendKeeps ==
  ASSUME RpcInvariant, NEW c \in Callers, NEW frames \in Batches, Send(c, frames)
  PROVE  RpcInvariant'
<1> USE DEF RpcInvariant
<1>1. PICK n \in Nums :
        /\ <<c, n>> \notin InFlight
        /\ queue' = <<[caller |-> c, num |-> n, frames |-> frames, age |-> 0]>> \o queue
        /\ call' = [call EXCEPT ![c] =
             [at |-> "asked", num |-> n, frames |-> frames, faces |-> <<>>, age |-> 0]]
  BY DEF Send
<1> DEFINE e == [caller |-> c, num |-> n, frames |-> frames, age |-> 0]
           w == [at |-> "asked", num |-> n, frames |-> frames, faces |-> <<>>, age |-> 0]
<1>2. e \in Raw /\ Id(e) = <<c, n>> /\ e.frames = frames
  BY RpcAssumption DEF Raw, Id
<1>3. w \in Call /\ w.num = n /\ w.frames = frames
  BY RpcAssumption DEF Call
<1>4. call \in [Callers -> Call] /\ queue \in Seq(Raw) /\ queue' = <<e>> \o queue
  BY <1>1 DEF TypeOK
<1>5. call'[c] = w /\ \A d \in Callers \ {c} : call'[d] = call[d]
  BY <1>1, <1>4
<1>6. UNCHANGED <<mail, server, raws, requests, images, plan, results>>
  BY DEF Send, serverVars
<1> HIDE DEF e, w
<1>7. \A id \in InFlight : Undisturbed(id)
  BY <1>1, <1>3, <1>5 DEF Undisturbed, Asks
<1>8. /\ queue' \in Seq(Raw)
      /\ \A i \in 1 .. Len(queue') :
           (i = 1 /\ queue'[i] = e) \/ (i - 1 \in 1 .. Len(queue) /\ queue'[i] = queue[i - 1])
      /\ Ids(queue') = Ids(queue) \cup {<<c, n>>}
      /\ Distinct(queue) /\ <<c, n>> \notin Ids(queue) => Distinct(queue')
  <2> DEFINE q == <<e>> \o queue
  <2>1. /\ q \in Seq(Raw)
        /\ \A i \in 1 .. Len(q) :
             (i = 1 /\ q[i] = e) \/ (i - 1 \in 1 .. Len(queue) /\ q[i] = queue[i - 1])
        /\ Ids(q) = Ids(queue) \cup {Id(e)}
        /\ Distinct(queue) /\ Id(e) \notin Ids(queue) => Distinct(q)
    BY <1>2, <1>4, PrependIds
  <2>2. q = queue'
    BY <1>4
  <2> HIDE DEF q
  <2> QED
    BY <2>1, <2>2, <1>2
<1>9. TypeOK'
  <2>1. call' \in [Callers -> Call]
    BY <1>1, <1>3, <1>4 DEF w
  <2> QED
    BY <2>1, <1>6, <1>8 DEF TypeOK
<1>10. Separate'
  <2>1. MailIds' = MailIds
    BY <1>6 DEF MailIds
  <2>2. /\ <<c, n>> \notin Ids(queue) /\ <<c, n>> \notin Ids(raws) /\ <<c, n>> \notin Ids(requests)
        /\ <<c, n>> \notin Ids(plan) /\ <<c, n>> \notin MailIds
    BY <1>1, InFlightIds
  <2> QED
    BY <1>6, <1>8, <2>1, <2>2 DEF Separate
<1>11. OwnFrames'
  <2>1. Carries(call', e)
    BY <1>2, <1>3, <1>5 DEF Carries, Asks
  <2>2. \A i \in 1 .. Len(queue) : Carries(call', queue[i])
    BY <1>7, InFlightIds, StillCarries DEF OwnFrames
  <2>3. \A i \in 1 .. Len(queue') : Carries(call', queue'[i])
    BY <1>8, <2>1, <2>2
  <2>4. /\ \A i \in 1 .. Len(raws) : Carries(call', raws[i])
        /\ \A i \in 1 .. Len(requests) : Carries(call', requests[i])
    BY <1>7, InFlightIds, StillCarries DEF OwnFrames
  <2>5. \A i \in 1 .. Len(plan) : Covers(call', images, plan[i])
    BY <1>7, InFlightIds, StillCovers DEF OwnFrames
  <2>6. \A m \in mail : Answers(call', m)
    BY <1>7, InFlightIds, StillAnswers DEF OwnFrames
  <2> QED
    BY <1>6, <2>3, <2>4, <2>5, <2>6 DEF OwnFrames
<1>12. Phases'
  BY <1>6 DEF Phases
<1> QED
  BY <1>9, <1>10, <1>11, <1>12

(* A call ends, or a response leaves.                                      *)
LEMMA CallerStep ==
  ASSUME RpcInvariant, call' \in [Callers -> Call], \A id : Undisturbed(id), mail' \subseteq mail,
         UNCHANGED <<queue, serverVars>>
  PROVE  RpcInvariant'
<1> USE DEF RpcInvariant
<1>1. UNCHANGED <<queue, server, raws, requests, images, plan, results>>
  BY DEF serverVars
<1>2. TypeOK'
  BY <1>1 DEF TypeOK
<1>3. Separate'
  <2>1. MailIds' \subseteq MailIds
    BY DEF MailIds
  <2>2. IsFiniteSet(mail')
    BY FS_Subset DEF Separate
  <2> QED
    BY <1>1, <2>1, <2>2 DEF Separate
<1>4. OwnFrames'
  <2>1. /\ \A i \in 1 .. Len(queue) : Carries(call', queue[i])
        /\ \A i \in 1 .. Len(raws) : Carries(call', raws[i])
        /\ \A i \in 1 .. Len(requests) : Carries(call', requests[i])
    BY StillCarries DEF OwnFrames
  <2>2. \A i \in 1 .. Len(plan) : Covers(call', images, plan[i])
    BY StillCovers DEF OwnFrames
  <2>3. \A m \in mail : Answers(call', m)
    BY StillAnswers DEF OwnFrames
  <2> QED
    BY <1>1, <2>1, <2>2, <2>3 DEF OwnFrames
<1>5. Phases'
  BY <1>1 DEF Phases
<1> QED
  BY <1>2, <1>3, <1>4, <1>5

(* A call that ended waits for nothing.                                    *)
LEMMA EndedCall ==
  ASSUME RpcInvariant, NEW c \in Callers, NEW at \in {"answered", "failed"},
         NEW faces \in Batches \cup {<<>>}, call' = [call EXCEPT ![c] = Ended(at, faces)]
  PROVE  call' \in [Callers -> Call] /\ \A id : Undisturbed(id)
<1>1. Ended(at, faces) \in Call /\ Ended(at, faces).at # "asked"
  BY RpcAssumption DEF Ended, Call
<1>2. call \in [Callers -> Call]
  BY DEF RpcInvariant, TypeOK
<1>3. call'[c] = Ended(at, faces) /\ \A d \in Callers \ {c} : call'[d] = call[d]
  BY <1>2
<1> QED
  BY <1>1, <1>2, <1>3 DEF Undisturbed, Asks

(* What a response that is received brings.                                *)
LEMMA ReceivedFaces ==
  ASSUME RpcInvariant, NEW c \in Callers, NEW m \in mail, Waiting(c), Id(m) = <<c, call[c].num>>, m.ok
  PROVE  /\ m.faces = call[c].frames /\ m.faces \in Batches \cup {<<>>}
         /\ \A k \in 1 .. Len(call[c].frames) : call[c].frames[k] \in Readable
<1>1. Answers(call, m) /\ Asks(call, c, Id(m))
  BY DEF RpcInvariant, OwnFrames, Asks, Waiting
<1>2. call[c].frames \in Batches \cup {<<>>}
  BY DEF RpcInvariant, TypeOK, Call
<1> QED
  BY <1>1, <1>2 DEF Answers

(* The other steps of the callers, and the expiry of responses.            *)
LEMMA CallersKeep ==
  ASSUME RpcInvariant,
         \/ \E c \in Callers : Receive(c) \/ TimeOut(c) \/ LoseConnection(c)
         \/ \E m \in mail : Expire(m)
  PROVE  RpcInvariant'
<1>1. ASSUME NEW c \in Callers, Receive(c) PROVE RpcInvariant'
  <2>1. PICK m \in mail :
          /\ Id(m) = <<c, call[c].num>> /\ mail' = mail \ {m}
          /\ call' = [call EXCEPT ![c] = IF m.ok THEN Ended("answered", m.faces) ELSE Ended("failed", <<>>)]
    BY <1>1 DEF Receive
  <2>2. CASE m.ok
    BY <1>1, <2>1, <2>2, ReceivedFaces, EndedCall, CallerStep DEF Receive
  <2>3. CASE ~m.ok
    BY <1>1, <2>1, <2>3, EndedCall, CallerStep DEF Receive
  <2> QED
    BY <2>2, <2>3
<1>2. ASSUME NEW c \in Callers, TimeOut(c) \/ LoseConnection(c) PROVE RpcInvariant'
  <2>1. call' = [call EXCEPT ![c] = Ended("failed", <<>>)] /\ mail' = mail /\ UNCHANGED <<queue, serverVars>>
    BY <1>2 DEF TimeOut, LoseConnection
  <2> QED
    BY <2>1, EndedCall, CallerStep
<1>3. ASSUME NEW m \in mail, Expire(m) PROVE RpcInvariant'
  <2>1. call' \in [Callers -> Call]
    BY <1>3 DEF Expire, RpcInvariant, TypeOK
  <2> QED
    BY <1>3, <2>1, CallersLeftAlone, CallerStep DEF Expire
<1> QED
  BY <1>1, <1>2, <1>3

(* Nothing of what matters grows older.                                    *)
LEMMA AgedList ==
  ASSUME NEW s \in Seq(Raw)
  PROVE  /\ AgeAll(s) \in Seq(Raw) /\ Len(AgeAll(s)) = Len(s)
         /\ \A i \in 1 .. Len(s) : Id(AgeAll(s)[i]) = Id(s[i]) /\ AgeAll(s)[i].frames = s[i].frames
         /\ Ids(AgeAll(s)) = Ids(s) /\ (Distinct(s) => Distinct(AgeAll(s)))
<1>1. Len(s) \in Nat /\ \A i \in 1 .. Len(s) : s[i] \in Raw
  BY LenProperties, ElementOfSeq
<1>2. ASSUME NEW r \in Raw
      PROVE  /\ [r EXCEPT !.age = Older(@)] \in Raw
             /\ Id([r EXCEPT !.age = Older(@)]) = Id(r) /\ [r EXCEPT !.age = Older(@)].frames = r.frames
  <2>1. r.age \in 0 .. (Timeout + 1) /\ Timeout \in Nat
    BY RpcAssumption DEF Raw
  <2>2. Older(r.age) \in 0 .. (Timeout + 1)
    BY <2>1 DEF Older
  <2> QED
    BY <2>2 DEF Raw, Id
<1> DEFINE a == AgeAll(s)
<1>3. /\ a \in Seq(Raw) /\ Len(a) = Len(s)
      /\ \A i \in 1 .. Len(s) : a[i] = [s[i] EXCEPT !.age = Older(@)]
  BY <1>1, <1>2 DEF AgeAll
<1> HIDE DEF a
<1>4. \A i \in 1 .. Len(s) : Id(a[i]) = Id(s[i]) /\ a[i].frames = s[i].frames
  BY <1>1, <1>2, <1>3
<1>5. Ids(a) = Ids(s) /\ (Distinct(s) => Distinct(a))
  BY <1>3, <1>4 DEF Ids, Distinct
<1> QED
  BY <1>3, <1>4, <1>5 DEF a

(* Time passes.                                                            *)
LEMMA TickKeeps ==
  ASSUME RpcInvariant, Tick
  PROVE  RpcInvariant'
<1> USE DEF RpcInvariant
<1>1. /\ queue \in Seq(Raw) /\ raws \in Seq(Raw) /\ call \in [Callers -> Call]
  BY DEF TypeOK
<1>2. /\ queue' = AgeAll(queue) /\ raws' = AgeAll(raws)
      /\ UNCHANGED <<mail, server, requests, images, plan, results>>
  BY DEF Tick
<1>3. \A c \in Callers : call'[c] = IF Waiting(c) THEN [call[c] EXCEPT !.age = Older(@)] ELSE call[c]
  BY DEF Tick
<1>4. ASSUME NEW r \in Call
      PROVE  /\ [r EXCEPT !.age = Older(@)] \in Call
             /\ [r EXCEPT !.age = Older(@)].at = r.at /\ [r EXCEPT !.age = Older(@)].num = r.num
             /\ [r EXCEPT !.age = Older(@)].frames = r.frames /\ [r EXCEPT !.age = Older(@)].faces = r.faces
  <2>1. r.age \in 0 .. (Timeout + 1) /\ Timeout \in Nat
    BY RpcAssumption DEF Call
  <2>2. Older(r.age) \in 0 .. (Timeout + 1)
    BY <2>1 DEF Older
  <2> QED
    BY <2>2 DEF Call
<1>5. /\ call' \in [Callers -> Call]
      /\ \A c \in Callers : /\ call'[c].at = call[c].at /\ call'[c].num = call[c].num
                            /\ call'[c].frames = call[c].frames /\ call'[c].faces = call[c].faces
  <2>1. DOMAIN call' = Callers /\ call' = [c \in Callers |-> call'[c]]
    BY DEF Tick
  <2>2. ASSUME NEW c \in Callers
        PROVE  /\ call'[c] \in Call
               /\ call'[c].at = call[c].at /\ call'[c].num = call[c].num
               /\ call'[c].frames = call[c].frames /\ call'[c].faces = call[c].faces
    <3>1. call[c] \in Call
      BY <1>1
    <3>2. CASE Waiting(c)
      <4>1. call'[c] = [call[c] EXCEPT !.age = Older(@)]
        BY <1>3, <3>2
      <4> QED
        BY <1>4, <3>1, <4>1
    <3>3. CASE ~Waiting(c)
      BY <1>3, <3>1, <3>3
    <3> QED
      BY <3>2, <3>3
  <2> QED
    BY <2>1, <2>2
<1>6. \A id : Undisturbed(id)
  BY <1>5 DEF Undisturbed, Asks
<1>7. TypeOK'
  <2>1. /\ queue' \in Seq(Raw) /\ raws' \in Seq(Raw) /\ Len(raws') = Len(raws)
    BY <1>1, <1>2, AgedList
  <2>2. raws # <<>> => raws' # <<>>
    BY <1>1, <2>1, EmptySeq
  <2> QED
    BY <1>2, <1>5, <2>1, <2>2 DEF TypeOK
<1>8. Separate'
  <2>1. /\ Ids(queue') = Ids(queue) /\ Ids(raws') = Ids(raws)
        /\ Distinct(queue) => Distinct(queue')
        /\ Distinct(raws) => Distinct(raws')
    BY <1>1, <1>2, AgedList
  <2>2. MailIds' = MailIds
    BY <1>2 DEF MailIds
  <2> QED
    BY <1>2, <2>1, <2>2 DEF Separate
<1>9. OwnFrames'
  <2>1. /\ Len(queue') = Len(queue)
        /\ \A i \in 1 .. Len(queue) : Id(queue'[i]) = Id(queue[i]) /\ queue'[i].frames = queue[i].frames
        /\ Len(raws') = Len(raws)
        /\ \A i \in 1 .. Len(raws) : Id(raws'[i]) = Id(raws[i]) /\ raws'[i].frames = raws[i].frames
    BY <1>1, <1>2, AgedList
  <2>2. /\ \A i \in 1 .. Len(queue) : Carries(call', queue[i])
        /\ \A i \in 1 .. Len(raws) : Carries(call', raws[i])
        /\ \A i \in 1 .. Len(requests) : Carries(call', requests[i])
    BY <1>6, StillCarries DEF OwnFrames
  <2>3. /\ \A i \in 1 .. Len(queue') : Carries(call', queue'[i])
        /\ \A i \in 1 .. Len(raws') : Carries(call', raws'[i])
    <3>1. \A e, o : (Carries(call', o) /\ Id(e) = Id(o) /\ e.frames = o.frames) => Carries(call', e)
      BY DEF Carries
    <3> QED
      BY <2>1, <2>2, <3>1
  <2>4. \A i \in 1 .. Len(plan) : Covers(call', images, plan[i])
    BY <1>6, StillCovers DEF OwnFrames
  <2>5. \A m \in mail : Answers(call', m)
    BY <1>6, StillAnswers DEF OwnFrames
  <2> QED
    BY <1>2, <2>2, <2>3, <2>4, <2>5 DEF OwnFrames
<1>10. Phases'
  <2>1. raws = <<>> => raws' = <<>>
    BY <1>2, <1>1, AgedList, EmptySeq
  <2> QED
    BY <1>2, <2>1 DEF Phases
<1> QED
  BY <1>7, <1>8, <1>9, <1>10

-----------------------------------------------------------------------------
(* Steps of the server.                                                    *)

(* What is true of all lists of requests is true of their tails ...        *)
LEMMA TailCarries ==
  ASSUME NEW S, NEW s \in Seq(S), s # <<>>, \A i \in 1 .. Len(s) : Carries(call, s[i])
  PROVE  Carries(call, Head(s)) /\ \A i \in 1 .. Len(Tail(s)) : Carries(call, Tail(s)[i])
BY TailIds

(* ... and of them with one more.                                          *)
LEMMA AppendCarries ==
  ASSUME NEW S, NEW s \in Seq(S), NEW e \in S, \A i \in 1 .. Len(s) : Carries(call, s[i]), Carries(call, e)
  PROVE  \A i \in 1 .. Len(Append(s, e)) : Carries(call, Append(s, e)[i])
BY AppendIds

(* The server takes the request at the head of the queue.                  *)
LEMMA PopKeeps ==
  ASSUME RpcInvariant, Pop
  PROVE  RpcInvariant'
<1> USE DEF RpcInvariant
<1>1. queue \in Seq(Raw) /\ queue # <<>> /\ server = "pop"
  BY DEF Pop, TypeOK
<1>2. /\ raws' = <<Head(queue)>> /\ queue' = Tail(queue) /\ server' = "gather"
      /\ UNCHANGED <<call, mail, requests, images, plan, results>>
  BY DEF Pop
<1>3. raws = <<>> /\ requests = <<>> /\ plan = <<>>
  BY <1>1 DEF Phases
<1>4. /\ Head(queue) \in Raw /\ queue' \in Seq(Raw)
      /\ Id(Head(queue)) \in Ids(queue) /\ Ids(queue') \subseteq Ids(queue)
      /\ Distinct(queue) => Distinct(queue') /\ Id(Head(queue)) \notin Ids(queue')
  BY <1>1, <1>2, TailIds
<1>5. Len(raws') = 1 /\ raws'[1] = Head(queue) /\ raws' \in Seq(Raw) /\ raws' # <<>>
  BY <1>2, <1>4
<1>6. Ids(raws') = {Id(Head(queue))} /\ Distinct(raws')
  BY <1>5 DEF Ids, Distinct
<1>7. TypeOK'
  BY <1>2, <1>4, <1>5, RpcAssumption DEF TypeOK
<1>8. Separate'
  <2>1. MailIds' = MailIds
    BY <1>2 DEF MailIds
  <2> QED
    BY <1>2, <1>4, <1>6, <2>1 DEF Separate
<1>9. OwnFrames'
  <2>1. /\ Carries(call, Head(queue))
        /\ \A i \in 1 .. Len(queue') : Carries(call, queue'[i])
    BY <1>1, <1>2, TailCarries DEF OwnFrames
  <2> QED
    BY <1>2, <1>5, <2>1 DEF OwnFrames
<1>10. Phases'
  BY <1>2, <1>3 DEF Phases
<1> QED
  BY <1>7, <1>8, <1>9, <1>10

(* The server gathers one more.                                            *)
LEMMA GatherKeeps ==
  ASSUME RpcInvariant, Gather
  PROVE  RpcInvariant'
<1> USE DEF RpcInvariant
<1>1. queue \in Seq(Raw) /\ queue # <<>> /\ raws \in Seq(Raw) /\ server = "gather" /\ Len(raws) < MaxBatch
  BY DEF Gather, TypeOK
<1>2. /\ raws' = Append(raws, Head(queue)) /\ queue' = Tail(queue)
      /\ UNCHANGED <<call, mail, server, requests, images, plan, results>>
  BY DEF Gather
<1>3. /\ Head(queue) \in Raw /\ queue' \in Seq(Raw)
      /\ Id(Head(queue)) \in Ids(queue) /\ Ids(queue') \subseteq Ids(queue)
      /\ Distinct(queue) => Distinct(queue') /\ Id(Head(queue)) \notin Ids(queue')
  BY <1>1, <1>2, TailIds
<1>4. /\ raws' \in Seq(Raw) /\ raws' # <<>> /\ Len(raws') = Len(raws) + 1
      /\ Ids(raws') = Ids(raws) \cup {Id(Head(queue))}
      /\ Distinct(raws) /\ Id(Head(queue)) \notin Ids(raws) => Distinct(raws')
  BY <1>1, <1>2, <1>3, AppendIds
<1>5. TypeOK'
  <2>1. Len(raws') <= MaxBatch
    BY <1>1, <1>4, LenProperties, RpcAssumption
  <2> QED
    BY <1>1, <1>2, <1>3, <1>4, <2>1 DEF TypeOK
<1>6. Separate'
  <2>1. MailIds' = MailIds
    BY <1>2 DEF MailIds
  <2> QED
    BY <1>2, <1>3, <1>4, <2>1 DEF Separate
<1>7. OwnFrames'
  <2>1. Carries(call, Head(queue)) /\ \A i \in 1 .. Len(queue') : Carries(call, queue'[i])
    BY <1>1, <1>2, TailCarries DEF OwnFrames
  <2>2. \A i \in 1 .. Len(raws') : Carries(call, raws'[i])
    BY <1>1, <1>2, <1>3, <2>1, AppendCarries DEF OwnFrames
  <2> QED
    BY <1>2, <2>1, <2>2 DEF OwnFrames
<1>8. Phases'
  BY <1>1, <1>2 DEF Phases
<1> QED
  BY <1>5, <1>6, <1>7, <1>8

(* A gathered request is parsed, or dropped because it is stale.           *)
LEMMA SiftKeeps ==
  ASSUME RpcInvariant, Sift
  PROVE  RpcInvariant'
<1> USE DEF RpcInvariant
<1>1. /\ raws \in Seq(Raw) /\ raws # <<>> /\ requests \in Seq(Request)
      /\ server \in {"gather", "sift"} /\ plan = <<>> /\ Len(raws) <= MaxBatch
  BY DEF Sift, TypeOK, Phases
<1> DEFINE raw == Head(raws)
           req == [caller |-> raw.caller, num |-> raw.num, frames |-> raw.frames]
<1>2. /\ requests' = (IF Fresh(raw) THEN Append(requests, req) ELSE requests) /\ raws' = Tail(raws)
      /\ server' = (IF raws' # <<>> THEN "sift" ELSE IF requests' = <<>> THEN "pop" ELSE "decode")
      /\ UNCHANGED <<call, queue, mail, images, plan, results>>
  BY DEF Sift
<1>3. /\ raw \in Raw /\ raws' \in Seq(Raw) /\ Len(raws') = Len(raws) - 1
      /\ Id(raw) \in Ids(raws) /\ Ids(raws') \subseteq Ids(raws)
      /\ Distinct(raws) => Distinct(raws') /\ Id(raw) \notin Ids(raws')
  BY <1>1, <1>2, TailIds
<1>4. req \in Request /\ Id(req) = Id(raw) /\ req.frames = raw.frames
  BY <1>3 DEF Raw, Request, Id
<1> HIDE DEF raw, req
<1>5. /\ requests' \in Seq(Request) /\ Ids(requests') \subseteq Ids(requests) \cup {Id(raw)}
      /\ Distinct(requests) /\ Id(raw) \notin Ids(requests) => Distinct(requests')
  BY <1>1, <1>2, <1>4, AppendIds
<1>6. TypeOK'
  <2>1. Len(raws') <= MaxBatch
    BY <1>1, <1>3, LenProperties, RpcAssumption
  <2> QED
    BY <1>1, <1>2, <1>3, <1>5, <2>1 DEF TypeOK
<1>7. Separate'
  <2>1. MailIds' = MailIds
    BY <1>2 DEF MailIds
  <2> QED
    BY <1>2, <1>3, <1>5, <2>1 DEF Separate
<1>8. OwnFrames'
  <2>1. Carries(call, raw) /\ \A i \in 1 .. Len(raws') : Carries(call, raws'[i])
    BY <1>1, <1>2, TailCarries DEF OwnFrames, raw
  <2>2. Carries(call, req)
    BY <1>4, <2>1 DEF Carries
  <2>3. \A i \in 1 .. Len(requests') : Carries(call, requests'[i])
    BY <1>1, <1>2, <1>4, <2>2, AppendCarries DEF OwnFrames
  <2> QED
    BY <1>2, <2>1, <2>3 DEF OwnFrames
<1>9. Phases'
  BY <1>1, <1>2 DEF Phases
<1> QED
  BY <1>6, <1>7, <1>8, <1>9

(* A response is pushed, or lost.                                          *)
LEMMA Responded ==
  ASSUME RpcInvariant, NEW r \in Response, Respond(r), Id(r) \notin MailIds
  PROVE  /\ mail' \subseteq mail \cup {r} /\ mail' \subseteq Response /\ IsFiniteSet(mail')
         /\ MailIds' \subseteq MailIds \cup {Id(r)}
         /\ \A m, o \in mail' : Id(m) = Id(o) => m = o
<1>1. mail' \subseteq mail \cup {r}
  BY DEF Respond
<1>2. mail \subseteq Response /\ IsFiniteSet(mail) /\ \A m, o \in mail : Id(m) = Id(o) => m = o
  BY DEF RpcInvariant, TypeOK, Separate
<1>3. IsFiniteSet(mail \cup {r})
  BY <1>2, FS_AddElement
<1>4. IsFiniteSet(mail')
  BY <1>1, <1>3, FS_Subset
<1>5. MailIds' \subseteq MailIds \cup {Id(r)}
  BY <1>1 DEF MailIds
<1>6. \A m \in mail : Id(m) # Id(r)
  BY DEF MailIds
<1> QED
  BY <1>1, <1>2, <1>4, <1>5, <1>6

(* The engine answers for the whole array, or fails.                       *)
LEMMA InferKeeps ==
  ASSUME RpcInvariant, Infer
  PROVE  RpcInvariant'
<1> USE DEF RpcInvariant
<1>1. /\ results' \in {images, Failed} /\ server' = "answer" /\ server = "infer"
      /\ UNCHANGED <<call, queue, mail, raws, requests, images, plan>>
  BY DEF Infer
<1>2. TypeOK'
  BY <1>1 DEF TypeOK
<1>3. Separate'
  BY <1>1 DEF Separate, MailIds
<1>4. OwnFrames'
  BY <1>1 DEF OwnFrames
<1>5. Phases'
  BY <1>1 DEF Phases
<1> QED
  BY <1>2, <1>3, <1>4, <1>5

(* The server dies.                                                        *)
LEMMA CrashKeeps ==
  ASSUME RpcInvariant, Crash
  PROVE  RpcInvariant'
<1> USE DEF RpcInvariant
<1>1. /\ server' = "pop" /\ raws' = <<>> /\ requests' = <<>> /\ images' = <<>> /\ plan' = <<>>
      /\ UNCHANGED <<call, queue, mail>>
  BY DEF Crash
<1>2. Len(<<>>) = 0 /\ \A S : <<>> \in Seq(S)
  OBVIOUS
<1>3. TypeOK'
  BY <1>1, <1>2, RpcAssumption DEF TypeOK
<1>4. Separate'
  <2>1. MailIds' = MailIds
    BY <1>1 DEF MailIds
  <2> QED
    BY <1>1, <2>1, EmptyIds DEF Separate
<1>5. OwnFrames'
  BY <1>1, <1>2 DEF OwnFrames
<1>6. Phases'
  BY <1>1 DEF Phases
<1> QED
  BY <1>3, <1>4, <1>5, <1>6

(* Nothing happens.                                                        *)
LEMMA RpcStutter == RpcInvariant /\ UNCHANGED vars => RpcInvariant'
<1> SUFFICES ASSUME RpcInvariant, UNCHANGED vars PROVE RpcInvariant'
  OBVIOUS
<1> USE DEF RpcInvariant, vars
<1>1. TypeOK' /\ Separate'
  BY DEF TypeOK, Separate, MailIds
<1>2. OwnFrames' /\ Phases'
  BY DEF OwnFrames, Phases
<1> QED
  BY <1>1, <1>2

(* The frames of a readable request come after the images there are.       *)
LEMMA MoreImages ==
  ASSUME RpcInvariant, NEW req \in Request, Carries(call, req),
         \A i \in 1 .. Len(req.frames) : req.frames[i] \in Readable
  PROVE  LET imgs == images \o req.frames
             slice == [caller |-> req.caller, num |-> req.num,
                       start |-> Len(images), count |-> Len(req.frames)]
         IN  /\ imgs \in Seq(Readable) /\ slice \in Slice /\ Id(slice) = Id(req)
             /\ Covers(call, imgs, slice)
             /\ \A e \in Slice : Covers(call, images, e) => Covers(call, imgs, e)
<1>1. images \in Seq(Readable) /\ Len(images) \in Nat
  BY LenProperties DEF RpcInvariant, TypeOK
<1>2. req.frames \in Seq(Frames) /\ Len(req.frames) \in Nat
  BY RpcAssumption, LenProperties DEF Request
<1>3. req.frames \in Seq(Readable)
  BY <1>2
<1> DEFINE imgs == images \o req.frames
           slice == [caller |-> req.caller, num |-> req.num,
                     start |-> Len(images), count |-> Len(req.frames)]
<1>4. /\ imgs \in Seq(Readable) /\ Len(imgs) = Len(images) + Len(req.frames)
      /\ \A i \in 1 .. Len(imgs) :
           imgs[i] = IF i <= Len(images) THEN images[i] ELSE req.frames[i - Len(images)]
  BY <1>1, <1>3, ConcatProperties
<1>5. /\ slice \in Slice /\ Id(slice) = Id(req)
      /\ slice.start = Len(images) /\ slice.count = Len(req.frames)
  BY <1>1, <1>2 DEF Slice, Request, Id
<1> HIDE DEF imgs, slice
<1>6. \A k \in 1 .. Len(req.frames) : imgs[Len(images) + k] = req.frames[k]
  <2> SUFFICES ASSUME NEW k \in 1 .. Len(req.frames) PROVE imgs[Len(images) + k] = req.frames[k]
    OBVIOUS
  <2>1. Len(images) + k \in 1 .. Len(imgs) /\ ~(Len(images) + k <= Len(images))
    BY <1>1, <1>2, <1>4
  <2>2. (Len(images) + k) - Len(images) = k
    BY <1>1, <1>2
  <2> QED
    BY <1>4, <2>1, <2>2
<1>7. Covers(call, imgs, slice)
  <2>1. slice.start + slice.count <= Len(imgs)
    BY <1>1, <1>2, <1>4, <1>5
  <2> QED
    BY <1>5, <1>6, <2>1 DEF Covers, Carries
<1>8. ASSUME NEW e \in Slice, Covers(call, images, e) PROVE Covers(call, imgs, e)
  <2>1. e.start \in Nat /\ e.count \in Nat /\ e.start + e.count <= Len(images)
    BY <1>8 DEF Slice, Covers
  <2>2. ASSUME NEW k \in 1 .. e.count PROVE imgs[e.start + k] = images[e.start + k]
    <3>1. e.start + k \in 1 .. Len(imgs) /\ e.start + k <= Len(images)
      BY <1>1, <1>2, <1>4, <2>1
    <3> QED
      BY <1>4, <3>1
  <2>3. e.start + e.count <= Len(imgs)
    BY <1>1, <1>2, <1>4, <2>1
  <2> QED
    BY <1>8, <2>2, <2>3 DEF Covers
<1> QED
  BY <1>4, <1>5, <1>7, <1>8 DEF imgs, slice

(* A request is decoded, or answered with an error.                        *)
LEMMA DecodeKeeps ==
  ASSUME RpcInvariant, Decode
  PROVE  RpcInvariant'
<1> USE DEF RpcInvariant
<1>1. requests \in Seq(Request) /\ requests # <<>> /\ server = "decode" /\ raws = <<>> /\ plan \in Seq(Slice)
  BY DEF Decode, TypeOK, Phases
<1> DEFINE req == Head(requests)
           slice == [caller |-> req.caller, num |-> req.num,
                     start |-> Len(images), count |-> Len(req.frames)]
           unreadable == \E i \in 1 .. Len(req.frames) : req.frames[i] \notin Readable
<1>2. /\ IF unreadable THEN Respond(Error(req)) /\ UNCHANGED <<images, plan>>
          ELSE images' = images \o req.frames /\ plan' = Append(plan, slice) /\ UNCHANGED mail
      /\ requests' = Tail(requests)
      /\ server' = (IF requests' # <<>> THEN "decode" ELSE IF plan' = <<>> THEN "pop" ELSE "infer")
      /\ UNCHANGED <<call, queue, raws, results>>
  BY DEF Decode
<1>3. /\ req \in Request /\ requests' \in Seq(Request)
      /\ Id(req) \in Ids(requests) /\ Ids(requests') \subseteq Ids(requests)
      /\ Distinct(requests) => Distinct(requests') /\ Id(req) \notin Ids(requests')
      /\ Carries(call, req) /\ \A i \in 1 .. Len(requests') : Carries(call, requests'[i])
  BY <1>1, <1>2, TailIds, TailCarries DEF OwnFrames
<1>4. Phases'
  BY <1>1, <1>2 DEF Phases
<1>5. Id(req) \notin MailIds /\ Id(req) \notin Ids(plan) /\ Id(req) \notin Ids(queue) /\ Id(req) \notin Ids(raws)
  BY <1>3 DEF Separate
<1>6. CASE unreadable
  <2>1. Respond(Error(req)) /\ UNCHANGED <<images, plan>>
    BY <1>2, <1>6
  <2>2. Error(req) \in Response /\ Id(Error(req)) = Id(req) /\ ~Error(req).ok
    BY <1>3 DEF Request, Response, Error, Id
  <2>3. /\ mail' \subseteq mail \cup {Error(req)} /\ mail' \subseteq Response /\ IsFiniteSet(mail')
        /\ MailIds' \subseteq MailIds \cup {Id(req)}
        /\ \A m, o \in mail' : Id(m) = Id(o) => m = o
    BY <1>5, <2>1, <2>2, Responded
  <2>4. TypeOK'
    BY <1>1, <1>2, <1>3, <2>1, <2>3 DEF TypeOK
  <2>5. Separate'
    BY <1>2, <1>3, <1>5, <2>1, <2>3 DEF Separate
  <2>6. Answers(call, Error(req))
    BY <2>2 DEF Answers
  <2>7. OwnFrames'
    BY <1>2, <1>3, <2>1, <2>3, <2>6 DEF OwnFrames
  <2> QED
    BY <1>4, <2>4, <2>5, <2>7
<1>7. CASE ~unreadable
  <2>1. images' = images \o req.frames /\ plan' = Append(plan, slice) /\ UNCHANGED mail
    BY <1>2, <1>7
  <2>2. \A i \in 1 .. Len(req.frames) : req.frames[i] \in Readable
    BY <1>7
  <2>3. /\ images' \in Seq(Readable) /\ slice \in Slice /\ Id(slice) = Id(req)
        /\ Covers(call, images', slice)
        /\ \A e \in Slice : Covers(call, images, e) => Covers(call, images', e)
    BY <1>3, <2>1, <2>2, MoreImages
  <2> HIDE DEF req, slice, unreadable
  <2>4. /\ plan' \in Seq(Slice) /\ plan' # <<>> /\ Ids(plan') = Ids(plan) \cup {Id(req)}
        /\ Distinct(plan) /\ Id(req) \notin Ids(plan) => Distinct(plan')
        /\ \A i \in 1 .. Len(plan') :
             (i \in 1 .. Len(plan) /\ plan'[i] = plan[i]) \/ (i = Len(plan) + 1 /\ plan'[i] = slice)
    <3> DEFINE q == Append(plan, slice)
    <3>1. /\ q \in Seq(Slice) /\ q # <<>> /\ Ids(q) = Ids(plan) \cup {Id(slice)}
          /\ Distinct(plan) /\ Id(slice) \notin Ids(plan) => Distinct(q)
          /\ \A i \in 1 .. Len(q) :
               (i \in 1 .. Len(plan) /\ q[i] = plan[i]) \/ (i = Len(plan) + 1 /\ q[i] = slice)
      BY <1>1, <2>3, AppendIds
    <3>2. q = plan'
      BY <2>1
    <3> HIDE DEF q
    <3> QED
      BY <3>1, <3>2, <2>3
  <2>5. TypeOK'
    BY <1>1, <1>2, <1>3, <2>1, <2>3, <2>4 DEF TypeOK
  <2>6. Separate'
    <3>1. MailIds' = MailIds
      BY <2>1 DEF MailIds
    <3> QED
      BY <1>2, <1>3, <1>5, <2>1, <2>4, <3>1 DEF Separate
  <2>7. OwnFrames'
    <3>1. \A i \in 1 .. Len(plan) : plan[i] \in Slice /\ Covers(call, images', plan[i])
      BY <1>1, <2>3, ElementOfSeq DEF OwnFrames
    <3>2. \A i \in 1 .. Len(plan') : Covers(call, images', plan'[i])
      BY <2>3, <2>4, <3>1
    <3> QED
      BY <1>2, <1>3, <2>1, <3>2 DEF OwnFrames
  <2> QED
    BY <1>4, <2>5, <2>6, <2>7
<1> QED
  BY <1>6, <1>7

(* A request gets its slice of the results.                                *)
LEMMA OwnPart ==
  ASSUME RpcInvariant, NEW e \in Slice, Covers(call, images, e)
  PROVE  /\ Success(e, Part(images, e.start, e.count)) \in Response
         /\ Id(Success(e, Part(images, e.start, e.count))) = Id(e)
         /\ Answers(call, Success(e, Part(images, e.start, e.count)))
<1>1. /\ images \in Seq(Readable) /\ Len(images) \in Nat /\ e.start \in Nat /\ e.count \in Nat
      /\ e.start + e.count <= Len(images)
  BY LenProperties DEF RpcInvariant, TypeOK, Slice, Covers
<1> DEFINE p == [i \in 1 .. e.count |-> images[e.start + i]]
<1>2. Part(images, e.start, e.count) = p
  BY <1>1 DEF Part
<1>3. \A i \in 1 .. e.count : e.start + i \in 1 .. Len(images) /\ images[e.start + i] \in Readable
  BY <1>1, ElementOfSeq
<1>4. p \in Seq(Frames)
  BY <1>1, <1>3, RpcAssumption
<1> DEFINE m == Success(e, p)
<1>5. m \in Response /\ Id(m) = Id(e) /\ m.faces = p
  BY <1>4 DEF Success, Response, Slice, Id
<1>6. ASSUME NEW c \in Callers, Asks(call, c, Id(e))
      PROVE  p = call[c].frames /\ \A k \in 1 .. Len(call[c].frames) : call[c].frames[k] \in Readable
  <2>1. /\ e.count = Len(call[c].frames)
        /\ \A k \in 1 .. e.count : images[e.start + k] = call[c].frames[k]
    BY <1>6 DEF Covers
  <2>2. call[c].frames \in Seq(Frames)
    <3>1. call[c].frames \in Batches \cup {<<>>}
      BY DEF RpcInvariant, TypeOK, Call
    <3>2. <<>> \in Seq(Frames)
      OBVIOUS
    <3>3. Batches \subseteq Seq(Frames)
      BY RpcAssumption
    <3> QED
      BY <3>1, <3>2, <3>3
  <2>3. Len(p) = e.count /\ \A k \in 1 .. e.count : p[k] = call[c].frames[k]
    BY <1>1, <2>1
  <2>4. p = call[c].frames
    BY <1>4, <2>1, <2>2, <2>3, SeqEqual
  <2> QED
    BY <1>3, <2>1, <2>4
<1> HIDE DEF p
<1> QED
  BY <1>2, <1>5, <1>6 DEF Answers

(* The server answers one request of the plan.                             *)
LEMMA AnswerKeeps ==
  ASSUME RpcInvariant, Answer
  PROVE  RpcInvariant'
<1> USE DEF RpcInvariant
<1>1. /\ plan \in Seq(Slice) /\ plan # <<>> /\ server = "answer" /\ results \in {images, Failed}
      /\ raws = <<>> /\ requests = <<>>
  BY DEF Answer, TypeOK, Phases
<1> DEFINE e == Head(plan)
           r == IF results = Failed THEN Error(e) ELSE Success(e, Part(results, e.start, e.count))
<1>2. /\ Respond(r) /\ plan' = Tail(plan)
      /\ IF plan' = <<>> THEN server' = "pop" /\ images' = <<>> /\ results' = <<>>
                         ELSE UNCHANGED <<server, images, results>>
      /\ UNCHANGED <<call, queue, raws, requests>>
  BY DEF Answer
<1>3. /\ e \in Slice /\ plan' \in Seq(Slice) /\ Id(e) \in Ids(plan) /\ Ids(plan') \subseteq Ids(plan)
      /\ Distinct(plan) => Distinct(plan') /\ Id(e) \notin Ids(plan')
      /\ e = plan[1] /\ 1 \in 1 .. Len(plan)
      /\ \A i \in 1 .. Len(plan') : plan'[i] = plan[i + 1] /\ i + 1 \in 1 .. Len(plan)
  BY <1>1, <1>2, TailIds
<1>4. Covers(call, images, e)
  BY <1>3 DEF OwnFrames
<1>5. r \in Response /\ Id(r) = Id(e) /\ Answers(call, r)
  <2>1. CASE results = Failed
    <3>1. Error(e) \in Response /\ Id(Error(e)) = Id(e) /\ ~Error(e).ok
      BY <1>3 DEF Slice, Response, Error, Id
    <3> QED
      BY <2>1, <3>1 DEF Answers
  <2>2. CASE results # Failed
    BY <1>1, <1>3, <1>4, <2>2, OwnPart
  <2> QED
    BY <2>1, <2>2
<1> HIDE DEF e, r
<1>6. Id(e) \notin MailIds /\ Id(e) \notin Ids(queue) /\ Id(e) \notin Ids(raws) /\ Id(e) \notin Ids(requests)
  BY <1>3 DEF Separate
<1>7. /\ mail' \subseteq mail \cup {r} /\ mail' \subseteq Response /\ IsFiniteSet(mail')
      /\ MailIds' \subseteq MailIds \cup {Id(e)}
      /\ \A m, o \in mail' : Id(m) = Id(o) => m = o
  BY <1>2, <1>5, <1>6, Responded
<1>8. TypeOK'
  <2>1. images' \in Seq(Readable) /\ server' \in {"pop", "answer"} /\ (server' = "answer" => plan' # <<>>)
    <3>1. CASE plan' = <<>>
      <4>1. server' = "pop" /\ images' = <<>>
        BY <1>2, <3>1
      <4>2. <<>> \in Seq(Readable)
        OBVIOUS
      <4> QED
        BY <4>1, <4>2
    <3>2. CASE plan' # <<>>
      BY <1>1, <1>2, <3>2 DEF TypeOK
    <3> QED
      BY <3>1, <3>2
  <2> QED
    BY <1>2, <1>3, <1>7, <2>1 DEF TypeOK
<1>9. Separate'
  BY <1>2, <1>3, <1>6, <1>7 DEF Separate
<1>10. OwnFrames'
  <2>1. \A i \in 1 .. Len(plan') : Covers(call, images, plan'[i])
    BY <1>3 DEF OwnFrames
  <2>2. \A i \in 1 .. Len(plan') : Covers(call, images', plan'[i])
    <3>1. CASE plan' = <<>>
      BY <3>1
    <3>2. CASE plan' # <<>>
      BY <1>2, <2>1, <3>2
    <3> QED
      BY <3>1, <3>2
  <2>3. \A m \in mail' : Answers(call, m)
    BY <1>5, <1>7 DEF OwnFrames
  <2> QED
    BY <1>2, <2>2, <2>3 DEF OwnFrames
<1>11. Phases'
  BY <1>1, <1>2 DEF Phases
<1> QED
  BY <1>8, <1>9, <1>10, <1>11

-----------------------------------------------------------------------------
(* Every step keeps the invariant.                                         *)
LEMMA RpcStep == RpcInvariant /\ [Next]_vars => RpcInvariant'
<1> SUFFICES ASSUME RpcInvariant, [Next]_vars PROVE RpcInvariant'
  OBVIOUS
<1>1. ASSUME NEW c \in Callers, NEW frames \in Batches, Send(c, frames) PROVE RpcInvariant'
  BY <1>1, SendKeeps
<1>2. CASE \/ \E c \in Callers : Receive(c) \/ TimeOut(c) \/ LoseConnection(c)
           \/ \E m \in mail : Expire(m)
  BY <1>2, CallersKeep
<1>3. CASE Serve
  BY <1>3, PopKeeps, GatherKeeps, SiftKeeps, DecodeKeeps, InferKeeps, AnswerKeeps DEF Serve
<1>4. CASE Crash \/ Tick
  BY <1>4, CrashKeeps, TickKeeps
<1>5. CASE UNCHANGED vars
  BY <1>5, RpcStutter
<1> QED
  BY <1>1, <1>2, <1>3, <1>4, <1>5 DEF Next

(* The inductive invariant holds in every reachable state.                 *)
THEOREM RpcInvariantHolds == Spec => []RpcInvariant
BY RpcInit, RpcStep, PTL DEF Spec

(* Every variable keeps its type, and no step works on nothing.            *)
THEOREM RpcTypeCorrect == Spec => []TypeOK
<1>1. RpcInvariant => TypeOK
  BY DEF RpcInvariant
<1> QED
  BY <1>1, RpcInvariantHolds, PTL

(* Disjoint sets are counted together.                                     *)
LEMMA DisjointUnion ==
  ASSUME NEW S, NEW T, IsFiniteSet(S), IsFiniteSet(T), S \cap T = {}
  PROVE  IsFiniteSet(S \cup T) /\ Cardinality(S \cup T) = Cardinality(S) + Cardinality(T)
<1>1. Cardinality({}) = 0 /\ Cardinality(S) \in Nat /\ Cardinality(T) \in Nat
  BY FS_EmptySet, FS_CardinalityType
<1>2. IsFiniteSet(S \cup T) /\ Cardinality(S \cup T) = Cardinality(S) + Cardinality(T) - Cardinality(S \cap T)
  BY FS_Union
<1>3. Cardinality(S \cap T) = 0
  BY <1>1
<1> QED
  BY <1>1, <1>2, <1>3

(* The places of the requests, counted.                                    *)
LEMMA PlacesCounted == RpcInvariant => InOnePlace
<1> SUFFICES ASSUME RpcInvariant PROVE InOnePlace
  OBVIOUS
<1> USE DEF RpcInvariant
<1>1. /\ IsFiniteSet(Ids(queue)) /\ Cardinality(Ids(queue)) = Len(queue)
      /\ IsFiniteSet(Ids(raws)) /\ Cardinality(Ids(raws)) = Len(raws)
      /\ IsFiniteSet(Ids(requests)) /\ Cardinality(Ids(requests)) = Len(requests)
      /\ IsFiniteSet(Ids(plan)) /\ Cardinality(Ids(plan)) = Len(plan)
  BY CountIds DEF TypeOK, Separate
<1>2. IsFiniteSet(MailIds) /\ Cardinality(MailIds) = Cardinality(mail)
  <2> DEFINE f == [m \in mail |-> Id(m)]
  <2>1. f \in [mail -> MailIds]
    BY DEF MailIds
  <2>2. \A a, b \in mail : f[a] = f[b] => a = b
    BY DEF Separate
  <2>3. \A x \in MailIds : \E m \in mail : f[m] = x
    BY DEF MailIds
  <2> HIDE DEF f
  <2>4. f \in Bijection(mail, MailIds)
    BY <2>1, <2>2, <2>3 DEF Bijection, Injection, Surjection, IsInjective
  <2>5. ExistsBijection(mail, MailIds)
    BY <2>4 DEF ExistsBijection
  <2> QED
    BY <2>5, FS_Bijection DEF Separate
<1> DEFINE A == Ids(queue) \cup Ids(raws)
           B == A \cup Ids(requests)
           C == B \cup Ids(plan)
<1>3. /\ Ids(queue) \cap Ids(raws) = {} /\ A \cap Ids(requests) = {}
      /\ B \cap Ids(plan) = {} /\ C \cap MailIds = {}
  BY DEF Separate
<1>4. IsFiniteSet(A) /\ Cardinality(A) = Len(queue) + Len(raws)
  <2>1. IsFiniteSet(A) /\ Cardinality(A) = Cardinality(Ids(queue)) + Cardinality(Ids(raws))
    BY <1>1, <1>3, DisjointUnion
  <2> QED
    BY <1>1, <2>1
<1>5. IsFiniteSet(B) /\ Cardinality(B) = Len(queue) + Len(raws) + Len(requests)
  <2> HIDE DEF A
  <2>1. IsFiniteSet(B) /\ Cardinality(B) = Cardinality(A) + Cardinality(Ids(requests))
    BY <1>1, <1>3, <1>4, DisjointUnion
  <2> QED
    BY <1>1, <1>4, <2>1
<1>6. IsFiniteSet(C) /\ Cardinality(C) = Len(queue) + Len(raws) + Len(requests) + Len(plan)
  <2> HIDE DEF B
  <2>1. IsFiniteSet(C) /\ Cardinality(C) = Cardinality(B) + Cardinality(Ids(plan))
    BY <1>1, <1>3, <1>5, DisjointUnion
  <2> QED
    BY <1>1, <1>5, <2>1
<1>7. Cardinality(C \cup MailIds)
        = Len(queue) + Len(raws) + Len(requests) + Len(plan) + Cardinality(mail)
  <2> HIDE DEF C
  <2>1. Cardinality(C \cup MailIds) = Cardinality(C) + Cardinality(MailIds)
    BY <1>2, <1>3, <1>6, DisjointUnion
  <2> QED
    BY <1>2, <1>6, <2>1
<1>8. InFlight = C \cup MailIds
  BY InFlightIds
<1> QED
  BY <1>7, <1>8 DEF InOnePlace

(* A request is in one place at a time: it is never served twice.          *)
THEOREM RequestsInOnePlace == Spec => []InOnePlace
BY PlacesCounted, RpcInvariantHolds, PTL

-----------------------------------------------------------------------------
(* What a caller sees.                                                     *)
LEMMA Viewed ==
  ASSUME NEW c \in Callers, NEW w, call \in [Callers -> Call], call' = [call EXCEPT ![c] = w]
  PROVE  [d \in Callers |-> View(d)'] =
           [[d \in Callers |-> View(d)] EXCEPT ![c] = [at |-> w.at, frames |-> w.frames, faces |-> w.faces]]
BY DEF View

(* Every step is a step of a caller's view, or none of its business.       *)
LEMMA RpcRefines == RpcInvariant /\ [Next]_vars => [Remote!Next]_[c \in Callers |-> View(c)]
<1> SUFFICES ASSUME RpcInvariant, [Next]_vars
             PROVE  [Remote!Next]_[c \in Callers |-> View(c)]
  OBVIOUS
<1> DEFINE abs == [c \in Callers |-> View(c)]
<1>1. call \in [Callers -> Call]
  BY DEF RpcInvariant, TypeOK
<1>2. \A c \in Callers : abs[c] = [at |-> call[c].at, frames |-> call[c].frames, faces |-> call[c].faces]
  BY DEF View
<1>3. ASSUME NEW c \in Callers, NEW frames \in Batches, Send(c, frames) PROVE Remote!Next
  <2>1. PICK n \in Nums : call' = [call EXCEPT ![c] =
             [at |-> "asked", num |-> n, frames |-> frames, faces |-> <<>>, age |-> 0]]
    BY <1>3 DEF Send
  <2>2. abs' = [abs EXCEPT ![c] = [at |-> "asked", frames |-> frames, faces |-> <<>>]]
    BY <1>1, <2>1, Viewed
  <2>3. abs[c].at # "asked"
    BY <1>2, <1>3 DEF Send, Waiting
  <2>4. Remote!Ask(c, frames)
    BY <2>2, <2>3 DEF Remote!Ask
  <2> QED
    BY <2>4 DEF Remote!Next
<1>4. ASSUME NEW c \in Callers, Waiting(c), call' = [call EXCEPT ![c] = Ended("failed", <<>>)]
      PROVE  Remote!Next
  <2>1. abs' = [abs EXCEPT ![c] = [at |-> "failed", frames |-> <<>>, faces |-> <<>>]]
    BY <1>1, <1>4, Viewed DEF Ended
  <2>2. abs[c].at = "asked"
    BY <1>2, <1>4 DEF Waiting
  <2>3. Remote!Fail(c)
    BY <2>1, <2>2 DEF Remote!Fail
  <2> QED
    BY <2>3 DEF Remote!Next
<1>5. ASSUME NEW c \in Callers, Receive(c) PROVE Remote!Next
  <2>1. PICK m \in mail :
          /\ Id(m) = <<c, call[c].num>>
          /\ call' = [call EXCEPT ![c] = IF m.ok THEN Ended("answered", m.faces) ELSE Ended("failed", <<>>)]
    BY <1>5 DEF Receive
  <2>2. Waiting(c)
    BY <1>5 DEF Receive
  <2>3. CASE ~m.ok
    BY <1>4, <2>1, <2>2, <2>3
  <2>4. CASE m.ok
    <3>1. /\ m.faces = call[c].frames
          /\ \A k \in 1 .. Len(call[c].frames) : call[c].frames[k] \in Readable
      BY <2>1, <2>2, <2>4, ReceivedFaces
    <3>2. call' = [call EXCEPT ![c] = Ended("answered", call[c].frames)]
      BY <2>1, <2>4, <3>1
    <3>3. abs' = [abs EXCEPT ![c] = [at |-> "answered", frames |-> <<>>, faces |-> call[c].frames]]
      BY <1>1, <3>2, Viewed DEF Ended
    <3>4. abs[c].at = "asked" /\ abs[c].frames = call[c].frames
      BY <1>2, <2>2 DEF Waiting
    <3>5. Remote!Answer(c)
      BY <3>1, <3>3, <3>4 DEF Remote!Answer
    <3> QED
      BY <3>5 DEF Remote!Next
  <2> QED
    BY <2>3, <2>4
<1>6. ASSUME NEW c \in Callers, TimeOut(c) \/ LoseConnection(c) PROVE Remote!Next
  BY <1>4, <1>6 DEF TimeOut, LoseConnection
<1>7. ASSUME call' = call PROVE abs' = abs
  BY <1>7 DEF View
<1>8. CASE (\E m \in mail : Expire(m)) \/ Serve \/ Crash
  <2>1. call' = call
    BY <1>8 DEF Expire, Serve, Pop, Gather, Sift, Decode, Infer, Answer, Crash
  <2> QED
    BY <2>1, <1>7
<1>9. CASE Tick
  <2>1. \A c \in Callers : View(c)' = View(c)
    <3> SUFFICES ASSUME NEW c \in Callers PROVE View(c)' = View(c)
      OBVIOUS
    <3>1. call'[c] = IF Waiting(c) THEN [call[c] EXCEPT !.age = Older(@)] ELSE call[c]
      BY <1>9 DEF Tick
    <3>2. call[c] \in Call
      BY <1>1
    <3> QED
      BY <3>1, <3>2 DEF View, Call
  <2> QED
    BY <2>1
<1>10. CASE UNCHANGED vars
  BY <1>7, <1>10 DEF vars
<1> QED
  BY <1>3, <1>5, <1>6, <1>8, <1>9, <1>10 DEF Next

(* Whatever is batched, dropped, late or dies: a call is answered with the *)
(* faces of its own frames, in their order, or it fails.                   *)
THEOREM CallsAreAnsweredRight == Spec => ImplementsRemoteCall
<1>1. Init => Remote!Init
  BY DEF Init, Remote!Init, View, NoCall, Remote!Ready
<1> QED
  BY <1>1, RpcRefines, RpcInvariantHolds, PTL DEF Spec, ImplementsRemoteCall, Remote!Spec
=============================================================================
