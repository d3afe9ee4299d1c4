-------------------------- MODULE FramesProofs --------------------------
(* Proofs about Frames, for every source, every size of queue and batch,   *)
(* every rate, and whatever the engine finds.                              *)
EXTENDS Frames, SequenceTheorems, FiniteSetTheorems, TLAPS

(* The numbers of packets, and of the frames handed on.                    *)
Nums(packets) == {packets[i].seq : i \in DOMAIN packets}
Handled == {handled[i] : i \in DOMAIN handled}

Rising(packets) ==
    \A i, j \in DOMAIN packets : i < j => packets[i].seq < packets[j].seq

Readers ==
    [pc : {"open", "wait", "read", "push", "drop", "done"}, file : BOOLEAN,
     delay : FirstDelay .. MaxDelay, fails : Nat, index : Nat, sampled : Nat,
     read : 0 .. MaxRead, packet : Packet \cup {NoPacket}]

Typed ==
    /\ reader \in Readers
    /\ queue \in Seq(Packet)
    /\ task = [pc |-> task.pc, batch |-> task.batch, others |-> task.others, dets |-> task.dets,
               tried |-> task.tried, failed |-> task.failed, results |-> task.results]
    /\ task.pc \in {"collect", "detect", "embed", "recover", "handle", "ended"}
    /\ task.batch \in Seq(Packet)
    /\ engine \in [cpu : BOOLEAN, batched : BOOLEAN]
    /\ handled \in Seq(Nat)

(* Reads of a file fail once before it is opened again, those of a stream  *)
(* a limited number of times; queue and batch keep to their sizes.         *)
Bounded ==
    /\ reader.sampled <= reader.read
    /\ reader.fails <= MaxFails
    /\ reader.pc = "read" => IF reader.file THEN reader.fails = 0 ELSE reader.fails < MaxFails
    /\ InHand => reader.fails = 0
    /\ Len(queue) <= QueueSize
    /\ Len(task.batch) <= BatchSize
    /\ task.pc \notin {"collect", "ended"} => task.batch # <<>>
    /\ task.pc = "ended" => task.batch = <<>>

(* The frames stand in line: handed on, in the batch, queued, in hand.     *)
InLine ==
    /\ \A i, j \in DOMAIN handled : i < j => handled[i] < handled[j]
    /\ Rising(task.batch) /\ Rising(queue)
    /\ \A m \in Handled : \A n \in Nums(task.batch) \cup Nums(queue) : m < n
    /\ \A m \in Nums(task.batch), n \in Nums(queue) : m < n
    /\ \A n \in Handled \cup Nums(task.batch) \cup Nums(queue) :
        n <= reader.sampled /\ (InHand => n < reader.sampled)
    /\ InHand => reader.packet \in Packet /\ reader.packet.seq = reader.sampled
    /\ \A m \in dropped : m < reader.sampled /\ \A n \in Nums(queue) : m < n

(* Every frame is somewhere, and there are enough newer ones than those    *)
(* that were dropped.                                                      *)
Accounted ==
    /\ dropped \subseteq 1 .. reader.sampled
    /\ gone \subseteq 1 .. reader.sampled
    /\ 1 .. reader.sampled =
        Handled \cup Nums(task.batch) \cup Nums(queue) \cup dropped \cup gone
            \cup IF InHand THEN {reader.sampled} ELSE {}
    /\ dropped # {} => Cardinality(dropped) + QueueSize <= reader.sampled
    /\ reader.pc = "drop" => Cardinality(dropped) + QueueSize + 1 <= reader.sampled

FramesInvariant == Typed /\ Bounded /\ InLine /\ Accounted

-----------------------------------------------------------------------------
(* Sequences of packets.                                                   *)

(* Numbers of packets are numbers of frames.                               *)
LEMMA NumsTyped ==
    ASSUME NEW s \in Seq(Packet)
    PROVE  /\ Nums(s) \subseteq Nat
           /\ \A i \in 1 .. Len(s) : s[i].seq \in Nat /\ s[i].seq \in Nums(s)
           /\ DOMAIN s = 1 .. Len(s) /\ Len(s) \in Nat
           /\ Nums(<<>>) = {}
  <1>1. \A i \in DOMAIN s : s[i] \in Packet
    OBVIOUS
  <1>2. DOMAIN s = 1 .. Len(s) /\ Len(s) \in Nat
    BY LenProperties
  <1>3. DOMAIN <<>> = {}
    OBVIOUS
  <1>4. \A e \in Packet : e.seq \in Nat
    BY DEF Packet
  <1> QED BY <1>1, <1>2, <1>3, <1>4 DEF Nums

(* A packet is put at the end.                                             *)
LEMMA AppendNums ==
    ASSUME NEW s \in Seq(Packet), NEW e \in Packet, Rising(s), \A n \in Nums(s) : n < e.seq
    PROVE  /\ Append(s, e) \in Seq(Packet) /\ Rising(Append(s, e))
           /\ Nums(Append(s, e)) = Nums(s) \cup {e.seq}
           /\ Len(Append(s, e)) = Len(s) + 1 /\ Append(s, e) # <<>>
  <1> DEFINE t == Append(s, e)
  <1>1. /\ t \in Seq(Packet) /\ Len(t) = Len(s) + 1 /\ t # <<>>
        /\ \A i \in 1 .. Len(s) : t[i] = s[i]
        /\ t[Len(s) + 1] = e
    BY AppendProperties
  <1>2. DOMAIN s = 1 .. Len(s) /\ DOMAIN t = 1 .. Len(s) + 1 /\ Len(s) \in Nat
    BY <1>1, LenProperties
  <1> HIDE DEF t
  <1>3. Nums(t) = Nums(s) \cup {e.seq}
    <2>1. ASSUME NEW n \in Nums(t) PROVE n \in Nums(s) \cup {e.seq}
      <3>1. PICK i \in 1 .. Len(s) + 1 : n = t[i].seq
        BY <1>2, <2>1 DEF Nums
      <3> QED BY <1>1, <1>2, <3>1 DEF Nums
    <2>2. ASSUME NEW n \in Nums(s) PROVE n \in Nums(t)
      <3>1. PICK i \in 1 .. Len(s) : n = s[i].seq
        BY <1>2, <2>2 DEF Nums
      <3> QED BY <1>1, <1>2, <3>1 DEF Nums
    <2>3. e.seq \in Nums(t)
      BY <1>1, <1>2 DEF Nums
    <2> QED BY <2>1, <2>2, <2>3
  <1>4. Rising(t)
    <2>1. ASSUME NEW i \in 1 .. Len(s) + 1, NEW j \in 1 .. Len(s) + 1, i < j
          PROVE  t[i].seq < t[j].seq
      <3>1. i \in 1 .. Len(s) /\ t[i] = s[i] /\ s[i].seq \in Nums(s)
        BY <1>1, <1>2, <2>1 DEF Nums
      <3>2. CASE j = Len(s) + 1
        BY <1>1, <3>1, <3>2
      <3>3. CASE j # Len(s) + 1
        BY <1>1, <1>2, <2>1, <3>1, <3>3 DEF Rising
      <3> QED BY <3>2, <3>3
    <2> QED BY <1>2, <2>1 DEF Rising
  <1> QED BY <1>1, <1>3, <1>4 DEF t

(* The oldest packet is taken out.                                         *)
LEMMA TailNums ==
    ASSUME NEW s \in Seq(Packet), s # <<>>, Rising(s)
    PROVE  /\ Head(s) \in Packet /\ Tail(s) \in Seq(Packet) /\ Rising(Tail(s))
           /\ Nums(s) = {Head(s).seq} \cup Nums(Tail(s))
           /\ \A n \in Nums(Tail(s)) : Head(s).seq < n
           /\ Len(Tail(s)) = Len(s) - 1 /\ Len(s) \in Nat \ {0}
  <1> DEFINE t == Tail(s)
  <1>1. /\ Head(s) \in Packet /\ t \in Seq(Packet) /\ Len(t) = Len(s) - 1
        /\ \A i \in 1 .. Len(t) : t[i] = s[i + 1]
    BY HeadTailProperties
  <1>2. Len(s) \in Nat \ {0}
    BY EmptySeq
  <1>3. DOMAIN s = 1 .. Len(s) /\ DOMAIN t = 1 .. Len(s) - 1
    BY <1>1, <1>2, LenProperties
  <1>4. Head(s) = s[1]
    OBVIOUS
  <1> HIDE DEF t
  <1>5. Nums(s) = {Head(s).seq} \cup Nums(t)
    <2>1. ASSUME NEW n \in Nums(s) PROVE n \in {Head(s).seq} \cup Nums(t)
      <3>1. PICK i \in 1 .. Len(s) : n = s[i].seq
        BY <1>3, <2>1 DEF Nums
      <3>2. CASE i = 1
        BY <1>4, <3>1, <3>2
      <3>3. CASE i # 1
        <4>1. i - 1 \in 1 .. Len(s) - 1 /\ t[i - 1] = s[i]
          BY <1>1, <1>2, <3>1, <3>3
        <4> QED BY <1>3, <3>1, <4>1 DEF Nums
      <3> QED BY <3>2, <3>3
    <2>2. ASSUME NEW n \in Nums(t) PROVE n \in Nums(s)
      <3>1. PICK i \in 1 .. Len(s) - 1 : n = t[i].seq
        BY <1>3, <2>2 DEF Nums
      <3>2. i + 1 \in 1 .. Len(s) /\ t[i] = s[i + 1]
        BY <1>1, <1>2, <3>1
      <3> QED BY <1>3, <3>1, <3>2 DEF Nums
    <2>3. Head(s).seq \in Nums(s)
      BY <1>2, <1>3, <1>4 DEF Nums
    <2> QED BY <2>1, <2>2, <2>3
  <1>6. Rising(t)
    <2>1. ASSUME NEW i \in 1 .. Len(s) - 1, NEW j \in 1 .. Len(s) - 1, i < j
          PROVE  t[i].seq < t[j].seq
      <3>1. i + 1 \in DOMAIN s /\ j + 1 \in DOMAIN s /\ i + 1 < j + 1
        BY <1>2, <1>3, <2>1
      <3>2. t[i] = s[i + 1] /\ t[j] = s[j + 1]
        BY <1>1, <2>1
      <3> QED BY <3>1, <3>2 DEF Rising
    <2> QED BY <1>3, <2>1 DEF Rising
  <1>7. ASSUME NEW n \in Nums(t) PROVE Head(s).seq < n
    <2>1. PICK i \in 1 .. Len(s) - 1 : n = t[i].seq
      BY <1>3, <1>7 DEF Nums
    <2>2. i + 1 \in DOMAIN s /\ 1 \in DOMAIN s /\ 1 < i + 1 /\ t[i] = s[i + 1]
      BY <1>1, <1>2, <1>3, <2>1
    <2> QED BY <1>4, <2>1, <2>2 DEF Rising
  <1> QED BY <1>1, <1>2, <1>5, <1>6, <1>7 DEF t

(* A packet is taken out of the middle.                                    *)
LEMMA RemoveNums ==
    ASSUME NEW s \in Seq(Packet), NEW i \in 1 .. Len(s), Rising(s)
    PROVE  /\ RemoveAt(s, i) \in Seq(Packet) /\ Rising(RemoveAt(s, i))
           /\ Nums(s) = {s[i].seq} \cup Nums(RemoveAt(s, i))
           /\ Len(RemoveAt(s, i)) = Len(s) - 1
  <1> DEFINE a == SubSeq(s, 1, i - 1)
             b == SubSeq(s, i + 1, Len(s))
             t == RemoveAt(s, i)
  <1>1. Len(s) \in Nat /\ DOMAIN s = 1 .. Len(s) /\ i \in Nat
    BY LenProperties
  <1>2. a \in Seq(Packet) /\ Len(a) = i - 1 /\ \A k \in 1 .. i - 1 : a[k] = s[k]
    <2>1. 1 \in Int /\ i - 1 \in Int /\ \A k \in 1 .. i - 1 : s[k] \in Packet
      BY <1>1
    <2> QED BY <1>1, <2>1, SubSeqProperties
  <1>3. b \in Seq(Packet) /\ Len(b) = Len(s) - i /\ \A k \in 1 .. Len(s) - i : b[k] = s[i + k]
    <2>1. i + 1 \in Int /\ Len(s) \in Int /\ \A k \in i + 1 .. Len(s) : s[k] \in Packet
      BY <1>1
    <2>2. /\ b \in Seq(Packet) /\ Len(b) = IF i + 1 <= Len(s) THEN Len(s) - (i + 1) + 1 ELSE 0
          /\ \A k \in 1 .. Len(s) - (i + 1) + 1 : b[k] = s[i + 1 + k - 1]
      BY <2>1, SubSeqProperties
    <2>3. Len(b) = Len(s) - i
      BY <1>1, <2>2
    <2>4. \A k \in 1 .. Len(s) - i : k \in 1 .. Len(s) - (i + 1) + 1 /\ i + 1 + k - 1 = i + k
      BY <1>1
    <2> QED BY <2>2, <2>3, <2>4
  <1> HIDE DEF a, b
  <1>4. /\ t \in Seq(Packet) /\ Len(t) = Len(s) - 1
        /\ \A k \in 1 .. Len(s) - 1 : t[k] = IF k < i THEN s[k] ELSE s[k + 1]
    <2>1. t = a \o b
      BY DEF RemoveAt, a, b
    <2>2. /\ t \in Seq(Packet) /\ Len(t) = Len(a) + Len(b)
          /\ \A k \in 1 .. Len(a) + Len(b) : t[k] = IF k <= Len(a) THEN a[k] ELSE b[k - Len(a)]
      <3> HIDE DEF t
      <3> QED BY <1>2, <1>3, <2>1, ConcatProperties
    <2> HIDE DEF t
    <2>3. ASSUME NEW k \in 1 .. Len(s) - 1 PROVE t[k] = IF k < i THEN s[k] ELSE s[k + 1]
      <3>1. t[k] = IF k <= i - 1 THEN a[k] ELSE b[k - (i - 1)]
        BY <1>1, <1>2, <1>3, <2>2
      <3>2. CASE k < i
        BY <1>1, <1>2, <3>1, <3>2
      <3>3. CASE ~(k < i)
        <4>1. k - (i - 1) \in 1 .. Len(s) - i /\ i + (k - (i - 1)) = k + 1
          BY <1>1, <3>3
        <4>2. b[k - (i - 1)] = s[k + 1]
          BY <1>3, <4>1
        <4> QED BY <1>1, <3>1, <3>3, <4>2
      <3> QED BY <3>2, <3>3
    <2> QED BY <1>1, <1>2, <1>3, <2>2, <2>3
  <1> HIDE DEF t
  <1>5. DOMAIN t = 1 .. Len(s) - 1
    BY <1>4, LenProperties
  <1>6. Nums(s) = {s[i].seq} \cup Nums(t)
    <2>1. ASSUME NEW n \in Nums(s) PROVE n \in {s[i].seq} \cup Nums(t)
      <3>1. PICK k \in 1 .. Len(s) : n = s[k].seq
        BY <1>1, <2>1 DEF Nums
      <3>2. CASE k < i
        <4>1. k \in 1 .. Len(s) - 1 /\ t[k] = s[k]
          BY <1>1, <1>4, <3>1, <3>2
        <4> QED BY <1>5, <3>1, <4>1 DEF Nums
      <3>3. CASE k = i
        BY <3>1, <3>3
      <3>4. CASE k > i
        <4>1. k - 1 \in 1 .. Len(s) - 1 /\ ~(k - 1 < i) /\ k - 1 + 1 = k
          BY <1>1, <3>1, <3>4
        <4>2. t[k - 1] = s[k]
          BY <1>4, <4>1
        <4> QED BY <1>5, <3>1, <4>1, <4>2 DEF Nums
      <3> QED BY <1>1, <3>1, <3>2, <3>3, <3>4
    <2>2. ASSUME NEW n \in Nums(t) PROVE n \in Nums(s)
      <3>1. PICK k \in 1 .. Len(s) - 1 : n = t[k].seq
        BY <1>5, <2>2 DEF Nums
      <3>2. k \in DOMAIN s /\ k + 1 \in DOMAIN s
        BY <1>1, <3>1
      <3> QED BY <1>4, <3>1, <3>2 DEF Nums
    <2>3. s[i].seq \in Nums(s)
      BY <1>1 DEF Nums
    <2> QED BY <2>1, <2>2, <2>3
  <1>7. Rising(t)
    <2>1. ASSUME NEW k \in 1 .. Len(s) - 1, NEW j \in 1 .. Len(s) - 1, k < j
          PROVE  t[k].seq < t[j].seq
      <3> DEFINE k1 == IF k < i THEN k ELSE k + 1
                 j1 == IF j < i THEN j ELSE j + 1
      <3>1. t[k] = s[k1] /\ t[j] = s[j1]
        BY <1>4
      <3>2. k1 \in DOMAIN s /\ j1 \in DOMAIN s /\ k1 < j1
        BY <1>1, <2>1
      <3> QED BY <3>1, <3>2 DEF Rising
    <2> QED BY <1>5, <2>1 DEF Rising
  <1> QED BY <1>4, <1>6, <1>7 DEF t

(* As many packets as numbers.                                             *)
LEMMA CountNums ==
    ASSUME NEW s \in Seq(Packet), Rising(s)
    PROVE  IsFiniteSet(Nums(s)) /\ Cardinality(Nums(s)) = Len(s)
  <1>1. Len(s) \in Nat /\ DOMAIN s = 1 .. Len(s)
    BY LenProperties
  <1>2. IsFiniteSet(1 .. Len(s)) /\ Cardinality(1 .. Len(s)) = Len(s)
    BY <1>1, FS_Interval
  <1> DEFINE f == [i \in 1 .. Len(s) |-> s[i].seq]
  <1>3. f \in [1 .. Len(s) -> Nums(s)]
    BY <1>1 DEF Nums
  <1>4. \A i, j \in 1 .. Len(s) : i # j => f[i] # f[j]
    <2>1. ASSUME NEW i \in 1 .. Len(s), NEW j \in 1 .. Len(s), i < j PROVE s[i].seq # s[j].seq
      <3>1. s[i].seq \in Nat /\ s[j].seq \in Nat /\ s[i].seq < s[j].seq
        BY <1>1, <2>1, NumsTyped DEF Rising
      <3> QED BY <3>1
    <2> QED BY <1>1, <2>1
  <1>5. \A n \in Nums(s) : \E i \in 1 .. Len(s) : f[i] = n
    BY <1>1 DEF Nums
  <1>6. f \in Bijection(1 .. Len(s), Nums(s))
    <2> HIDE DEF f
    <2> QED BY <1>3, <1>4, <1>5 DEF Bijection, Injection, Surjection, IsInjective
  <1>7. ExistsBijection(1 .. Len(s), Nums(s))
    BY <1>6 DEF ExistsBijection
  <1> QED BY <1>2, <1>7, FS_Bijection

-----------------------------------------------------------------------------
(* The sizes are numbers.                                                  *)
LEMMA Sizes ==
    /\ QueueSize \in Nat \ {0} /\ BatchSize \in Nat \ {0} /\ SamplingRate \in Nat \ {0}
    /\ MaxFails \in Nat \ {0} /\ FirstDelay \in Nat \ {0} /\ MaxDelay \in Nat \ {0}
    /\ FirstDelay <= MaxDelay
    /\ MaxRead \in Nat
  <1>1. Len(Source) \in Nat
    BY FramesAssumption, LenProperties
  <1> QED BY <1>1, FramesAssumption DEF MaxRead

(* The fields of the reader, and the delay that is doubled up to its limit.*)
LEMMA ReaderFields ==
    ASSUME reader \in Readers
    PROVE  /\ reader.pc \in {"open", "wait", "read", "push", "drop", "done"} /\ reader.file \in BOOLEAN
           /\ reader.delay \in FirstDelay .. MaxDelay
           /\ reader.fails \in Nat /\ reader.index \in Nat /\ reader.sampled \in Nat
           /\ reader.read \in Nat /\ reader.read <= MaxRead
           /\ reader.packet \in Packet \cup {NoPacket}
           /\ FirstDelay \in FirstDelay .. MaxDelay
           /\ Doubled(reader.delay) \in FirstDelay .. MaxDelay
  <1>1. /\ reader.pc \in {"open", "wait", "read", "push", "drop", "done"} /\ reader.file \in BOOLEAN
        /\ reader.delay \in FirstDelay .. MaxDelay
        /\ reader.fails \in Nat /\ reader.index \in Nat /\ reader.sampled \in Nat
        /\ reader.read \in 0 .. MaxRead
        /\ reader.packet \in Packet \cup {NoPacket}
    BY DEF Readers
  <1>2. reader.read \in Nat /\ reader.read <= MaxRead
    BY <1>1, Sizes
  <1>3. FirstDelay \in FirstDelay .. MaxDelay
    BY Sizes
  <1>4. Doubled(reader.delay) \in FirstDelay .. MaxDelay
    <2> DEFINE d == reader.delay
    <2>1. d \in Nat /\ FirstDelay <= d /\ d <= MaxDelay
      BY <1>1, Sizes
    <2> HIDE DEF d
    <2>2. Doubled(d) \in FirstDelay .. MaxDelay
      BY <2>1, Sizes DEF Doubled
    <2> QED BY <2>2 DEF d
  <1> QED BY <1>1, <1>2, <1>3, <1>4

(* A step that moves no frame.                                             *)
Still ==
    /\ UNCHANGED <<queue, handled, dropped, gone>>
    /\ task'.batch = task.batch
    /\ reader'.sampled = reader.sampled
    /\ InHand' <=> InHand
    /\ InHand => reader'.packet = reader.packet
    /\ reader'.pc = "drop" => Cardinality(dropped) + QueueSize + 1 <= reader.sampled

LEMMA StillKeeps ==
    ASSUME InLine, Accounted, Still
    PROVE  InLine' /\ Accounted'
  <1>1. InLine'
    BY DEF InLine, Still, Handled
  <1>2. Accounted'
    BY DEF Accounted, Still, Handled
  <1> QED BY <1>1, <1>2

(* The reader opens, waits and fails to read.                              *)
LEMMA OpeningKeeps ==
    ASSUME FramesInvariant, Open \/ OpenFails \/ Waited \/ ReadFails
    PROVE  FramesInvariant'
  <1> USE DEF FramesInvariant
  <1>1. UNCHANGED <<queue, task, engine, handled, dropped, gone>>
    BY DEF Open, OpenFails, Waited, ReadFails
  <1>2. /\ reader.delay \in FirstDelay .. MaxDelay /\ FirstDelay \in FirstDelay .. MaxDelay
        /\ Doubled(reader.delay) \in FirstDelay .. MaxDelay
        /\ reader.fails \in Nat /\ reader.file \in BOOLEAN /\ reader \in Readers
    BY ReaderFields DEF Typed
  <1>3. PICK pc \in {"open", "wait", "read"}, delay \in FirstDelay .. MaxDelay, fails \in Nat, index \in Nat :
            /\ reader' = [reader EXCEPT !.pc = pc, !.delay = delay, !.fails = fails, !.index = index]
            /\ fails <= MaxFails
            /\ pc = "read" => IF reader.file THEN fails = 0 ELSE fails < MaxFails
    <2>1. reader.index \in Nat /\ reader.fails <= MaxFails
      BY ReaderFields DEF Typed, Bounded
    <2>2. CASE Open
      <3>1. reader' = [reader EXCEPT !.pc = "read", !.delay = FirstDelay, !.fails = 0, !.index = 0]
        BY <2>2 DEF Open
      <3>2. 0 <= MaxFails /\ 0 < MaxFails
        BY Sizes
      <3> QED BY <1>2, <3>1, <3>2
    <2>3. CASE OpenFails
      <3>1. reader' = [reader EXCEPT !.pc = "wait", !.delay = Doubled(reader.delay),
                       !.fails = reader.fails, !.index = reader.index]
        BY <1>2, <2>3 DEF OpenFails, Readers
      <3> QED BY <1>2, <2>1, <3>1
    <2>4. CASE Waited
      <3>1. reader' = [reader EXCEPT !.pc = "open", !.delay = reader.delay,
                       !.fails = reader.fails, !.index = reader.index]
        BY <1>2, <2>4 DEF Waited, Readers
      <3> QED BY <1>2, <2>1, <3>1
    <2>5. CASE ReadFails
      <3> DEFINE to == IF ~reader.file THEN (IF reader.fails + 1 >= MaxFails THEN "open" ELSE "read")
                       ELSE IF reader.index > LoopMin THEN "open" ELSE "wait"
                 next == IF reader.file /\ reader.index <= LoopMin THEN Doubled(reader.delay) ELSE reader.delay
      <3>1. /\ reader.pc = "read"
            /\ reader' = [reader EXCEPT !.pc = to, !.delay = next,
                           !.fails = reader.fails + 1, !.index = reader.index]
        BY <1>2, <2>5 DEF ReadFails, Readers
      <3>2. reader.fails + 1 \in Nat /\ reader.fails + 1 <= MaxFails
        <4>1. IF reader.file THEN reader.fails = 0 ELSE reader.fails < MaxFails
          BY <3>1 DEF Bounded
        <4> QED BY <1>2, <4>1, Sizes
      <3>3. to \in {"open", "wait", "read"} /\ (to = "read" => ~reader.file /\ reader.fails + 1 < MaxFails)
        BY <3>2, Sizes
      <3>4. next \in FirstDelay .. MaxDelay
        BY <1>2
      <3> HIDE DEF to, next
      <3> QED BY <2>1, <3>1, <3>2, <3>3, <3>4
    <2> QED BY <2>2, <2>3, <2>4, <2>5
  <1>4. /\ reader' \in Readers
        /\ reader'.pc = pc /\ reader'.file = reader.file /\ reader'.fails = fails
        /\ reader'.sampled = reader.sampled /\ reader'.read = reader.read
    BY <1>2, <1>3 DEF Readers
  <1>5. reader.pc \in {"open", "wait", "read"}
    BY DEF Open, OpenFails, Waited, ReadFails
  <1>6. ~InHand /\ ~InHand' /\ reader'.pc # "drop"
    BY <1>3, <1>4, <1>5 DEF InHand
  <1>7. Typed' /\ Bounded'
    BY <1>1, <1>3, <1>4, <1>6 DEF Typed, Bounded
  <1>8. Still
    BY <1>1, <1>4, <1>6 DEF Still
  <1> QED BY <1>7, <1>8, StillKeeps

(* A frame is read; it may be one of those that are sampled.               *)
LEMMA ReadKeeps ==
    ASSUME FramesInvariant, Read
    PROVE  FramesInvariant'
  <1> USE DEF FramesInvariant
  <1> DEFINE sample == reader.index % SamplingRate = 0
  <1>1. /\ reader.pc = "read" /\ reader.read < MaxRead
        /\ reader' = [reader EXCEPT
               !.pc = IF sample THEN "push" ELSE "read",
               !.fails = 0,
               !.index = reader.index + 1,
               !.read = reader.read + 1,
               !.sampled = IF sample THEN reader.sampled + 1 ELSE reader.sampled,
               !.packet = IF sample THEN [seq |-> reader.sampled + 1, image |-> Source[reader.read + 1]]
                          ELSE NoPacket]
        /\ UNCHANGED <<queue, task, engine, handled, dropped, gone>>
    BY DEF Read
  <1>2. /\ reader.read + 1 \in 0 .. MaxRead /\ reader.sampled + 1 <= reader.read + 1
        /\ reader.sampled \in Nat /\ reader.index \in Nat /\ reader.read \in Nat
        /\ reader \in Readers /\ 0 <= MaxFails
    <2>1. /\ reader.read \in Nat /\ reader.sampled \in Nat /\ reader.index \in Nat
          /\ reader \in Readers /\ reader.sampled <= reader.read
      BY ReaderFields DEF Typed, Bounded
    <2> QED BY <1>1, <2>1, Sizes
  <1> HIDE DEF sample
  <1>3. CASE sample
    <2> DEFINE p == [seq |-> reader.sampled + 1, image |-> Source[reader.read + 1]]
    <2>1. p \in Packet /\ p.seq = reader.sampled + 1
      <3>1. reader.read + 1 \in DOMAIN Source
        <4>1. DOMAIN Source = 1 .. MaxRead
          BY FramesAssumption, LenProperties DEF MaxRead
        <4> QED BY <1>1, <1>2, <4>1, Sizes
      <3>2. Source[reader.read + 1] \in ToSet(Source)
        BY <3>1 DEF ToSet
      <3>3. reader.sampled + 1 \in 1 .. MaxRead
        BY <1>1, <1>2, Sizes
      <3> QED BY <3>2, <3>3 DEF Packet
    <2> HIDE DEF p
    <2>2. /\ reader' \in Readers /\ reader'.pc = "push" /\ reader'.fails = 0
          /\ reader'.sampled = reader.sampled + 1 /\ reader'.read = reader.read + 1
          /\ reader'.packet = p
      <3>1. reader' = [reader EXCEPT !.pc = "push", !.fails = 0, !.index = reader.index + 1,
                       !.read = reader.read + 1, !.sampled = reader.sampled + 1, !.packet = p]
        BY <1>1, <1>3 DEF p
      <3>2. reader.index + 1 \in Nat /\ reader.sampled + 1 \in Nat /\ 0 \in Nat
        BY <1>2
      <3> QED BY <1>2, <2>1, <3>1, <3>2 DEF Readers
    <2>3. Typed' /\ Bounded'
      BY <1>1, <1>2, <2>2 DEF Typed, Bounded
    <2>4. ~InHand /\ InHand'
      BY <1>1, <2>2 DEF InHand
    <2>5. \A n \in Handled \cup Nums(task.batch) \cup Nums(queue) \cup dropped \cup gone :
            n \in Nat /\ n <= reader.sampled
      <3>1. ASSUME NEW n \in 1 .. reader.sampled PROVE n \in Nat /\ n <= reader.sampled
        BY <1>2
      <3> QED BY <2>4, <3>1 DEF Accounted
    <2>6. InLine'
      <3>1. Handled' = Handled
        BY <1>1 DEF Handled
      <3>2. \A n \in Handled \cup Nums(task.batch) \cup Nums(queue) \cup dropped : n < reader'.sampled
        BY <1>2, <2>2, <2>5
      <3>3. \A n \in Handled \cup Nums(task.batch) \cup Nums(queue) \cup dropped :
                n <= reader'.sampled
        BY <1>2, <2>2, <2>5
      <3>4. reader'.packet \in Packet /\ reader'.packet.seq = reader'.sampled
        BY <2>1, <2>2
      <3>5. UNCHANGED <<queue, task, handled, dropped>>
        BY <1>1
      <3>6. (Nums(queue))' = Nums(queue) /\ (Nums(task.batch))' = Nums(task.batch)
        BY <3>5
      <3> QED BY <3>1, <3>2, <3>3, <3>4, <3>5, <3>6 DEF InLine
    <2>7. Accounted'
      <3>1. 1 .. reader.sampled + 1 = 1 .. reader.sampled \cup {reader.sampled + 1}
        BY <1>2
      <3>2. Handled' = Handled
        BY <1>1 DEF Handled
      <3>3. 1 .. reader.sampled = Handled \cup Nums(task.batch) \cup Nums(queue) \cup dropped \cup gone
        BY <2>4 DEF Accounted
      <3>4. dropped # {} => Cardinality(dropped) + QueueSize <= reader.sampled + 1
        <4>1. IsFiniteSet(1 .. reader.sampled)
          <5>1. reader.sampled \in Int /\ 1 \in Int
            BY <1>2
          <5> QED BY <5>1, FS_Interval
        <4>2. Cardinality(dropped) \in Nat
          BY <4>1, FS_Subset, FS_CardinalityType DEF Accounted
        <4>3. dropped # {} => Cardinality(dropped) + QueueSize <= reader.sampled
          BY DEF Accounted
        <4> QED BY <1>2, <4>2, <4>3, Sizes
      <3>5. dropped \subseteq 1 .. reader.sampled /\ gone \subseteq 1 .. reader.sampled
        BY DEF Accounted
      <3> QED BY <1>1, <2>2, <2>4, <3>1, <3>2, <3>3, <3>4, <3>5 DEF Accounted
    <2> QED BY <2>3, <2>6, <2>7
  <1>4. CASE ~sample
    <2>1. /\ reader' \in Readers /\ reader'.pc = "read" /\ reader'.fails = 0
          /\ reader'.sampled = reader.sampled /\ reader'.read = reader.read + 1
      <3>1. reader' = [reader EXCEPT !.pc = "read", !.fails = 0, !.index = reader.index + 1,
                       !.read = reader.read + 1, !.sampled = reader.sampled, !.packet = NoPacket]
        BY <1>1, <1>4
      <3>2. reader.index + 1 \in Nat /\ 0 \in Nat
        BY <1>2
      <3> QED BY <1>2, <3>1, <3>2 DEF Readers
    <2>2. ~InHand /\ ~InHand'
      BY <1>1, <2>1 DEF InHand
    <2>3. Typed' /\ Bounded'
      <3>1. reader'.sampled <= reader'.read /\ reader'.fails < MaxFails /\ reader'.fails <= MaxFails
        BY <1>1, <1>2, <2>1, Sizes DEF Bounded
      <3> QED BY <1>1, <2>1, <2>2, <3>1 DEF Typed, Bounded
    <2>4. Still
      BY <1>1, <2>1, <2>2 DEF Still
    <2> QED BY <2>3, <2>4, StillKeeps
  <1> QED BY <1>3, <1>4

(* The reader ends, with or without a frame in hand.                       *)
LEMMA EndedKeeps ==
    ASSUME FramesInvariant, Ended
    PROVE  FramesInvariant'
  <1> USE DEF FramesInvariant
  <1>1. /\ reader.pc \in {"open", "wait", "read", "push"}
        /\ reader' = [reader EXCEPT !.pc = "done", !.packet = NoPacket]
        /\ gone' = IF reader.pc = "push" THEN gone \cup {reader.packet.seq} ELSE gone
        /\ UNCHANGED <<queue, task, engine, handled, dropped>>
    BY DEF Ended
  <1>2. /\ reader' \in Readers /\ reader'.pc = "done"
        /\ reader'.sampled = reader.sampled /\ reader'.read = reader.read /\ reader'.fails = reader.fails
    BY <1>1 DEF Typed, Readers
  <1>4. ~InHand'
    BY <1>2 DEF InHand
  <1>3. Typed' /\ Bounded'
    BY <1>1, <1>2, <1>4 DEF Typed, Bounded
  <1>5. CASE reader.pc # "push"
    BY <1>1, <1>2, <1>3, <1>5, StillKeeps DEF Still, InHand
  <1>6. CASE reader.pc = "push"
    <2>1. InHand /\ gone' = gone \cup {reader.sampled} /\ Handled' = Handled
      BY <1>1, <1>6 DEF InHand, InLine, Handled
    <2>2. reader.sampled \in 1 .. reader.sampled
      <3>1. reader.packet \in Packet /\ reader.packet.seq = reader.sampled
        BY <2>1 DEF InLine
      <3> QED BY <3>1 DEF Packet
    <2>3. InLine'
      BY <1>1, <1>2, <1>4, <2>1 DEF InLine
    <2>4. Accounted'
      BY <1>1, <1>2, <1>4, <2>1, <2>2 DEF Accounted
    <2> QED BY <1>3, <2>3, <2>4
  <1> QED BY <1>5, <1>6

(* The frame in hand goes to the end of the queue.                         *)
LEMMA PutKeeps ==
    ASSUME FramesInvariant, Put
    PROVE  FramesInvariant'
  <1> USE DEF FramesInvariant
  <1>1. /\ reader.pc = "push" /\ Len(queue) < QueueSize
        /\ queue' = Append(queue, reader.packet)
        /\ reader' = [reader EXCEPT !.pc = "read", !.packet = NoPacket]
        /\ UNCHANGED <<task, engine, handled, dropped, gone>>
    BY DEF Put
  <1>2. InHand /\ reader.packet \in Packet /\ reader.packet.seq = reader.sampled
    BY <1>1 DEF InHand, InLine
  <1>3. /\ reader' \in Readers /\ reader'.pc = "read" /\ reader'.file = reader.file
        /\ reader'.sampled = reader.sampled /\ reader'.read = reader.read /\ reader'.fails = reader.fails
    BY <1>1 DEF Typed, Readers
  <1>4. /\ queue' \in Seq(Packet) /\ Rising(queue')
        /\ Nums(queue') = Nums(queue) \cup {reader.sampled}
        /\ Len(queue') = Len(queue) + 1
    BY <1>1, <1>2, AppendNums DEF InLine, Typed
  <1>5. Typed'
    BY <1>1, <1>3, <1>4 DEF Typed
  <1>6. ~InHand' /\ Handled' = Handled
    BY <1>1, <1>3 DEF InHand, Handled
  <1>7. reader.sampled \in Nat
    BY DEF Typed, Readers
  <1>8. InLine'
    BY <1>1, <1>2, <1>3, <1>4, <1>6, <1>7 DEF InLine
  <1>9. Accounted'
    BY <1>1, <1>2, <1>3, <1>4, <1>6 DEF Accounted
  <1>10. Bounded'
    <2>1. Len(queue') <= QueueSize
      BY <1>1, <1>4, Sizes, LenProperties DEF Typed
    <2>2. reader'.fails = 0 /\ 0 < MaxFails /\ 0 <= MaxFails
      BY <1>2, <1>3, Sizes DEF Bounded
    <2> QED BY <1>1, <1>3, <1>6, <2>1, <2>2 DEF Bounded
  <1> QED BY <1>5, <1>8, <1>9, <1>10

(* The queue is full: as many frames as it holds are newer than every one  *)
(* that was dropped, and older than the one in hand.                       *)
LEMMA PutFullKeeps ==
    ASSUME FramesInvariant, PutFull
    PROVE  FramesInvariant'
  <1> USE DEF FramesInvariant
  <1>1. /\ reader.pc = "push" /\ Len(queue) = QueueSize
        /\ reader' = [reader EXCEPT !.pc = "drop"]
        /\ UNCHANGED <<queue, task, engine, handled, dropped, gone>>
    BY DEF PutFull
  <1>2. /\ reader' \in Readers /\ reader'.pc = "drop" /\ reader'.file = reader.file
        /\ reader'.sampled = reader.sampled /\ reader'.read = reader.read /\ reader'.fails = reader.fails
        /\ reader'.packet = reader.packet
    BY <1>1 DEF Typed, Readers
  <1>3. InHand /\ InHand'
    BY <1>1, <1>2 DEF InHand
  <1>4. Typed' /\ Bounded'
    BY <1>1, <1>2, <1>3 DEF Typed, Bounded
  <1>5. Cardinality(dropped) + QueueSize + 1 <= reader.sampled
    <2> DEFINE older == 1 .. (reader.sampled - 1)
    <2>1. reader.sampled \in Nat \ {0}
      <3>1. reader.packet \in Packet /\ reader.packet.seq = reader.sampled
        BY <1>3 DEF InLine
      <3> QED BY <3>1, Sizes DEF Packet
    <2>2. IsFiniteSet(older) /\ Cardinality(older) = reader.sampled - 1
      <3>1. 1 \in Int /\ reader.sampled - 1 \in Int
        BY <2>1
      <3>2. /\ IsFiniteSet(older)
            /\ Cardinality(older) = IF 1 > reader.sampled - 1 THEN 0 ELSE reader.sampled - 1 - 1 + 1
        BY <3>1, FS_Interval
      <3> QED BY <2>1, <3>2
    <2>3. dropped \subseteq older
      BY <2>1 DEF Accounted, InLine
    <2>4. Nums(queue) \subseteq older
      <3>1. ASSUME NEW n \in Nums(queue) PROVE n \in older
        <4>1. n \in 1 .. reader.sampled
          BY <3>1 DEF Accounted
        <4>2. n < reader.sampled
          BY <1>3, <3>1 DEF InLine
        <4> QED BY <2>1, <4>1, <4>2
      <3> QED BY <3>1
    <2>5. dropped \cap Nums(queue) = {}
      <3>1. ASSUME NEW n \in dropped, n \in Nums(queue) PROVE FALSE
        <4>1. n < n /\ n \in Nat
          BY <3>1 DEF InLine, Accounted
        <4> QED BY <4>1
      <3> QED BY <3>1
    <2>6. IsFiniteSet(Nums(queue)) /\ Cardinality(Nums(queue)) = QueueSize
      BY <1>1, CountNums DEF Typed, InLine
    <2>7. IsFiniteSet(dropped) /\ Cardinality(dropped) \in Nat
      <3> HIDE DEF older
      <3> QED BY <2>2, <2>3, FS_Subset, FS_CardinalityType
    <2>8. Cardinality(dropped \cup Nums(queue)) = Cardinality(dropped) + QueueSize
      <3>1. Cardinality(dropped \cup Nums(queue))
                = Cardinality(dropped) + Cardinality(Nums(queue)) - Cardinality(dropped \cap Nums(queue))
        BY <2>6, <2>7, FS_Union
      <3>2. Cardinality({}) = 0
        BY FS_EmptySet
      <3>3. Cardinality(dropped \cup Nums(queue)) = Cardinality(dropped) + QueueSize - 0
        BY <2>5, <2>6, <3>1, <3>2
      <3> HIDE DEF older
      <3> QED BY <2>7, <3>3, Sizes
    <2>9. Cardinality(dropped \cup Nums(queue)) <= Cardinality(older)
      <3> HIDE DEF older
      <3> QED BY <2>2, <2>3, <2>4, FS_Subset
    <2> QED BY <2>1, <2>2, <2>7, <2>8, <2>9, Sizes
  <1>6. Still
    BY <1>1, <1>2, <1>3, <1>5 DEF Still
  <1> QED BY <1>4, <1>6, StillKeeps

(* The oldest frame that is queued makes room, if there is one.            *)
LEMMA DropKeeps ==
    ASSUME FramesInvariant, Drop
    PROVE  FramesInvariant'
  <1> USE DEF FramesInvariant
  <1>1. /\ reader.pc = "drop"
        /\ reader' = [reader EXCEPT !.pc = "push"]
        /\ UNCHANGED <<task, engine, handled, gone>>
    BY DEF Drop
  <1>2. /\ reader' \in Readers /\ reader'.pc = "push" /\ reader'.file = reader.file
        /\ reader'.sampled = reader.sampled /\ reader'.read = reader.read /\ reader'.fails = reader.fails
        /\ reader'.packet = reader.packet
    BY <1>1 DEF Typed, Readers
  <1>3. InHand /\ InHand'
    BY <1>1, <1>2 DEF InHand
  <1>4. CASE queue = <<>>
    <2>1. UNCHANGED <<queue, dropped>>
      BY <1>4 DEF Drop
    <2>2. Typed' /\ Bounded'
      BY <1>1, <1>2, <1>3, <2>1 DEF Typed, Bounded
    <2>3. Still
      BY <1>1, <1>2, <1>3, <2>1 DEF Still
    <2> QED BY <2>2, <2>3, StillKeeps
  <1>5. CASE queue # <<>>
    <2> DEFINE h == Head(queue).seq
    <2>1. dropped' = dropped \cup {h} /\ queue' = Tail(queue)
      BY <1>5 DEF Drop
    <2>2. /\ queue' \in Seq(Packet) /\ Rising(queue')
          /\ Nums(queue) = {h} \cup Nums(queue')
          /\ \A n \in Nums(queue') : h < n
          /\ Len(queue') = Len(queue) - 1 /\ Len(queue) \in Nat \ {0}
      BY <1>5, <2>1, TailNums DEF Typed, InLine
    <2> HIDE DEF h
    <2>3. h < reader.sampled /\ h \in 1 .. reader.sampled /\ h \notin dropped
      <3>1. h \in Nums(queue)
        BY <2>2
      <3>2. h < reader.sampled
        BY <1>3, <3>1 DEF InLine
      <3>3. h \in 1 .. reader.sampled
        BY <3>1 DEF Accounted
      <3>4. ASSUME h \in dropped PROVE FALSE
        <4>1. h < h
          BY <3>1, <3>4 DEF InLine
        <4> QED BY <3>3, <4>1
      <3> QED BY <3>2, <3>3, <3>4
    <2>4. Typed' /\ Bounded'
      <3>1. Len(queue') <= QueueSize
        BY <2>2, Sizes DEF Bounded
      <3> QED BY <1>1, <1>2, <1>3, <2>2, <3>1 DEF Typed, Bounded
    <2>5. Handled' = Handled
      BY <1>1 DEF Handled
    <2>6. InLine'
      BY <1>1, <1>2, <1>3, <2>1, <2>2, <2>3, <2>5 DEF InLine
    <2>7. Accounted'
      <3>1. IsFiniteSet(dropped) /\ Cardinality(dropped) \in Nat /\ reader.sampled \in Nat
        <4>1. reader.sampled \in Nat
          BY ReaderFields DEF Typed
        <4>2. IsFiniteSet(1 .. reader.sampled)
          <5>1. 1 \in Int /\ reader.sampled \in Int
            BY <4>1
          <5> QED BY <5>1, FS_Interval
        <4> QED BY <4>1, <4>2, FS_Subset, FS_CardinalityType DEF Accounted
      <3>2. Cardinality(dropped') = Cardinality(dropped) + 1
        BY <2>1, <2>3, <3>1, FS_AddElement
      <3>3. Cardinality(dropped') + QueueSize <= reader.sampled
        <4>1. Cardinality(dropped) + QueueSize + 1 <= reader.sampled
          BY <1>1 DEF Accounted
        <4> QED BY <3>1, <3>2, <4>1, Sizes
      <3>4. dropped' \subseteq 1 .. reader.sampled
        BY <2>1, <2>3 DEF Accounted
      <3>5. reader'.pc # "drop"
        BY <1>2
      <3>6. 1 .. reader.sampled =
                Handled \cup Nums(task.batch) \cup Nums(queue') \cup dropped' \cup gone \cup {reader.sampled}
        BY <1>3, <2>1, <2>2 DEF Accounted
      <3> QED BY <1>1, <1>2, <1>3, <2>5, <3>3, <3>4, <3>5, <3>6 DEF Accounted
    <2> QED BY <2>4, <2>6, <2>7
  <1> QED BY <1>4, <1>5

-----------------------------------------------------------------------------
(* The pipeline thread.                                                    *)

(* Frames of the batch are given up.                                       *)
LEMMA GivenUp ==
    ASSUME FramesInvariant, NEW D,
           task'.batch \in Seq(Packet), Rising(task'.batch),
           Nums(task.batch) = D \cup Nums(task'.batch), gone' = gone \cup D,
           UNCHANGED <<reader, queue, handled, dropped>>
    PROVE  InLine' /\ Accounted'
  <1>1. Handled' = Handled /\ (InHand' <=> InHand)
    BY DEF Handled, InHand
  <1>2. Nums(queue') = Nums(queue)
    OBVIOUS
  <1>3. InLine'
    BY <1>1, <1>2 DEF FramesInvariant, InLine
  <1>4. D \subseteq 1 .. reader.sampled
    BY DEF FramesInvariant, Accounted
  <1>5. Accounted'
    BY <1>1, <1>2, <1>4 DEF FramesInvariant, Accounted
  <1> QED BY <1>3, <1>5

(* A batch that waits for frames.                                          *)
LEMMA WaitingEmpty ==
    /\ Waiting.batch = <<>> /\ <<>> \in Seq(Packet) /\ Rising(<<>>) /\ Nums(<<>>) = {} /\ Len(<<>>) = 0
  <1>1. <<>> \in Seq(Packet)
    OBVIOUS
  <1>2. DOMAIN <<>> = {} /\ Len(<<>>) = 0
    OBVIOUS
  <1> QED BY <1>1, <1>2 DEF Waiting, Rising, Nums

(* The thread leaves its loop, or a call fails: the batch is gone.         *)
LEMMA LeavingKeeps ==
    ASSUME FramesInvariant, Leave \/ CallFails
    PROVE  FramesInvariant'
  <1> USE DEF FramesInvariant
  <1>1. /\ task' = Waiting \/ task' = [Waiting EXCEPT !.pc = "ended"]
        /\ gone' = gone \cup Batch
        /\ UNCHANGED <<reader, queue, engine, handled, dropped>>
    BY DEF Leave, CallFails
  <1>2. /\ task'.batch = <<>> /\ task'.pc \in {"collect", "ended"}
        /\ task' = [pc |-> task'.pc, batch |-> task'.batch, others |-> task'.others, dets |-> task'.dets,
                    tried |-> task'.tried, failed |-> task'.failed, results |-> task'.results]
    BY <1>1 DEF Waiting
  <1>3. Batch = Nums(task.batch)
    BY DEF Batch, Nums
  <1>4. Typed' /\ Bounded'
    <2>1. Len(task'.batch) <= BatchSize
      BY <1>2, WaitingEmpty, Sizes
    <2>2. InHand' <=> InHand
      BY <1>1 DEF InHand
    <2> QED BY <1>1, <1>2, <2>1, <2>2, WaitingEmpty DEF Typed, Bounded
  <1>5. InLine' /\ Accounted'
    <2>1. Nums(task.batch) = Batch \cup Nums(task'.batch) /\ Rising(task'.batch) /\ task'.batch \in Seq(Packet)
      BY <1>2, <1>3, WaitingEmpty
    <2> QED BY <1>1, <2>1, GivenUp
  <1> QED BY <1>4, <1>5

(* The oldest frame goes to the end of the batch.                          *)
LEMMA CollectKeeps ==
    ASSUME FramesInvariant, Collect
    PROVE  FramesInvariant'
  <1> USE DEF FramesInvariant
  <1> DEFINE h == Head(queue).seq
  <1>1. /\ task.pc = "collect" /\ Len(task.batch) < BatchSize /\ queue # <<>>
        /\ task' = [task EXCEPT !.batch = Append(task.batch, Head(queue))]
        /\ queue' = Tail(queue)
        /\ UNCHANGED <<reader, engine, handled, dropped, gone>>
    BY DEF Collect
  <1>2. /\ Head(queue) \in Packet /\ queue' \in Seq(Packet) /\ Rising(queue')
        /\ Nums(queue) = {h} \cup Nums(queue')
        /\ \A n \in Nums(queue') : h < n
        /\ Len(queue') = Len(queue) - 1 /\ Len(queue) \in Nat \ {0}
    BY <1>1, TailNums DEF Typed, InLine
  <1>3. task'.batch = Append(task.batch, Head(queue)) /\ task'.pc = task.pc
        /\ task' = [pc |-> task'.pc, batch |-> task'.batch, others |-> task'.others, dets |-> task'.dets,
                    tried |-> task'.tried, failed |-> task'.failed, results |-> task'.results]
    BY <1>1 DEF Typed
  <1>4. h \in Nums(queue) /\ \A n \in Nums(task.batch) : n < h
    BY <1>2 DEF InLine
  <1>5. /\ task'.batch \in Seq(Packet) /\ Rising(task'.batch)
        /\ Nums(task'.batch) = Nums(task.batch) \cup {h}
        /\ Len(task'.batch) = Len(task.batch) + 1 /\ task'.batch # <<>>
    BY <1>2, <1>3, <1>4, AppendNums DEF Typed, InLine
  <1> HIDE DEF h
  <1>6. (InHand' <=> InHand) /\ Handled' = Handled
    BY <1>1 DEF InHand, Handled
  <1>7. Typed' /\ Bounded'
    <2>1. Len(queue') <= QueueSize /\ Len(task'.batch) <= BatchSize
      BY <1>1, <1>2, <1>5, Sizes, LenProperties DEF Typed, Bounded
    <2> QED BY <1>1, <1>2, <1>3, <1>5, <1>6, <2>1 DEF Typed, Bounded
  <1>8. InLine'
    BY <1>1, <1>2, <1>4, <1>5, <1>6 DEF InLine
  <1>9. Accounted'
    BY <1>1, <1>2, <1>5, <1>6 DEF Accounted
  <1> QED BY <1>7, <1>8, <1>9

(* Those frames that encode go to the engine.                              *)
LEMMA SubmitKeeps ==
    ASSUME FramesInvariant, Submit
    PROVE  FramesInvariant'
  <1> USE DEF FramesInvariant
  <1>1. /\ task.pc = "collect" /\ task.batch # <<>>
        /\ UNCHANGED <<reader, queue, engine, handled, dropped>>
    BY DEF Submit
  <1>2. PICK i \in 0 .. Len(task.batch), others \in Others :
            LET encoded == IF i = 0 THEN task.batch ELSE RemoveAt(task.batch, i) IN
            /\ task' = IF encoded = <<>> THEN Waiting
                       ELSE [task EXCEPT !.pc = "detect", !.batch = encoded, !.others = others]
            /\ gone' = IF i = 0 THEN gone ELSE gone \cup {task.batch[i].seq}
    BY DEF Submit
  <1> DEFINE encoded == IF i = 0 THEN task.batch ELSE RemoveAt(task.batch, i)
             lost == IF i = 0 THEN {} ELSE {task.batch[i].seq}
  <1>3. Len(task.batch) \in Nat /\ Len(task.batch) <= BatchSize
    BY LenProperties DEF Typed, Bounded
  <1>4. /\ encoded \in Seq(Packet) /\ Rising(encoded)
        /\ Nums(task.batch) = lost \cup Nums(encoded)
        /\ Len(encoded) <= BatchSize
    <2>1. CASE i = 0
      BY <1>3, <2>1 DEF Typed, InLine
    <2>2. CASE i # 0
      <3>1. i \in 1 .. Len(task.batch)
        BY <1>3, <2>2
      <3>2. /\ RemoveAt(task.batch, i) \in Seq(Packet) /\ Rising(RemoveAt(task.batch, i))
            /\ Nums(task.batch) = {task.batch[i].seq} \cup Nums(RemoveAt(task.batch, i))
            /\ Len(RemoveAt(task.batch, i)) = Len(task.batch) - 1
        BY <3>1, RemoveNums DEF Typed, InLine
      <3> QED BY <1>3, <2>2, <3>2, Sizes
    <2> QED BY <2>1, <2>2
  <1>5. gone' = gone \cup lost
    BY <1>2
  <1>6. /\ task' = IF encoded = <<>> THEN Waiting
                   ELSE [task EXCEPT !.pc = "detect", !.batch = encoded, !.others = others]
    BY <1>2
  <1> HIDE DEF encoded, lost
  <1>7. /\ task'.batch = encoded
        /\ encoded = <<>> => task'.pc = "collect"
        /\ encoded # <<>> => task'.pc = "detect"
        /\ task' = [pc |-> task'.pc, batch |-> task'.batch, others |-> task'.others, dets |-> task'.dets,
                    tried |-> task'.tried, failed |-> task'.failed, results |-> task'.results]
    <2>1. CASE encoded = <<>>
      BY <1>6, <2>1 DEF Waiting
    <2>2. CASE encoded # <<>>
      BY <1>6, <2>2 DEF Typed
    <2> QED BY <2>1, <2>2
  <1>8. InHand' <=> InHand
    BY <1>1 DEF InHand
  <1>9. Typed' /\ Bounded'
    BY <1>1, <1>4, <1>7, <1>8 DEF Typed, Bounded
  <1>10. InLine' /\ Accounted'
    BY <1>1, <1>4, <1>5, <1>7, GivenUp
  <1> QED BY <1>9, <1>10

(* The engine and a stop request move no frame.                            *)
LEMMA EngineKeeps ==
    ASSUME FramesInvariant,
           DetectTogether \/ DetectTogetherFails \/ DetectEach \/ DetectEachFails
               \/ Recover \/ Embed \/ AskStop
    PROVE  FramesInvariant'
  <1> USE DEF FramesInvariant
  <1>1. UNCHANGED <<reader, queue, handled, dropped, gone>>
    BY DEF DetectTogether, DetectTogetherFails, DetectEach, DetectEachFails, Recover, Embed, AskStop
  <1>2. /\ task'.batch = task.batch
        /\ task' = [pc |-> task'.pc, batch |-> task'.batch, others |-> task'.others, dets |-> task'.dets,
                    tried |-> task'.tried, failed |-> task'.failed, results |-> task'.results]
        /\ \/ task'.pc = task.pc
           \/ /\ task'.pc \in {"detect", "embed", "recover", "handle"}
              /\ task.pc \in {"detect", "embed", "recover"}
    <2>1. CASE DetectTogether \/ DetectEach
      BY <2>1 DEF DetectTogether, DetectEach, Typed
    <2>2. CASE DetectTogetherFails \/ AskStop
      <3>1. UNCHANGED task
        BY <2>2 DEF DetectTogetherFails, AskStop, vars
      <3>2. task = [pc |-> task.pc, batch |-> task.batch, others |-> task.others, dets |-> task.dets,
                    tried |-> task.tried, failed |-> task.failed, results |-> task.results]
        BY DEF Typed
      <3>3. task' = task
        BY <3>1
      <3>4. task'.pc = task.pc /\ task'.batch = task.batch
        BY <3>1
      <3>5. task' = [pc |-> task'.pc, batch |-> task'.batch, others |-> task'.others, dets |-> task'.dets,
                     tried |-> task'.tried, failed |-> task'.failed, results |-> task'.results]
        BY <3>2, <3>3
      <3> QED BY <3>4, <3>5
    <2>3. CASE DetectEachFails
      BY <2>3 DEF DetectEachFails, Typed
    <2>4. CASE Recover
      BY <2>4 DEF Recover, Typed
    <2>5. CASE Embed
      <3>1. PICK failed, results :
                /\ task.pc = "embed"
                /\ task' = [task EXCEPT !.pc = "handle", !.failed = failed, !.results = results]
        BY <2>5 DEF Embed
      <3> QED BY <3>1 DEF Typed
    <2> QED BY <2>1, <2>2, <2>3, <2>4, <2>5
  <1>3. engine' \in [cpu : BOOLEAN, batched : BOOLEAN]
    <2>1. CASE Recover
      BY <2>1, FramesAssumption DEF Recover
    <2>2. CASE DetectTogetherFails
      BY <2>2 DEF DetectTogetherFails, Typed
    <2>3. CASE ~Recover /\ ~DetectTogetherFails
      BY <2>3 DEF DetectTogether, DetectEach, DetectEachFails, Embed, AskStop, Typed
    <2> QED BY <2>1, <2>2, <2>3
  <1>4. InHand' <=> InHand
    BY <1>1 DEF InHand
  <1>5. Typed' /\ Bounded'
    BY <1>1, <1>2, <1>3, <1>4 DEF Typed, Bounded
  <1>6. Still
    BY <1>1, <1>2, <1>4 DEF Still, Accounted
  <1> QED BY <1>5, <1>6, StillKeeps

(* The first frame of the batch is handed on.                              *)
LEMMA HandleKeeps ==
    ASSUME FramesInvariant, Handle
    PROVE  FramesInvariant'
  <1> USE DEF FramesInvariant
  <1> DEFINE h == Head(task.batch).seq
  <1>1. /\ task.pc = "handle"
        /\ handled' = Append(handled, h)
        /\ task' = IF Len(task.batch) = 1 THEN Waiting
                   ELSE [task EXCEPT !.batch = Tail(task.batch), !.results = Tail(task.results)]
        /\ UNCHANGED <<reader, queue, engine, dropped, gone>>
    BY DEF Handle
  <1>2. task.batch # <<>>
    BY <1>1 DEF Bounded
  <1>3. /\ Head(task.batch) \in Packet /\ Tail(task.batch) \in Seq(Packet) /\ Rising(Tail(task.batch))
        /\ Nums(task.batch) = {h} \cup Nums(Tail(task.batch))
        /\ \A n \in Nums(Tail(task.batch)) : h < n
        /\ Len(Tail(task.batch)) = Len(task.batch) - 1 /\ Len(task.batch) \in Nat \ {0}
    BY <1>2, TailNums DEF Typed, InLine
  <1>4. /\ task'.batch = Tail(task.batch)
        /\ \/ task'.pc = "collect"
           \/ task'.pc = "handle" /\ task'.batch # <<>>
        /\ task' = [pc |-> task'.pc, batch |-> task'.batch, others |-> task'.others, dets |-> task'.dets,
                    tried |-> task'.tried, failed |-> task'.failed, results |-> task'.results]
    <2> DEFINE t == Tail(task.batch)
               n == Len(task.batch)
    <2>1. t \in Seq(Packet) /\ Len(t) = n - 1 /\ n \in Nat \ {0}
      BY <1>3
    <2>2. CASE n = 1
      <3>1. t = <<>>
        <4>1. Len(t) = 0
          BY <2>1, <2>2
        <4> HIDE DEF t, n
        <4> QED BY <2>1, <4>1, EmptySeq
      <3>2. task' = Waiting
        BY <1>1, <2>2
      <3> HIDE DEF t
      <3>3. task'.batch = t /\ task'.pc = "collect"
        BY <3>1, <3>2 DEF Waiting
      <3> QED BY <3>2, <3>3 DEF Waiting, t
    <2>3. CASE n # 1
      <3>1. t # <<>>
        <4>1. Len(t) # 0
          BY <2>1, <2>3
        <4> HIDE DEF t, n
        <4> QED BY <2>1, <4>1, EmptySeq
      <3>2. task' = [task EXCEPT !.batch = t, !.results = Tail(task.results)]
        BY <1>1, <2>3
      <3> HIDE DEF t
      <3>3. task'.batch = t /\ task'.pc = task.pc
        BY <3>2 DEF Typed
      <3> QED BY <1>1, <3>1, <3>2, <3>3 DEF Typed, t
    <2> QED BY <2>2, <2>3
  <1>5. h \in Nat /\ h \in Nums(task.batch) /\ \A m \in Handled : m < h
    BY <1>3 DEF Packet, InLine
  <1> HIDE DEF h
  <1>6. /\ handled' \in Seq(Nat) /\ Handled' = Handled \cup {h}
        /\ \A i, j \in DOMAIN handled' : i < j => handled'[i] < handled'[j]
    <2>1. handled \in Seq(Nat) /\ Len(handled) \in Nat /\ DOMAIN handled = 1 .. Len(handled)
      BY LenProperties DEF Typed
    <2>2. /\ handled' \in Seq(Nat) /\ Len(handled') = Len(handled) + 1
          /\ \A i \in 1 .. Len(handled) : handled'[i] = handled[i]
          /\ handled'[Len(handled) + 1] = h
      BY <1>1, <1>5, <2>1, AppendProperties
    <2>3. DOMAIN handled' = 1 .. Len(handled) + 1
      BY <2>2, LenProperties
    <2>4. Handled' = Handled \cup {h}
      BY <2>1, <2>2, <2>3 DEF Handled
    <2>5. ASSUME NEW i \in 1 .. Len(handled) + 1, NEW j \in 1 .. Len(handled) + 1, i < j
          PROVE  handled'[i] < handled'[j]
      <3>1. i \in 1 .. Len(handled) /\ handled'[i] = handled[i] /\ handled[i] \in Handled
        <4>1. i \in 1 .. Len(handled)
          BY <2>1, <2>5
        <4> QED BY <2>1, <2>2, <4>1 DEF Handled
      <3>2. CASE j = Len(handled) + 1
        BY <1>5, <2>2, <3>1, <3>2
      <3>3. CASE j # Len(handled) + 1
        BY <2>1, <2>2, <2>5, <3>1, <3>3 DEF InLine
      <3> QED BY <3>2, <3>3
    <2> QED BY <2>2, <2>3, <2>4, <2>5
  <1>7. InHand' <=> InHand
    BY <1>1 DEF InHand
  <1>8. Typed' /\ Bounded'
    <2>1. Len(task'.batch) <= BatchSize
      BY <1>3, <1>4, Sizes DEF Bounded
    <2> QED BY <1>1, <1>3, <1>4, <1>6, <1>7, <2>1 DEF Typed, Bounded
  <1>9. InLine'
    <2>1. Nums(queue') = Nums(queue)
      BY <1>1
    <2> QED BY <1>1, <1>3, <1>4, <1>5, <1>6, <1>7, <2>1 DEF InLine
  <1>10. Accounted'
    <2>1. Nums(queue') = Nums(queue)
      BY <1>1
    <2> QED BY <1>1, <1>3, <1>4, <1>6, <1>7, <2>1 DEF Accounted
  <1> QED BY <1>8, <1>9, <1>10

-----------------------------------------------------------------------------
(* Nothing is read yet.                                                    *)
LEMMA InitKeeps ==
    ASSUME Init
    PROVE  FramesInvariant
  <1>1. reader \in Readers /\ reader.pc = "open" /\ reader.fails = 0 /\ reader.sampled = 0 /\ reader.read = 0
    <2>1. FirstDelay \in FirstDelay .. MaxDelay /\ 0 \in 0 .. MaxRead /\ 0 \in Nat
      BY Sizes
    <2> QED BY <2>1 DEF Init, Readers
  <1>2. /\ queue = <<>> /\ handled = <<>> /\ task.batch = <<>> /\ task.pc = "collect"
        /\ task = [pc |-> task.pc, batch |-> task.batch, others |-> task.others, dets |-> task.dets,
                   tried |-> task.tried, failed |-> task.failed, results |-> task.results]
        /\ dropped = {} /\ gone = {}
    BY DEF Init, Waiting
  <1>3. ~InHand
    BY <1>1 DEF InHand
  <1>4. engine \in [cpu : BOOLEAN, batched : BOOLEAN]
    BY FramesAssumption DEF Init
  <1>5. handled \in Seq(Nat) /\ DOMAIN handled = {} /\ Handled = {}
    <2>1. <<>> \in Seq(Nat)
      OBVIOUS
    <2>2. DOMAIN <<>> = {}
      OBVIOUS
    <2> QED BY <1>2, <2>1, <2>2 DEF Handled
  <1>6. Typed
    BY <1>1, <1>2, <1>4, <1>5, WaitingEmpty DEF Typed
  <1>7. Bounded
    BY <1>1, <1>2, <1>3, WaitingEmpty, Sizes DEF Bounded
  <1>8. InLine
    BY <1>2, <1>3, <1>5, WaitingEmpty DEF InLine
  <1>9. Accounted
    <2>1. 1 .. reader.sampled = {}
      BY <1>1
    <2> QED BY <1>1, <1>2, <1>3, <1>5, <2>1, WaitingEmpty DEF Accounted
  <1> QED BY <1>6, <1>7, <1>8, <1>9 DEF FramesInvariant

(* Every step keeps the invariant.                                         *)
LEMMA NextKeeps ==
    ASSUME FramesInvariant, [Next]_vars
    PROVE  FramesInvariant'
  <1>1. CASE Open \/ OpenFails \/ Waited \/ ReadFails
    BY <1>1, OpeningKeeps
  <1>2. CASE Ended
    BY <1>2, EndedKeeps
  <1>3. CASE Read
    BY <1>3, ReadKeeps
  <1>4. CASE Put
    BY <1>4, PutKeeps
  <1>5. CASE PutFull
    BY <1>5, PutFullKeeps
  <1>6. CASE Drop
    BY <1>6, DropKeeps
  <1>7. CASE Leave \/ CallFails
    BY <1>7, LeavingKeeps
  <1>8. CASE Collect
    BY <1>8, CollectKeeps
  <1>9. CASE Submit
    BY <1>9, SubmitKeeps
  <1>10. CASE DetectTogether \/ DetectTogetherFails \/ DetectEach \/ DetectEachFails
                 \/ Recover \/ Embed \/ AskStop
    BY <1>10, EngineKeeps
  <1>11. CASE Handle
    BY <1>11, HandleKeeps
  <1>12. CASE UNCHANGED vars
    BY <1>12 DEF vars, FramesInvariant, Typed, Bounded, InLine, Accounted, InHand, Handled
  <1> QED BY <1>1, <1>2, <1>3, <1>4, <1>5, <1>6, <1>7, <1>8, <1>9, <1>10, <1>11, <1>12
          DEF Next, ReaderStep, TaskStep

(* The invariant holds of frame_reader.py and pipeline.py as modelled.     *)
THEOREM FramesInvariantHolds == Spec => []FramesInvariant
  <1>1. Init => FramesInvariant
    BY InitKeeps
  <1>2. FramesInvariant /\ [Next]_vars => FramesInvariant'
    BY NextKeeps
  <1> QED BY <1>1, <1>2, PTL DEF Spec

(* Every variable keeps its type; the queue and the batch keep their sizes.*)
THEOREM FramesTypeCorrect == Spec => []TypeOK
  <1>1. ASSUME FramesInvariant PROVE TypeOK
    <2>1. /\ reader.pc \in {"open", "wait", "read", "push", "drop", "done"}
          /\ reader.delay \in FirstDelay .. MaxDelay /\ reader.fails \in Nat
      BY <1>1, ReaderFields DEF FramesInvariant, Typed
    <2>2. reader.fails \in 0 .. MaxRead + MaxFails
      BY <1>1, <2>1, Sizes DEF FramesInvariant, Bounded
    <2> QED BY <1>1, <2>1, <2>2 DEF TypeOK, FramesInvariant, Typed, Bounded
  <1> QED BY <1>1, FramesInvariantHolds, PTL

-----------------------------------------------------------------------------
(* The line as one sequence.                                               *)
Ascending(s) == \A i, j \in DOMAIN s : i < j => s[i] < s[j]

(* Two ascending parts make an ascending whole if one comes before the     *)
(* other.                                                                  *)
LEMMA Concatenated ==
    ASSUME NEW s \in Seq(Nat), NEW t \in Seq(Nat), Ascending(s), Ascending(t),
           \A m \in ToSet(s), n \in ToSet(t) : m < n
    PROVE  /\ s \o t \in Seq(Nat) /\ Ascending(s \o t)
           /\ ToSet(s \o t) = ToSet(s) \cup ToSet(t)
  <1> DEFINE u == s \o t
  <1>1. /\ Len(s) \in Nat /\ DOMAIN s = 1 .. Len(s)
        /\ Len(t) \in Nat /\ DOMAIN t = 1 .. Len(t)
    BY LenProperties
  <1>2. /\ u \in Seq(Nat) /\ Len(u) = Len(s) + Len(t)
        /\ \A i \in 1 .. Len(s) + Len(t) : u[i] = IF i <= Len(s) THEN s[i] ELSE t[i - Len(s)]
    BY ConcatProperties
  <1> HIDE DEF u
  <1>3. DOMAIN u = 1 .. Len(s) + Len(t)
    BY <1>2, LenProperties
  <1>4. ASSUME NEW i \in DOMAIN u
        PROVE  \/ i \in DOMAIN s /\ u[i] = s[i] /\ s[i] \in ToSet(s)
               \/ i > Len(s) /\ i - Len(s) \in DOMAIN t /\ u[i] = t[i - Len(s)] /\ t[i - Len(s)] \in ToSet(t)
    <2>1. CASE i <= Len(s)
      BY <1>1, <1>2, <1>3, <2>1 DEF ToSet
    <2>2. CASE ~(i <= Len(s))
      <3>1. i - Len(s) \in DOMAIN t /\ i > Len(s)
        BY <1>1, <1>3, <2>2
      <3>2. u[i] = t[i - Len(s)]
        BY <1>2, <1>3, <2>2
      <3> QED BY <3>1, <3>2 DEF ToSet
    <2> QED BY <2>1, <2>2
  <1>5. ToSet(u) = ToSet(s) \cup ToSet(t)
    <2>1. ASSUME NEW n \in ToSet(u) PROVE n \in ToSet(s) \cup ToSet(t)
      BY <1>4, <2>1 DEF ToSet
    <2>2. ASSUME NEW n \in ToSet(s) PROVE n \in ToSet(u)
      <3>1. PICK i \in 1 .. Len(s) : n = s[i]
        BY <1>1, <2>2 DEF ToSet
      <3>2. i \in DOMAIN u /\ u[i] = s[i]
        BY <1>1, <1>2, <1>3, <3>1
      <3> QED BY <3>1, <3>2 DEF ToSet
    <2>3. ASSUME NEW n \in ToSet(t) PROVE n \in ToSet(u)
      <3>1. PICK i \in 1 .. Len(t) : n = t[i]
        BY <1>1, <2>3 DEF ToSet
      <3>2. i + Len(s) \in DOMAIN u /\ ~(i + Len(s) <= Len(s)) /\ i + Len(s) - Len(s) = i
        BY <1>1, <1>3, <3>1
      <3>3. u[i + Len(s)] = t[i]
        <4>1. i + Len(s) \in 1 .. Len(s) + Len(t)
          BY <1>3, <3>2
        <4>2. u[i + Len(s)] = t[i + Len(s) - Len(s)]
          BY <1>2, <3>2, <4>1
        <4> QED BY <3>2, <4>2
      <3> QED BY <3>1, <3>2, <3>3 DEF ToSet
    <2> QED BY <2>1, <2>2, <2>3
  <1>6. ASSUME NEW i \in DOMAIN u, NEW j \in DOMAIN u, i < j PROVE u[i] < u[j]
    <2>1. CASE j \in DOMAIN s /\ u[j] = s[j]
      <3>1. i \in DOMAIN s /\ u[i] = s[i]
        BY <1>1, <1>2, <1>3, <1>6, <2>1
      <3> QED BY <1>6, <2>1, <3>1 DEF Ascending
    <2>2. CASE /\ j > Len(s) /\ j - Len(s) \in DOMAIN t /\ u[j] = t[j - Len(s)]
               /\ t[j - Len(s)] \in ToSet(t)
      <3>1. CASE i \in DOMAIN s /\ u[i] = s[i] /\ s[i] \in ToSet(s)
        BY <2>2, <3>1
      <3>2. CASE i > Len(s) /\ i - Len(s) \in DOMAIN t /\ u[i] = t[i - Len(s)]
        <4>1. i - Len(s) < j - Len(s)
          BY <1>1, <1>3, <1>6
        <4> QED BY <2>2, <3>2, <4>1 DEF Ascending
      <3> QED BY <1>4, <3>1, <3>2
    <2> QED BY <1>4, <2>1, <2>2
  <1>7. Ascending(u)
    BY <1>6 DEF Ascending
  <1> QED BY <1>2, <1>5, <1>7 DEF u

(* The numbers of packets, as a sequence.                                  *)
LEMMA NumbersOf ==
    ASSUME NEW s \in Seq(Packet), Rising(s)
    PROVE  Numbers(s) \in Seq(Nat) /\ Ascending(Numbers(s)) /\ ToSet(Numbers(s)) = Nums(s)
  <1>1. DOMAIN s = 1 .. Len(s) /\ Len(s) \in Nat /\ \A i \in 1 .. Len(s) : s[i].seq \in Nat
    BY NumsTyped
  <1>2. Numbers(s) = [i \in 1 .. Len(s) |-> s[i].seq]
    BY <1>1 DEF Numbers
  <1>3. Numbers(s) \in [1 .. Len(s) -> Nat]
    BY <1>1, <1>2
  <1>4. Numbers(s) \in Seq(Nat)
    BY <1>1, <1>3, IsASeq
  <1>5. DOMAIN Numbers(s) = DOMAIN s /\ \A i \in DOMAIN s : Numbers(s)[i] = s[i].seq
    BY <1>1, <1>2
  <1> QED BY <1>4, <1>5 DEF Ascending, Rising, ToSet, Nums

(* The whole line ascends and holds the frames that are on their way.      *)
LEMMA LineAscends ==
    ASSUME FramesInvariant
    PROVE  /\ Ascending(Line)
           /\ ToSet(Line) = Handled \cup Nums(task.batch) \cup Nums(queue)
                                \cup IF InHand THEN {reader.sampled} ELSE {}
  <1> USE DEF FramesInvariant
  <1>1. handled \in Seq(Nat) /\ Ascending(handled) /\ ToSet(handled) = Handled
    BY DEF Typed, InLine, Ascending, ToSet, Handled
  <1>2. /\ Numbers(task.batch) \in Seq(Nat) /\ Ascending(Numbers(task.batch))
        /\ ToSet(Numbers(task.batch)) = Nums(task.batch)
    BY NumbersOf DEF Typed, InLine
  <1>3. /\ Numbers(queue) \in Seq(Nat) /\ Ascending(Numbers(queue))
        /\ ToSet(Numbers(queue)) = Nums(queue)
    BY NumbersOf DEF Typed, InLine
  <1>4. /\ Numbers(Hand) \in Seq(Nat) /\ Ascending(Numbers(Hand))
        /\ ToSet(Numbers(Hand)) = IF InHand THEN {reader.sampled} ELSE {}
    <2>1. CASE InHand
      <3>1. reader.packet \in Packet /\ reader.packet.seq = reader.sampled
        BY <2>1 DEF InLine
      <3>2. Hand = <<reader.packet>> /\ Hand \in Seq(Packet) /\ DOMAIN Hand = {1} /\ Hand[1] = reader.packet
        BY <2>1, <3>1 DEF Hand
      <3>3. Rising(Hand) /\ Nums(Hand) = {reader.sampled}
        BY <3>1, <3>2 DEF Rising, Nums
      <3> QED BY <2>1, <3>2, <3>3, NumbersOf
    <2>2. CASE ~InHand
      <3>1. Hand = <<>>
        BY <2>2 DEF Hand
      <3> QED BY <2>2, <3>1, WaitingEmpty, NumbersOf
    <2> QED BY <2>1, <2>2
  <1> DEFINE a == handled \o Numbers(task.batch)
             b == a \o Numbers(queue)
  <1>5. a \in Seq(Nat) /\ Ascending(a) /\ ToSet(a) = Handled \cup Nums(task.batch)
    <2>1. \A m \in Handled, n \in Nums(task.batch) : m < n
      BY DEF InLine
    <2> QED BY <1>1, <1>2, <2>1, Concatenated
  <1> HIDE DEF a
  <1>6. b \in Seq(Nat) /\ Ascending(b) /\ ToSet(b) = Handled \cup Nums(task.batch) \cup Nums(queue)
    <2>1. \A m \in ToSet(a), n \in Nums(queue) : m < n
      BY <1>5 DEF InLine
    <2> QED BY <1>3, <1>5, <2>1, Concatenated
  <1> HIDE DEF b
  <1>7. \A m \in ToSet(b), n \in ToSet(Numbers(Hand)) : m < n
    BY <1>4, <1>6 DEF InLine
  <1>8. Line = b \o Numbers(Hand)
    BY DEF Line, a, b
  <1> QED BY <1>4, <1>6, <1>7, <1>8, Concatenated

(* Frames are handed on in the order they were read, none twice, and those *)
(* that made room are older than those that wait.                          *)
THEOREM FramesInOrder == Spec => []InOrder
  <1>1. ASSUME FramesInvariant PROVE InOrder
    <2>1. \A n \in dropped, i \in DOMAIN queue : n < queue[i].seq
      BY <1>1 DEF FramesInvariant, InLine, Nums
    <2> QED BY <1>1, <2>1, LineAscends DEF InOrder, Ascending
  <1> QED BY <1>1, FramesInvariantHolds, PTL

(* No frame disappears, and the queue gives up the old ones for the new.   *)
THEOREM FramesNewestKept == Spec => []NewestKept
  <1>1. ASSUME FramesInvariant PROVE NewestKept
    <2>1. ToSet(Line) = Handled \cup Nums(task.batch) \cup Nums(queue)
                           \cup IF InHand THEN {reader.sampled} ELSE {}
      BY <1>1, LineAscends
    <2>2. 1 .. reader.sampled = ToSet(Line) \cup dropped \cup gone
      BY <1>1, <2>1 DEF FramesInvariant, Accounted
    <2>3. reader.sampled \notin dropped
      <3>1. ASSUME reader.sampled \in dropped PROVE FALSE
        <4>1. reader.sampled < reader.sampled /\ reader.sampled \in Nat
          BY <1>1, <3>1, ReaderFields DEF FramesInvariant, Typed, InLine
        <4> QED BY <4>1
      <3> QED BY <3>1
    <2> QED BY <1>1, <2>2, <2>3 DEF NewestKept, FramesInvariant, Accounted
  <1> QED BY <1>1, FramesInvariantHolds, PTL

-----------------------------------------------------------------------------
(* The engine's order and selection.                                       *)

(* R is a strict linear order on S.                                        *)
Linear(R, S) ==
    /\ \A x \in S : <<x, x>> \notin R
    /\ \A x, y, z \in S : <<x, y>> \in R /\ <<y, z>> \in R => <<x, z>> \in R
    /\ \A x, y \in S : x = y \/ <<x, y>> \in R \/ <<y, x>> \in R

(* Arranging a set loses nobody, and goes by the order.                    *)
LEMMA ArrangedInOrder ==
    ASSUME NEW S, IsFiniteSet(S), NEW R, Linear(R, S)
    PROVE  /\ Arranged(S, R) \in [1 .. Cardinality(S) -> S]
           /\ \A m, n \in 1 .. Cardinality(S) :
                m < n => <<Arranged(S, R)[m], Arranged(S, R)[n]>> \in R
  <1> DEFINE N == Cardinality(S)
             Below(x) == {y \in S : <<y, x>> \in R}
             rank == [x \in S |-> Cardinality(Below(x))]
  <1>1. N \in Nat
    BY FS_CardinalityType
  <1>2. ASSUME NEW x \in S PROVE IsFiniteSet(Below(x)) /\ rank[x] \in 0 .. N - 1
    <2>1. IsFiniteSet(S \ {x}) /\ Cardinality(S \ {x}) = N - 1
      BY FS_RemoveElement
    <2>2. Below(x) \in SUBSET (S \ {x})
      BY DEF Linear
    <2>3. IsFiniteSet(Below(x)) /\ Cardinality(Below(x)) <= N - 1
      <3> HIDE DEF Below, N
      <3>1. IsFiniteSet(Below(x)) /\ Cardinality(Below(x)) <= Cardinality(S \ {x})
        BY <2>1, <2>2, FS_Subset
      <3> QED BY <2>1, <3>1
    <2>4. Cardinality(Below(x)) \in Nat
      BY <2>3, FS_CardinalityType
    <2> QED BY <1>1, <2>3, <2>4
  <1>3. ASSUME NEW x \in S, NEW y \in S, <<x, y>> \in R PROVE rank[x] < rank[y]
    <2>1. Below(x) \in SUBSET Below(y) /\ x \in Below(y) /\ x \notin Below(x)
      BY <1>3 DEF Linear
    <2>2. /\ IsFiniteSet(Below(y)) /\ Cardinality(Below(x)) <= Cardinality(Below(y))
          /\ Cardinality(Below(x)) # Cardinality(Below(y))
      BY <1>2, <2>1, FS_Subset
    <2> QED BY <1>1, <1>2, <2>2
  <1>4. rank \in Injection(S, 0 .. N - 1)
    <2>1. rank \in [S -> 0 .. N - 1]
      BY <1>2
    <2>2. ASSUME NEW x \in S, NEW y \in S, rank[x] = rank[y] PROVE x = y
      <3>1. ~(rank[x] < rank[y]) /\ ~(rank[y] < rank[x])
        BY <1>1, <1>2, <2>2
      <3> HIDE DEF rank
      <3> QED BY <1>3, <3>1 DEF Linear
    <2> HIDE DEF rank
    <2> QED BY <2>1, <2>2 DEF Injection, IsInjective
  <1>5. rank \in Surjection(S, 0 .. N - 1)
    <2>1. IsFiniteSet(0 .. N - 1) /\ Cardinality(0 .. N - 1) = N
      BY <1>1, FS_Interval
    <2> HIDE DEF rank
    <2> QED BY <1>4, <2>1, FS_Injection
  <1>6. ASSUME NEW n \in 1 .. N PROVE Arranged(S, R)[n] \in S /\ rank[Arranged(S, R)[n]] = n - 1
    <2>1. \E x \in S : rank[x] = n - 1
      <3>1. n - 1 \in 0 .. N - 1
        BY <1>1
      <3> HIDE DEF rank
      <3> QED BY <1>5, <3>1 DEF Surjection
    <2>2. Arranged(S, R)[n] = CHOOSE x \in S : Cardinality(Below(x)) = n - 1
      BY DEF Arranged
    <2> QED BY <2>1, <2>2
  <1>7. ASSUME NEW m \in 1 .. N, NEW n \in 1 .. N, m < n
        PROVE  <<Arranged(S, R)[m], Arranged(S, R)[n]>> \in R
    <2> DEFINE x == Arranged(S, R)[m]
               y == Arranged(S, R)[n]
    <2>1. x \in S /\ y \in S /\ rank[x] = m - 1 /\ rank[y] = n - 1
      BY <1>6
    <2> SUFFICES <<x, y>> \in R
      OBVIOUS
    <2> HIDE DEF x, y, rank
    <2>2. x # y /\ ~(rank[y] < rank[x])
      BY <1>1, <1>7, <2>1
    <2>3. <<x, y>> \in R \/ <<y, x>> \in R
      BY <2>1, <2>2 DEF Linear
    <2> QED BY <1>3, <2>1, <2>2, <2>3
  <1> DEFINE F(n) == CHOOSE x \in S : Cardinality(Below(x)) = n - 1
             A == Arranged(S, R)
  <1>8. A = [n \in 1 .. N |-> F(n)]
    BY DEF Arranged
  <1>9. A \in [1 .. N -> S]
    <2>1. \A n \in 1 .. N : A[n] \in S
      BY <1>6
    <2> HIDE DEF A, F
    <2> QED BY <1>8, <2>1
  <1> QED BY <1>7, <1>9

(* A stable sort by value.                                                 *)
LEMMA ByValueSorts ==
    ASSUME NEW K \in SUBSET Nat, IsFiniteSet(K), NEW value \in [K -> Int]
    PROVE  /\ ByValue(K, value) \in [1 .. Cardinality(K) -> K]
           /\ \A m, n \in 1 .. Cardinality(K) :
                m < n => value[ByValue(K, value)[m]] >= value[ByValue(K, value)[n]]
           /\ Cardinality(K) \in Nat
  <1> DEFINE R == {ij \in K \X K : \/ value[ij[1]] > value[ij[2]]
                                   \/ value[ij[1]] = value[ij[2]] /\ ij[1] < ij[2]}
  <1>1. ASSUME NEW i \in K, NEW j \in K
        PROVE  <<i, j>> \in R <=> (value[i] > value[j] \/ (value[i] = value[j] /\ i < j))
    OBVIOUS
  <1>2. ByValue(K, value) = Arranged(K, R)
    BY DEF ByValue
  <1>3. \A i \in K : i \in Int /\ value[i] \in Int
    OBVIOUS
  <1> HIDE DEF R
  <1>4. Linear(R, K)
    BY <1>1, <1>3 DEF Linear
  <1>5. /\ Arranged(K, R) \in [1 .. Cardinality(K) -> K]
        /\ \A m, n \in 1 .. Cardinality(K) :
             m < n => <<Arranged(K, R)[m], Arranged(K, R)[n]>> \in R
    BY <1>4, ArrangedInOrder
  <1>6. Cardinality(K) \in Nat
    BY FS_CardinalityType
  <1>7. ASSUME NEW m \in 1 .. Cardinality(K), NEW n \in 1 .. Cardinality(K), m < n
        PROVE  value[Arranged(K, R)[m]] >= value[Arranged(K, R)[n]]
    <2>1. Arranged(K, R)[m] \in K /\ Arranged(K, R)[n] \in K
      BY <1>5
    <2>2. <<Arranged(K, R)[m], Arranged(K, R)[n]>> \in R
      BY <1>5, <1>7
    <2>3. \A i, j \in K : <<i, j>> \in R => value[i] >= value[j]
      BY <1>1, <1>3
    <2> QED BY <2>1, <2>2, <2>3, Zenon
  <1> QED BY <1>2, <1>5, <1>6, <1>7

(* Nothing left out, nothing moves.                                        *)
LEMMA AllInTurn ==
    ASSUME NEW n \in Nat
    PROVE  InTurn(1 .. n) = [k \in 1 .. n |-> k]
  <1> DEFINE K == 1 .. n
             value == [k \in K |-> 0]
             R == {ij \in K \X K : \/ value[ij[1]] > value[ij[2]]
                                   \/ value[ij[1]] = value[ij[2]] /\ ij[1] < ij[2]}
  <1>1. Cardinality(K) = n
    BY FS_Interval
  <1>2. ASSUME NEW x \in K PROVE Cardinality({y \in K : <<y, x>> \in R}) = x - 1
    <2>1. {y \in K : <<y, x>> \in R} = 1 .. (x - 1)
      OBVIOUS
    <2>2. Cardinality(1 .. (x - 1)) = x - 1
      BY FS_Interval
    <2> QED BY <2>1, <2>2
  <1>3. InTurn(K) = [p \in 1 .. n |-> CHOOSE x \in K : Cardinality({y \in K : <<y, x>> \in R}) = p - 1]
    BY <1>1 DEF InTurn, ByValue, Arranged
  <1> HIDE DEF R
  <1>4. ASSUME NEW p \in 1 .. n
        PROVE  (CHOOSE x \in K : Cardinality({y \in K : <<y, x>> \in R}) = p - 1) = p
    BY <1>2
  <1> QED BY <1>3, <1>4

(* The first of an order.                                                  *)
LEMMA TopOf ==
    ASSUME NEW S, NEW n \in Nat, NEW order \in [1 .. n -> S]
    PROVE  /\ Top(order) \in Seq(S)
           /\ DOMAIN Top(order) \subseteq 1 .. n
           /\ \A p \in DOMAIN Top(order) : Top(order)[p] = order[p] /\ order[p] \in S
  <1> DEFINE m == IF n <= MaxFaces THEN n ELSE MaxFaces
  <1>1. m \in Nat /\ 1 .. m = DOMAIN order \cap (1 .. MaxFaces) /\ 1 .. m \subseteq 1 .. n
    BY EngineAssumption
  <1>2. Top(order) = [p \in 1 .. m |-> order[p]]
    BY <1>1 DEF Top
  <1> HIDE DEF m
  <1>3. \A p \in 1 .. m : order[p] \in S
    BY <1>1
  <1> QED BY <1>1, <1>2, <1>3

(* A detector's faces are on the image.                                    *)
LEMMA DetectOwn ==
    ASSUME NEW image \in Seq(Faces), NEW p \in DOMAIN Detect(image)
    PROVE  Detect(image)[p] \in ToSet(image) /\ Detect(image)[p] \in Faces
  <1> DEFINE n == Len(image)
             K == 1 .. n
             value == [i \in K |-> Central[image[i]]]
             order == ByValue(K, value)
             best == Top(order)
  <1>1. n \in Nat /\ DOMAIN image = K /\ \A i \in K : image[i] \in Faces /\ image[i] \in ToSet(image)
    BY DEF ToSet
  <1>2. CASE n <= MaxFaces
    BY <1>1, <1>2 DEF Detect
  <1>3. CASE ~(n <= MaxFaces)
    <2>1. Detect(image) = [q \in DOMAIN best |-> image[best[q]]]
      BY <1>1, <1>3 DEF Detect
    <2>2. value \in [K -> Int] /\ K \in SUBSET Nat /\ IsFiniteSet(K) /\ Cardinality(K) = n
      <3>1. \A i \in K : Central[image[i]] \in Int
        BY <1>1, EngineAssumption
      <3>2. IsFiniteSet(1 .. n) /\ Cardinality(1 .. n) = n
        BY <1>1, FS_Interval
      <3> QED BY <3>1, <3>2
    <2> HIDE DEF value, K
    <2>3. order \in [1 .. n -> K]
      BY <2>2, ByValueSorts
    <2> HIDE DEF order
    <2>4. \A q \in DOMAIN best : best[q] \in K
      BY <1>1, <2>3, TopOf
    <2> HIDE DEF best
    <2> QED BY <1>1, <2>1, <2>4
  <1> QED BY <1>2, <1>3

(* The crops of several images: where each comes from.                     *)
Crops(images) ==
    {crop \in [image : DOMAIN images, face : Faces] :
        crop.face \in ToSet(images[crop.image]) \cap Usable}

LEMMA AlignedOwn ==
    ASSUME NEW images \in Seq(Seq(Faces))
    PROVE  Aligned(images) \in Seq(Crops(images))
  <1> DEFINE D == 1 .. Len(images)
             found == [i \in D |-> Detect(images[i])]
             places == {ij \in D \X (1 .. MaxFaces) :
                          ij[2] \in DOMAIN found[ij[1]] /\ found[ij[1]][ij[2]] \in Usable}
             R == {pq \in places \X places :
                    \/ pq[1][1] < pq[2][1]
                    \/ pq[1][1] = pq[2][1] /\ pq[1][2] < pq[2][2]}
             order == Arranged(places, R)
             N == Cardinality(places)
  <1>1. DOMAIN images = D /\ Len(images) \in Nat /\ \A i \in D : images[i] \in Seq(Faces)
    OBVIOUS
  <1>2. Aligned(images) =
            [k \in DOMAIN order |-> [image |-> order[k][1], face |-> found[order[k][1]][order[k][2]]]]
    BY <1>1 DEF Aligned
  <1>3. IsFiniteSet(places) /\ N \in Nat
    <2>1. IsFiniteSet(D) /\ IsFiniteSet(1 .. MaxFaces)
      BY <1>1, EngineAssumption, FS_Interval
    <2>2. IsFiniteSet(D \X (1 .. MaxFaces))
      BY <2>1, FS_Product
    <2>3. places \in SUBSET (D \X (1 .. MaxFaces))
      OBVIOUS
    <2>4. IsFiniteSet(places)
      <3> HIDE DEF places, D
      <3> QED BY <2>2, <2>3, FS_Subset
    <2> HIDE DEF places
    <2> QED BY <2>4, FS_CardinalityType
  <1>4. ASSUME NEW x \in places
        PROVE  /\ x[1] \in Int /\ x[2] \in Int /\ x = <<x[1], x[2]>>
               /\ [image |-> x[1], face |-> found[x[1]][x[2]]] \in Crops(images)
    <2>1. x[1] \in D /\ x[2] \in 1 .. MaxFaces /\ x = <<x[1], x[2]>>
      OBVIOUS
    <2>2. x[2] \in DOMAIN Detect(images[x[1]]) /\ Detect(images[x[1]])[x[2]] \in Usable
      BY <2>1
    <2>3. Detect(images[x[1]])[x[2]] \in ToSet(images[x[1]]) /\ Detect(images[x[1]])[x[2]] \in Faces
      BY <1>1, <2>1, <2>2, DetectOwn
    <2>4. found[x[1]][x[2]] = Detect(images[x[1]])[x[2]]
      BY <2>1
    <2> HIDE DEF found
    <2> QED BY <1>1, <2>1, <2>2, <2>3, <2>4, EngineAssumption DEF Crops
  <1>11. /\ \A x \in places : x[1] \in Int /\ x[2] \in Int
         /\ \A x, y \in places : x[1] = y[1] /\ x[2] = y[2] => x = y
    BY <1>4
  <1>5. \A x, y \in places : <<x, y>> \in R <=> x[1] < y[1] \/ (x[1] = y[1] /\ x[2] < y[2])
    OBVIOUS
  <1> HIDE DEF places, R, found
  <1>6. Linear(R, places)
    <2>1. ASSUME NEW x \in places, NEW y \in places
          PROVE  x = y \/ <<x, y>> \in R \/ <<y, x>> \in R
      BY <1>5, <1>11
    <2>2. \A x \in places : <<x, x>> \notin R
      BY <1>5, <1>11
    <2>3. ASSUME NEW x \in places, NEW y \in places, NEW z \in places, <<x, y>> \in R, <<y, z>> \in R
          PROVE  <<x, z>> \in R
      BY <1>5, <1>11, <2>3
    <2> QED BY <2>1, <2>2, <2>3 DEF Linear
  <1>7. order \in [1 .. N -> places]
    BY <1>3, <1>6, ArrangedInOrder
  <1> HIDE DEF order
  <1> DEFINE C == [k \in 1 .. N |-> [image |-> order[k][1], face |-> found[order[k][1]][order[k][2]]]]
  <1>8. Aligned(images) = C
    BY <1>2, <1>7
  <1>9. \A k \in 1 .. N : C[k] \in Crops(images)
    BY <1>4, <1>7
  <1>10. C \in [1 .. N -> Crops(images)]
    <2> SUFFICES \A k \in 1 .. N : [image |-> order[k][1], face |-> found[order[k][1]][order[k][2]]] \in Crops(images)
      OBVIOUS
    <2> QED BY <1>9
  <1> HIDE DEF C, N
  <1> QED BY <1>3, <1>8, <1>10

(* Every crop has its vector unless one was left out.                      *)
LEMMA EmbeddedOwn ==
    ASSUME NEW images \in Seq(Seq(Faces)), NEW crops \in Seq(Crops(images)),
           NEW kept \in SUBSET DOMAIN crops
    PROVE  /\ \A k \in DOMAIN Embedded(crops, kept) : Embedded(crops, kept)[k] \in Faces
           /\ kept = DOMAIN crops =>
                \A k \in DOMAIN crops : Embedded(crops, kept)[k] = crops[k].face
  <1> DEFINE order == InTurn(kept)
  <1>1. Embedded(crops, kept) = [k \in DOMAIN order |-> crops[order[k]].face]
    BY DEF Embedded
  <1>2. DOMAIN crops = 1 .. Len(crops) /\ Len(crops) \in Nat
    BY LenProperties
  <1>3. \A k \in DOMAIN crops : crops[k].face \in Faces
    BY DEF Crops
  <1>4. order \in [1 .. Cardinality(kept) -> kept]
    <2>1. IsFiniteSet(DOMAIN crops)
      BY <1>2, FS_Interval
    <2>2. IsFiniteSet(kept) /\ kept \in SUBSET Nat
      BY <1>2, <2>1, FS_Subset
    <2>3. [k \in kept |-> 0] \in [kept -> Int]
      OBVIOUS
    <2> QED BY <2>2, <2>3, ByValueSorts DEF InTurn
  <1>5. kept = DOMAIN crops => order = [k \in DOMAIN crops |-> k]
    BY <1>2, AllInTurn
  <1> HIDE DEF order
  <1> QED BY <1>1, <1>3, <1>4, <1>5

(* What the engine returns for an image.                                   *)
Boxes == [image : Nat, face : Faces, score : Nat, vector : Faces]
Own(image, faces, failed) ==
    /\ \A j \in DOMAIN faces :
        /\ faces[j].face \in ToSet(image) \cap Usable
        /\ faces[j].vector = faces[j].face \/ failed
    /\ \A j, k \in DOMAIN faces : j < k => faces[j].score >= faces[k].score

LEMMA AssembledOwn ==
    ASSUME NEW images \in Seq(Seq(Faces)), NEW crops \in Seq(Crops(images)),
           NEW kept \in SUBSET DOMAIN crops
    PROVE  LET results == Assembled(images, crops, Embedded(crops, kept)) IN
           /\ results \in Seq(Seq(Boxes)) /\ Len(results) = Len(images)
           /\ \A i \in DOMAIN images : Own(images[i], results[i], kept # DOMAIN crops)
  <1> DEFINE vectors == Embedded(crops, kept)
             K == DOMAIN crops \cap DOMAIN vectors
             all == [k \in K |-> Result(crops[k], vectors[k])]
             Of(i) == {k \in K : all[k].image = i}
             value(i) == [k \in Of(i) |-> all[k].score]
             order(i) == ByValue(Of(i), value(i))
             best(i) == Top(order(i))
             faces(i) == [p \in DOMAIN best(i) |-> all[best(i)[p]]]
  <1>1. /\ DOMAIN crops = 1 .. Len(crops) /\ Len(crops) \in Nat
        /\ DOMAIN images = 1 .. Len(images) /\ Len(images) \in Nat
    BY LenProperties
  <1>2. Assembled(images, crops, vectors) = [i \in 1 .. Len(images) |-> faces(i)]
    BY <1>1 DEF Assembled
  <1>3. ASSUME NEW k \in K
        PROVE  /\ all[k] \in Boxes
               /\ all[k].image \in DOMAIN images
               /\ all[k].face \in ToSet(images[all[k].image]) \cap Usable
               /\ all[k].vector = all[k].face \/ kept # DOMAIN crops
    <2>1. all[k] = [image |-> crops[k].image, face |-> crops[k].face,
                    score |-> Score[crops[k].face], vector |-> vectors[k]]
      BY DEF Result
    <2>2. crops[k] \in Crops(images)
      OBVIOUS
    <2>3. vectors[k] \in Faces /\ (kept = DOMAIN crops => vectors[k] = crops[k].face)
      BY EmbeddedOwn
    <2>4. /\ crops[k].image \in DOMAIN images /\ crops[k].face \in Faces
          /\ crops[k].face \in ToSet(images[crops[k].image]) \cap Usable
      BY <2>2 DEF Crops
    <2>5. Score[crops[k].face] \in Nat /\ crops[k].image \in Nat
      BY <1>1, <2>4, EngineAssumption
    <2> HIDE DEF all, vectors
    <2> QED BY <2>1, <2>3, <2>4, <2>5 DEF Boxes
  <1> HIDE DEF all
  <1>4. ASSUME NEW i \in DOMAIN images
        PROVE  faces(i) \in Seq(Boxes) /\ Own(images[i], faces(i), kept # DOMAIN crops)
    <2>1. Of(i) \in SUBSET Nat /\ IsFiniteSet(Of(i)) /\ Of(i) \subseteq K
      <3>1. IsFiniteSet(DOMAIN crops)
        BY <1>1, FS_Interval
      <3>2. Of(i) \in SUBSET DOMAIN crops
        OBVIOUS
      <3> QED BY <1>1, <3>1, <3>2, FS_Subset
    <2>2. value(i) \in [Of(i) -> Int]
      BY <1>3 DEF Boxes
    <2> DEFINE O == Of(i)
               v == value(i)
               o == order(i)
               b == best(i)
               n == Cardinality(O)
    <2>3. \A k \in O : v[k] = all[k].score /\ all[k].image = i /\ k \in K /\ v[k] \in Int
      BY <2>2
    <2>4. o = ByValue(O, v) /\ O \in SUBSET Nat /\ IsFiniteSet(O) /\ v \in [O -> Int]
      BY <2>1, <2>2
    <2>5. b = Top(o) /\ faces(i) = [p \in DOMAIN b |-> all[b[p]]]
      OBVIOUS
    <2> HIDE DEF O, v, o, b, Of, value, order, best, faces, K
    <2>6. /\ o \in [1 .. n -> O] /\ n \in Nat
          /\ \A p, q \in 1 .. n : p < q => v[o[p]] >= v[o[q]]
      BY <2>4, ByValueSorts DEF n
    <2> HIDE DEF n
    <2>7. /\ b \in Seq(O) /\ DOMAIN b \subseteq 1 .. n
          /\ \A p \in DOMAIN b : b[p] = o[p] /\ b[p] \in O
      <3>1. o \in [1 .. n -> O] /\ n \in Nat
        BY <2>6
      <3>2. /\ Top(o) \in Seq(O) /\ DOMAIN Top(o) \subseteq 1 .. n
            /\ \A p \in DOMAIN Top(o) : Top(o)[p] = o[p] /\ o[p] \in O
        BY <3>1, TopOf, Zenon
      <3> QED BY <2>5, <3>2
    <2>8. faces(i) \in Seq(Boxes)
      <3>1. DOMAIN b = 1 .. Len(b) /\ Len(b) \in Nat
        BY <2>7, LenProperties
      <3>2. \A p \in 1 .. Len(b) : all[b[p]] \in Boxes
        BY <1>3, <2>3, <2>7, <3>1
      <3> QED BY <2>5, <3>1, <3>2
    <2>9. ASSUME NEW p \in DOMAIN b
          PROVE  /\ all[b[p]].face \in ToSet(images[i]) \cap Usable
                 /\ all[b[p]].vector = all[b[p]].face \/ kept # DOMAIN crops
      BY <1>3, <2>3, <2>7
    <2>10. ASSUME NEW p \in DOMAIN b, NEW q \in DOMAIN b, p < q
           PROVE  all[b[p]].score >= all[b[q]].score
      <3>1. v[o[p]] >= v[o[q]]
        BY <2>6, <2>7, <2>10
      <3> QED BY <2>3, <2>7, <3>1
    <2>11. DOMAIN faces(i) = DOMAIN b /\ \A p \in DOMAIN b : faces(i)[p] = all[b[p]]
      BY <2>5
    <2>12. /\ \A j \in DOMAIN faces(i) :
                /\ faces(i)[j].face \in ToSet(images[i]) \cap Usable
                /\ faces(i)[j].vector = faces(i)[j].face \/ kept # DOMAIN crops
           /\ \A j, k \in DOMAIN faces(i) : j < k => faces(i)[j].score >= faces(i)[k].score
      <3>1. ASSUME NEW j \in DOMAIN faces(i)
            PROVE  /\ faces(i)[j].face \in ToSet(images[i]) \cap Usable
                   /\ faces(i)[j].vector = faces(i)[j].face \/ kept # DOMAIN crops
        <4>1. j \in DOMAIN b /\ faces(i)[j] = all[b[j]]
          BY <2>11, <3>1
        <4> QED BY <2>9, <4>1
      <3>2. ASSUME NEW j \in DOMAIN faces(i), NEW k \in DOMAIN faces(i), j < k
            PROVE  faces(i)[j].score >= faces(i)[k].score
        <4>1. /\ j \in DOMAIN b /\ faces(i)[j] = all[b[j]]
              /\ k \in DOMAIN b /\ faces(i)[k] = all[b[k]]
          BY <2>11, <3>2
        <4> QED BY <2>10, <3>2, <4>1
      <3> QED BY <3>1, <3>2
    <2> QED BY <2>8, <2>12 DEF Own
  <1> HIDE DEF faces, vectors
  <1>5. [i \in 1 .. Len(images) |-> faces(i)] \in Seq(Seq(Boxes))
    BY <1>1, <1>4
  <1>6. Len([i \in 1 .. Len(images) |-> faces(i)]) = Len(images)
    BY <1>1, <1>4
  <1> QED BY <1>1, <1>2, <1>4, <1>5, <1>6 DEF vectors

-----------------------------------------------------------------------------
(* The results that the pipeline thread holds are those of its frames, and *)
(* the images that follow them in a call are images.                       *)
Returned ==
    /\ task.others \in Seq(Seq(Faces))
    /\ task.pc = "handle" =>
        /\ task.results \in Seq(Seq(Boxes)) /\ Len(task.batch) <= Len(task.results)
        /\ \A i \in DOMAIN task.batch : Own(task.batch[i].image, task.results[i], task.failed)

(* The images of a call are those of the batch, then the others.           *)
LEMMA ImagesOfBatch ==
    ASSUME FramesInvariant, Returned
    PROVE  /\ Images1 \in Seq(Seq(Faces))
           /\ Len(task.batch) <= Len(Images1) /\ Len(task.batch) \in Nat
           /\ DOMAIN task.batch = 1 .. Len(task.batch)
           /\ \A i \in DOMAIN task.batch : Images1[i] = task.batch[i].image
  <1> DEFINE b == task.batch
             o == task.others
             s == [i \in DOMAIN b |-> b[i].image]
  <1>1. b \in Seq(Packet) /\ o \in Seq(Seq(Faces))
    BY DEF FramesInvariant, Typed, Returned
  <1>2. Images1 = s \o o
    BY DEF Images1
  <1> HIDE DEF b, o
  <1>3. \A x \in Packet : x.image \in Seq(Faces)
    BY FramesAssumption DEF Packet, ToSet
  <1>4. s \in Seq(Seq(Faces)) /\ Len(s) = Len(b) /\ Len(b) \in Nat /\ DOMAIN b = 1 .. Len(b)
    <2>1. Len(b) \in Nat /\ DOMAIN b = 1 .. Len(b) /\ \A i \in 1 .. Len(b) : b[i] \in Packet
      BY <1>1
    <2> QED BY <1>3, <2>1
  <1>5. \A i \in DOMAIN b : s[i] = b[i].image
    OBVIOUS
  <1> HIDE DEF s
  <1>6. /\ s \o o \in Seq(Seq(Faces)) /\ Len(s \o o) = Len(s) + Len(o)
        /\ \A i \in 1 .. Len(s) : (s \o o)[i] = s[i]
    <2>1. ASSUME NEW S, NEW x \in Seq(S), NEW y \in Seq(S)
          PROVE  /\ x \o y \in Seq(S) /\ Len(x \o y) = Len(x) + Len(y)
                 /\ \A i \in 1 .. Len(x) : (x \o y)[i] = x[i]
      <3>1. /\ x \o y \in Seq(S) /\ Len(x \o y) = Len(x) + Len(y)
            /\ \A i \in 1 .. Len(x) + Len(y) :
                (x \o y)[i] = IF i <= Len(x) THEN x[i] ELSE y[i - Len(x)]
        BY ConcatProperties
      <3>2. Len(x) \in Nat /\ Len(y) \in Nat
        BY LenProperties
      <3> QED BY <3>1, <3>2
    <2> QED BY <1>1, <1>4, <2>1, Zenon
  <1>7. Len(o) \in Nat
    BY <1>1
  <1> QED BY <1>2, <1>4, <1>5, <1>6, <1>7 DEF b

(* The engine's answer is about the images it was given, in their order.   *)
LEMMA EmbedReturns ==
    ASSUME FramesInvariant, Returned, Embed
    PROVE  Returned'
  <1> DEFINE images == Images1
             crops == Aligned(images)
  <1>1. PICK kept \in SUBSET DOMAIN crops :
            task' = [task EXCEPT !.pc = "handle", !.failed = kept # DOMAIN crops,
                                 !.results = Assembled(images, crops, Embedded(crops, kept))]
    BY DEF Embed
  <1> DEFINE results == Assembled(images, crops, Embedded(crops, kept))
             failed == kept # DOMAIN crops
  <1>2. /\ task'.batch = task.batch /\ task'.others = task.others /\ task'.pc = "handle"
        /\ task'.results = results /\ task'.failed = failed
    BY <1>1 DEF FramesInvariant, Typed
  <1>3. /\ images \in Seq(Seq(Faces))
        /\ Len(task.batch) <= Len(images) /\ Len(task.batch) \in Nat
        /\ DOMAIN task.batch = 1 .. Len(task.batch)
        /\ \A i \in DOMAIN task.batch : images[i] = task.batch[i].image
    BY ImagesOfBatch
  <1> HIDE DEF images
  <1>4. crops \in Seq(Crops(images))
    BY <1>3, AlignedOwn
  <1> HIDE DEF crops
  <1>5. /\ results \in Seq(Seq(Boxes)) /\ Len(results) = Len(images)
        /\ \A i \in DOMAIN images : Own(images[i], results[i], failed)
    BY <1>3, <1>4, AssembledOwn
  <1> HIDE DEF results, failed
  <1>6. DOMAIN images = 1 .. Len(images) /\ Len(images) \in Nat
    BY <1>3, LenProperties
  <1>7. \A i \in DOMAIN task.batch : Own(task.batch[i].image, results[i], failed)
    BY <1>3, <1>5, <1>6
  <1>8. task'.others \in Seq(Seq(Faces))
    BY <1>2 DEF Returned
  <1> QED BY <1>2, <1>3, <1>5, <1>7, <1>8 DEF Returned

(* A frame goes with its results; the others keep theirs.                  *)
LEMMA HandleReturns ==
    ASSUME FramesInvariant, Returned, Handle
    PROVE  Returned'
  <1> DEFINE b == task.batch
             r == task.results
  <1>1. /\ task.pc = "handle"
        /\ task' = IF Len(b) = 1 THEN Waiting
                   ELSE [task EXCEPT !.batch = Tail(b), !.results = Tail(r)]
    BY DEF Handle
  <1>2. /\ b \in Seq(Packet) /\ b # <<>> /\ r \in Seq(Seq(Boxes)) /\ Len(b) <= Len(r)
        /\ task.others \in Seq(Seq(Faces))
        /\ \A i \in DOMAIN b : Own(b[i].image, r[i], task.failed)
    BY <1>1 DEF FramesInvariant, Typed, Bounded, Returned
  <1>3. CASE Len(b) = 1
    <2>1. task'.pc = "collect" /\ task'.others = <<>>
      BY <1>1, <1>3 DEF Waiting
    <2> QED BY <2>1 DEF Returned
  <1>4. CASE Len(b) # 1
    <2> DEFINE tb == Tail(b)
               tr == Tail(r)
    <2>1. /\ task'.pc = "handle" /\ task'.batch = tb /\ task'.results = tr
          /\ task'.failed = task.failed /\ task'.others = task.others
      BY <1>1, <1>4 DEF FramesInvariant, Typed
    <2> HIDE DEF b, r
    <2>2. Len(b) \in Nat \ {0} /\ Len(r) \in Nat \ {0} /\ r # <<>>
      BY <1>2, EmptySeq, LenProperties
    <2>3. /\ tb \in Seq(Packet) /\ Len(tb) = Len(b) - 1
          /\ \A i \in 1 .. Len(tb) : tb[i] = b[i + 1]
      BY <1>2, HeadTailProperties
    <2>4. /\ tr \in Seq(Seq(Boxes)) /\ Len(tr) = Len(r) - 1
          /\ \A i \in 1 .. Len(tr) : tr[i] = r[i + 1]
      BY <1>2, <2>2, HeadTailProperties
    <2>5. DOMAIN b = 1 .. Len(b) /\ DOMAIN tb = 1 .. Len(b) - 1
      BY <1>2, <2>3, LenProperties
    <2> HIDE DEF tb, tr
    <2>6. ASSUME NEW i \in DOMAIN tb PROVE Own(tb[i].image, tr[i], task.failed)
      <3>1. i \in 1 .. Len(tb) /\ i \in 1 .. Len(tr) /\ i + 1 \in DOMAIN b
        <4>1. i \in 1 .. Len(b) - 1
          BY <2>5
        <4>2. Len(b) <= Len(r) /\ Len(b) \in Nat /\ Len(r) \in Nat
          BY <1>2, <2>2
        <4>3. Len(tb) = Len(b) - 1 /\ Len(tr) = Len(r) - 1
          BY <2>3, <2>4
        <4>4. i \in 1 .. Len(tb) /\ i \in 1 .. Len(tr) /\ i + 1 \in 1 .. Len(b)
          BY <4>1, <4>2, <4>3
        <4> QED BY <2>5, <4>4
      <3> QED BY <1>2, <2>3, <2>4, <3>1
    <2>7. Len(tb) <= Len(tr)
      BY <1>2, <2>2, <2>3, <2>4
    <2> QED BY <1>2, <2>1, <2>4, <2>6, <2>7 DEF Returned
  <1> QED BY <1>3, <1>4

(* Every step keeps the results with their frames.                         *)
LEMMA NextReturns ==
    ASSUME FramesInvariant, Returned, [Next]_vars
    PROVE  Returned'
  <1>1. CASE UNCHANGED task
    BY <1>1 DEF Returned
  <1>2. CASE Leave \/ CallFails
    <2>1. task' = Waiting \/ task' = [Waiting EXCEPT !.pc = "ended"]
      BY <1>2 DEF Leave, CallFails
    <2>2. task'.others = <<>> /\ task'.pc # "handle"
      BY <2>1 DEF Waiting
    <2> QED BY <2>2 DEF Returned
  <1>3. CASE Collect \/ DetectTogether \/ DetectEach \/ DetectEachFails \/ Recover
    <2>1. task'.others = task.others /\ task'.pc # "handle"
      BY <1>3 DEF Collect, DetectTogether, DetectEach, DetectEachFails, Recover, FramesInvariant, Typed
    <2> QED BY <2>1 DEF Returned
  <1>4. CASE Submit
    <2>1. PICK others \in Others, i \in 0 .. Len(task.batch) :
                LET encoded == IF i = 0 THEN task.batch ELSE RemoveAt(task.batch, i) IN
                task' = IF encoded = <<>> THEN Waiting
                        ELSE [task EXCEPT !.pc = "detect", !.batch = encoded, !.others = others]
      BY <1>4 DEF Submit
    <2>2. task'.others \in {<<>>, others} /\ task'.pc # "handle"
      BY <2>1 DEF Waiting, FramesInvariant, Typed
    <2>3. others \in Seq(Seq(Faces)) /\ <<>> \in Seq(Seq(Faces))
      BY FramesAssumption
    <2>4. task'.others \in Seq(Seq(Faces))
      BY <2>2, <2>3
    <2> QED BY <2>2, <2>4 DEF Returned
  <1>5. CASE Embed
    BY <1>5, EmbedReturns
  <1>6. CASE Handle
    BY <1>6, HandleReturns
  <1>7. CASE ReaderStep \/ DetectTogetherFails \/ AskStop \/ UNCHANGED vars
    <2>1. UNCHANGED task
      BY <1>7 DEF ReaderStep, Ended, Open, OpenFails, Waited, Read, ReadFails, Put, PutFull, Drop,
                  DetectTogetherFails, AskStop, vars
    <2> QED BY <1>1, <2>1
  <1> QED BY <1>2, <1>3, <1>4, <1>5, <1>6, <1>7 DEF Next, TaskStep

(* A frame gets boxes of its own faces only, best score first, whatever    *)
(* images share its call, with their own vectors unless an embedding of    *)
(* the call failed.                                                        *)
THEOREM FramesOwnFaces == Spec => []OwnFaces
  <1>1. Init => Returned
    <2>1. Init => task.others = <<>> /\ task.pc = "collect"
      BY DEF Init, Waiting
    <2>2. <<>> \in Seq(Seq(Faces))
      OBVIOUS
    <2> QED BY <2>1, <2>2 DEF Returned
  <1>2. FramesInvariant /\ Returned /\ [Next]_vars => Returned'
    BY NextReturns
  <1>3. Returned => OwnFaces
    BY DEF Returned, OwnFaces, Own
  <1> QED BY <1>1, <1>2, <1>3, FramesInvariantHolds, PTL DEF Spec
=============================================================================
