----------------------- MODULE RecognitionGateProofs -----------------------
(***************************************************************************)
(* Proofs about RecognitionGate, for every number of students, children    *)
(* and frames and every setting of the windows.                            *)
(***************************************************************************)
EXTENDS RecognitionGate, TLAPS

(* The wall clock only shows instants, which are numbers and not None.     *)
LEMMA TimeFacts ==
  /\ Time \subseteq Nat /\ 0 \in Time
  /\ None \notin Time
  /\ DedupWindow \in Nat \ {0} /\ MaxFrames \in Nat /\ MaxTime \in Nat
BY GateAssumption DEF Time

(* No frame in hand is a frame without faces.                              *)
LEMMA NoHandTyped == NoHand \in Hand /\ NoHand.faces = << >>
BY GateAssumption DEF NoHand, Hand, Time

(* A student is told apart from an unmatched face.                         *)
LEMMA SubjectFacts ==
  /\ Students \subseteq Subjects /\ Unknown \in Subjects
  /\ \A x \in Subjects : x # Unknown => x \in Students
BY GateAssumption DEF Subjects

(* The faces still to come, the first of them and those after it.          *)
LEMMA FacesInHand ==
  ASSUME TypeOK, NEW ch \in Children, hand[ch].faces # << >>
  PROVE  /\ hand[ch] \in Hand
         /\ Face(ch) \in Subjects
         /\ Tail(hand[ch].faces) \in Seq(Subjects)
         /\ Len(Tail(hand[ch].faces)) = Len(hand[ch].faces) - 1
         /\ Len(hand[ch].faces) \in Nat \ {0}
<1>1. hand[ch] \in Hand
  BY DEF TypeOK
<1>2. hand[ch].faces \in Seq(Subjects)
  BY <1>1 DEF Hand
<1> QED
  BY <1>1, <1>2 DEF Face

(* What an appended row changes of the log: nothing but its end.           *)
LEMMA Appended ==
  ASSUME TypeOK, NEW row \in LogRow
  PROVE  /\ Append(log, row) \in Seq(LogRow)
         /\ DOMAIN Append(log, row) = DOMAIN log \cup {Len(log) + 1}
         /\ \A i \in DOMAIN log : Append(log, row)[i] = log[i]
         /\ Append(log, row)[Len(log) + 1] = row
         /\ Len(log) + 1 \notin DOMAIN log
BY DEF TypeOK

-----------------------------------------------------------------------------
(* Type correctness                                                        *)

(* The row of a face in hand is a row of the log.                          *)
LEMMA RowTyped ==
  ASSUME TypeOK, NEW ch \in Children, hand[ch].faces # << >>,
         NEW kind \in {"first", "repeat"}, NEW outcome \in {"none", "entry", "exit"}
  PROVE  Row(ch, kind, outcome) \in LogRow
BY FacesInHand DEF Row, LogRow, Hand

(* The decision of the ledger is one of its outcomes.                      *)
LEMMA OutcomeTyped == ASSUME NEW x PROVE Outcome(x) \in {"none", "entry", "exit"}
BY DEF Outcome

(* Going on with the next face keeps the types.                            *)
LEMMA NextFaceTyped ==
  ASSUME TypeOK, NEW ch \in Children, hand[ch].faces # << >>, NextFace(ch)
  PROVE  /\ at' \in [Children -> {"off", "idle", "faces", "claim", "commit"}]
         /\ hand' \in [Children -> Hand]
         /\ \A d \in Children :
              at'[d] \in {"claim", "commit"} => hand'[d].faces # << >>
<1> DEFINE h == [hand[ch] EXCEPT !.faces = Tail(@), !.votes = {}, !.claimed = None]
<1>1. h \in Hand
  BY FacesInHand DEF Hand
<1>2. /\ at' = [at EXCEPT ![ch] = "faces"]
      /\ hand' = [hand EXCEPT ![ch] = h]
  BY DEF NextFace
<1>3. hand' \in [Children -> Hand]
  BY <1>1, <1>2 DEF TypeOK
<1>4. \A d \in Children : d # ch => hand'[d] = hand[d] /\ at'[d] = at[d]
  BY <1>2 DEF TypeOK
<1>5. at' \in [Children -> {"off", "idle", "faces", "claim", "commit"}] /\ at'[ch] = "faces"
  BY <1>2 DEF TypeOK
<1> QED
  BY <1>3, <1>4, <1>5 DEF TypeOK

(* The initial state is typed.                                             *)
LEMMA TypeInit == Init => TypeOK
<1> SUFFICES ASSUME Init PROVE TypeOK
  OBVIOUS
<1>1. now \in Time /\ frames \in 0 .. MaxFrames
  BY TimeFacts DEF Init
<1>2. /\ hand \in [Children -> Hand] /\ buffer \in [Children -> [Students -> SUBSET Vote]]
      /\ at \in [Children -> {"off", "idle", "faces", "claim", "commit"}]
      /\ inside \in [Students -> BOOLEAN]
  BY NoHandTyped DEF Init
<1>3. /\ clock \in [Children -> Time] /\ \A ch \in Children : clock[ch] <= now
      /\ expires \in [Subjects -> 0 .. (MaxTime + DedupWindow)]
  BY TimeFacts DEF Init
<1> QED
  BY <1>1, <1>2, <1>3 DEF Init, TypeOK

(* Types are kept by every step.                                           *)
LEMMA TypeStep == TypeOK /\ [Next]_vars => TypeOK'
<1> SUFFICES ASSUME TypeOK, [Next]_vars PROVE TypeOK'
  OBVIOUS
<1>1. ASSUME NEW ch \in Children, Start(ch) PROVE TypeOK'
  BY <1>1, TimeFacts DEF Start, TypeOK, Time
<1>2. ASSUME NEW ch \in Children, TakeFrame(ch) PROVE TypeOK'
  <2>1. PICK ts \in clock[ch] .. now, fs \in FaceLists :
          /\ clock' = [clock EXCEPT ![ch] = ts]
          /\ hand' = [hand EXCEPT ![ch] = [NoHand EXCEPT
                        !.ts = ts, !.frame = frames + 1, !.faces = fs]]
    BY <1>2 DEF TakeFrame
  <2>2. ts \in Time /\ ts <= now /\ fs \in Seq(Subjects) /\ frames + 1 \in 0 .. MaxFrames
    BY <1>2, TimeFacts, GateAssumption DEF TakeFrame, TypeOK, Time
  <2>3. [NoHand EXCEPT !.ts = ts, !.frame = frames + 1, !.faces = fs] \in Hand
    BY <2>2, NoHandTyped DEF Hand
  <2>4. hand' \in [Children -> Hand]
    BY <2>1, <2>3 DEF TypeOK
  <2>5. clock' \in [Children -> Time] /\ \A d \in Children : clock'[d] <= now
    BY <2>1, <2>2 DEF TypeOK
  <2>6. \A d \in Children : at'[d] \in {"claim", "commit"} => hand'[d].faces # << >>
    BY <1>2, <2>1 DEF TakeFrame, TypeOK
  <2> QED
    BY <1>2, <2>2, <2>4, <2>5, <2>6 DEF TakeFrame, TypeOK
<1>3. ASSUME NEW ch \in Children, EndFrame(ch) PROVE TypeOK'
  BY <1>3, NoHandTyped DEF EndFrame, TypeOK
<1>4. ASSUME NEW ch \in Children, Unmatched(ch) PROVE TypeOK'
  BY <1>4 DEF Unmatched, TypeOK
<1>5. ASSUME NEW ch \in Children, Confirm(ch) PROVE TypeOK'
  <2> DEFINE s == Face(ch)
             kept == Kept(buffer[ch][s] \cup {Sighting(hand[ch])}, hand[ch].ts)
  <2>1. s \in Students /\ hand[ch] \in Hand /\ buffer[ch][s] \in SUBSET Vote
    BY <1>5, FacesInHand, SubjectFacts DEF Confirm, TypeOK
  <2>2. kept \in SUBSET Vote
    <3>1. Sighting(hand[ch]) \in Vote
      BY <1>5, <2>1, FacesInHand DEF Confirm, Sighting, Vote, Hand
    <3> QED
      BY <2>1, <3>1 DEF Kept
  <2>3. CASE Cardinality(kept) >= K
    <3>1. /\ buffer' = [buffer EXCEPT ![ch][s] = {}]
          /\ at' = [at EXCEPT ![ch] = "claim"]
          /\ hand' = [hand EXCEPT ![ch].votes = kept]
      BY <1>5, <2>3 DEF Confirm
    <3>2. [hand[ch] EXCEPT !.votes = kept] \in Hand
      BY <2>1, <2>2 DEF Hand
    <3> QED
      BY <1>5, <2>1, <3>1, <3>2 DEF Confirm, TypeOK
  <2>4. CASE ~(Cardinality(kept) >= K)
    <3>1. /\ buffer' = [buffer EXCEPT ![ch][s] = kept]
          /\ NextFace(ch)
      BY <1>5, <2>4 DEF Confirm
    <3>2. buffer' \in [Children -> [Students -> SUBSET Vote]]
      BY <2>1, <2>2, <3>1 DEF TypeOK
    <3> QED
      BY <1>5, <3>1, <3>2, NextFaceTyped DEF Confirm, TypeOK
  <2> QED
    BY <2>3, <2>4
<1>6. ASSUME NEW ch \in Children, Claim(ch) PROVE TypeOK'
  <2>1. hand[ch] \in Hand /\ Face(ch) \in Subjects /\ hand[ch].faces # << >>
    BY <1>6, FacesInHand DEF Claim, TypeOK
  <2>2. [hand[ch] EXCEPT !.claimed = now] \in Hand
    BY <2>1 DEF Hand, TypeOK
  <2>3. now + DedupWindow \in 0 .. (MaxTime + DedupWindow)
    BY TimeFacts DEF TypeOK, Time
  <2> QED
    BY <1>6, <2>1, <2>2, <2>3 DEF Claim, TypeOK
<1>7. ASSUME NEW ch \in Children, Suppress(ch) PROVE TypeOK'
  <2>1. hand[ch].faces # << >>
    BY <1>7 DEF Suppress, TypeOK
  <2>2. log' \in Seq(LogRow)
    BY <1>7, <2>1, RowTyped, Appended DEF Suppress, TypeOK
  <2> QED
    BY <1>7, <2>1, <2>2, NextFaceTyped DEF Suppress, TypeOK
<1>8. ASSUME NEW ch \in Children, PassBlindly(ch) PROVE TypeOK'
  BY <1>8 DEF PassBlindly, TypeOK
<1>9. ASSUME NEW ch \in Children, Commit(ch) PROVE TypeOK'
  <2>1. hand[ch].faces # << >>
    BY <1>9 DEF Commit, TypeOK
  <2>2. log' \in Seq(LogRow)
    BY <1>9, <2>1, RowTyped, OutcomeTyped, Appended DEF Commit
  <2>3. inside' \in [Students -> BOOLEAN]
    BY <1>9 DEF Commit, Recorded, TypeOK
  <2> QED
    BY <1>9, <2>1, <2>2, <2>3, NextFaceTyped DEF Commit, TypeOK
<1>10. ASSUME NEW ch \in Children, Leave(ch) \/ Die(ch) PROVE TypeOK'
  <2>1. buffer' \in [Children -> [Students -> SUBSET Vote]]
    BY <1>10 DEF Leave, Die, TypeOK
  <2>2. End(ch)
    BY <1>10 DEF Leave, Die
  <2>3. lost' \subseteq [subject : Subjects, claimed : Time \cup {None}]
    <3>1. CASE at[ch] = "commit"
      <4>1. Face(ch) \in Subjects /\ hand[ch].claimed \in Time \cup {None}
        BY <3>1, FacesInHand DEF TypeOK, Hand
      <4> QED
        BY <2>2, <3>1, <4>1 DEF End, LostClaim, TypeOK
    <3>2. CASE at[ch] # "commit"
      BY <2>2, <3>2 DEF End, TypeOK
    <3> QED
      BY <3>1, <3>2
  <2> QED
    BY <2>1, <2>2, <2>3, NoHandTyped, TimeFacts DEF End, TypeOK, Time
<1>11. ASSUME Tick PROVE TypeOK'
  BY <1>11, TimeFacts DEF Tick, pipelines, TypeOK, Time
<1>12. ASSUME UNCHANGED vars PROVE TypeOK'
  BY <1>12 DEF vars, pipelines, TypeOK
<1> QED
  BY <1>1, <1>2, <1>3, <1>4, <1>5, <1>6, <1>7, <1>8, <1>9, <1>10, <1>11, <1>12
  DEF Next

(* Every variable of the gate keeps its type.                              *)
THEOREM GateTypeCorrect == Spec => []TypeOK
<1> QED
  BY TypeInit, TypeStep, PTL DEF Spec

-----------------------------------------------------------------------------
(* Recordings are a window apart                                           *)

Apart(a, b) == a + DedupWindow <= b \/ b + DedupWindow <= a

Recording(i) == log[i].kind = "first" /\ log[i].claimed # None
Claiming(ch) == at[ch] = "commit" /\ hand[ch].claimed # None

(* OncePerWindow speaks of committed rows; the induction needs the claims  *)
(* whose commit is still to come, and that no claim outlives its key.      *)
NoStrayClaim == \A ch \in Children : at[ch] # "commit" => hand[ch].claimed = None

KeyOutlasts ==
  /\ \A i \in DOMAIN log : Recording(i) =>
       log[i].claimed + DedupWindow <= expires[log[i].subject]
  /\ \A ch \in Children : Claiming(ch) =>
       hand[ch].claimed + DedupWindow <= expires[Face(ch)]

RecordedApart ==
  \A i, j \in DOMAIN log :
    i # j /\ Recording(i) /\ Recording(j) /\ log[i].subject = log[j].subject
      => Apart(log[i].claimed, log[j].claimed)

PendingApart ==
  /\ \A i \in DOMAIN log, ch \in Children :
       Recording(i) /\ Claiming(ch) /\ log[i].subject = Face(ch)
         => Apart(log[i].claimed, hand[ch].claimed)
  /\ \A ch, d \in Children :
       ch # d /\ Claiming(ch) /\ Claiming(d) /\ Face(ch) = Face(d)
         => Apart(hand[ch].claimed, hand[d].claimed)

ClaimInv == NoStrayClaim /\ KeyOutlasts /\ RecordedApart /\ PendingApart

(* The claims of rows and of pipelines are instants.                       *)
LEMMA ClaimTyped ==
  ASSUME TypeOK
  PROVE  /\ \A i \in DOMAIN log :
              /\ log[i].subject \in Subjects
              /\ Recording(i) => log[i].claimed \in Nat
         /\ \A ch \in Children : Claiming(ch) =>
              /\ hand[ch].claimed \in Nat
              /\ hand[ch].faces # << >>
              /\ Face(ch) \in Subjects
<1>1. \A i \in DOMAIN log : log[i] \in LogRow
  BY DEF TypeOK
<1>2. \A i \in DOMAIN log : log[i].claimed \in Time \cup {None} /\ log[i].subject \in Subjects
  BY <1>1 DEF LogRow
<1>3. ASSUME NEW ch \in Children, Claiming(ch)
      PROVE  hand[ch].claimed \in Nat /\ hand[ch].faces # << >> /\ Face(ch) \in Subjects
  <2>1. hand[ch].faces # << >>
    BY <1>3 DEF Claiming, TypeOK
  <2>2. hand[ch] \in Hand /\ Face(ch) \in Subjects
    BY <2>1, FacesInHand
  <2> QED
    BY <1>3, <2>1, <2>2, TimeFacts DEF Claiming, Hand
<1> QED
  BY <1>2, <1>3, TimeFacts DEF Recording

(* A step that makes no claim and records none keeps the claims apart.     *)
LEMMA QuietStep ==
  ASSUME ClaimInv, NoStrayClaim', expires' = expires,
         \A i \in DOMAIN log' :
           Recording(i)' => i \in DOMAIN log /\ log'[i] = log[i],
         \A ch \in Children : Claiming(ch)' =>
           Claiming(ch) /\ hand'[ch].claimed = hand[ch].claimed /\ Face(ch)' = Face(ch)
  PROVE  ClaimInv'
<1>1. \A i \in DOMAIN log' : Recording(i)' => Recording(i)
  BY DEF Recording
<1>2. KeyOutlasts'
  BY <1>1 DEF ClaimInv, KeyOutlasts
<1>3. RecordedApart'
  BY <1>1 DEF ClaimInv, RecordedApart, Apart
<1>4. PendingApart'
  BY <1>1 DEF ClaimInv, PendingApart, Apart
<1> QED
  BY <1>2, <1>3, <1>4 DEF ClaimInv

(* A claim finds no key, so every earlier claim of the subject is over.    *)
LEMMA ClaimStep ==
  ASSUME TypeOK, ClaimInv, NEW ch \in Children, Claim(ch)
  PROVE  ClaimInv'
<1> DEFINE x == Face(ch)
<1>1. hand[ch].faces # << >> /\ hand[ch] \in Hand /\ x \in Subjects
  BY FacesInHand DEF Claim, TypeOK
<1>2. /\ log' = log /\ now \in Nat /\ DedupWindow \in Nat
      /\ expires' = [expires EXCEPT ![x] = now + DedupWindow]
      /\ expires[x] \in Nat /\ expires[x] <= now
  BY <1>1, TimeFacts DEF Claim, KeyPresent, TypeOK
<1>3. /\ at'[ch] = "commit" /\ hand'[ch].claimed = now /\ Face(ch)' = x
      /\ \A d \in Children : d # ch => hand'[d] = hand[d] /\ at'[d] = at[d]
  BY <1>1 DEF Claim, TypeOK, Face, Hand
<1>4. /\ \A d \in Children : d # ch => (Claiming(d)' <=> Claiming(d)) /\ Face(d)' = Face(d)
      /\ \A i \in DOMAIN log : Recording(i)' <=> Recording(i)
  BY <1>2, <1>3 DEF Claiming, Recording, Face
<1>5. \A y \in Subjects : expires[y] <= expires'[y] /\ expires[y] \in Nat /\ expires'[y] \in Nat
  BY <1>2, TimeFacts DEF TypeOK
<1>6. expires'[x] = now + DedupWindow
  BY <1>1, <1>2 DEF TypeOK
<1>7. NoStrayClaim'
  BY <1>3 DEF ClaimInv, NoStrayClaim
<1>8. KeyOutlasts'
  <2>1. ASSUME NEW i \in DOMAIN log, Recording(i)
        PROVE  log[i].claimed + DedupWindow <= expires'[log[i].subject]
    BY <1>2, <1>5, <2>1, ClaimTyped DEF ClaimInv, KeyOutlasts
  <2>2. ASSUME NEW d \in Children, d # ch, Claiming(d)
        PROVE  hand[d].claimed + DedupWindow <= expires'[Face(d)]
    BY <1>2, <1>5, <2>2, ClaimTyped DEF ClaimInv, KeyOutlasts
  <2> QED
    BY <1>2, <1>3, <1>4, <1>6, <2>1, <2>2 DEF KeyOutlasts
<1>9. RecordedApart'
  BY <1>2, <1>4 DEF ClaimInv, RecordedApart, Apart
<1>10. PendingApart'
  <2>1. ASSUME NEW i \in DOMAIN log, Recording(i), log[i].subject = x
        PROVE  Apart(log[i].claimed, now)
    BY <1>2, <2>1, ClaimTyped DEF ClaimInv, KeyOutlasts, Apart
  <2>2. ASSUME NEW d \in Children, d # ch, Claiming(d), Face(d) = x
        PROVE  Apart(hand[d].claimed, now) /\ Apart(now, hand[d].claimed)
    BY <1>2, <2>2, ClaimTyped DEF ClaimInv, KeyOutlasts, Apart
  <2>3. ASSUME NEW i \in DOMAIN log', NEW d \in Children,
               Recording(i)', Claiming(d)', log'[i].subject = Face(d)'
        PROVE  Apart(log'[i].claimed, hand'[d].claimed)
    BY <1>2, <1>3, <1>4, <2>1, <2>3 DEF ClaimInv, PendingApart
  <2>4. ASSUME NEW c \in Children, NEW d \in Children, c # d,
               Claiming(c)', Claiming(d)', Face(c)' = Face(d)'
        PROVE  Apart(hand'[c].claimed, hand'[d].claimed)
    BY <1>3, <1>4, <2>2, <2>4 DEF ClaimInv, PendingApart
  <2> QED
    BY <2>3, <2>4 DEF PendingApart, Apart
<1> QED
  BY <1>7, <1>8, <1>9, <1>10 DEF ClaimInv

(* A commit turns the claim of its pipeline into a row.                    *)
LEMMA CommitStep ==
  ASSUME TypeOK, ClaimInv, NEW ch \in Children, Commit(ch)
  PROVE  ClaimInv'
<1> DEFINE x == Face(ch)
           row == Row(ch, "first", Outcome(x))
<1> PICK n : n = Len(log) + 1
  OBVIOUS
<1>1. hand[ch].faces # << >> /\ hand[ch] \in Hand /\ x \in Subjects
  BY FacesInHand DEF Commit, TypeOK
<1>2. row \in LogRow /\ log' = Append(log, row) /\ expires' = expires
  BY <1>1, RowTyped, OutcomeTyped DEF Commit
<1>3. /\ DOMAIN log' = DOMAIN log \cup {n}
      /\ \A i \in DOMAIN log : log'[i] = log[i]
      /\ log'[n] = row /\ n \notin DOMAIN log
  BY <1>2, Appended
<1>4. row.subject = x /\ row.kind = "first" /\ row.claimed = hand[ch].claimed
  BY DEF Row
<1>5. /\ at[ch] = "commit" /\ at'[ch] = "faces" /\ hand'[ch].claimed = None
      /\ \A d \in Children : d # ch => hand'[d] = hand[d] /\ at'[d] = at[d]
  BY <1>1 DEF Commit, NextFace, TypeOK, Hand
<1>6. /\ \A d \in Children : d # ch => (Claiming(d)' <=> Claiming(d)) /\ Face(d)' = Face(d)
      /\ ~Claiming(ch)'
      /\ \A i \in DOMAIN log : Recording(i)' <=> Recording(i)
      /\ Recording(n)' => Claiming(ch)
  BY <1>3, <1>4, <1>5 DEF Claiming, Recording, Face
<1>7. NoStrayClaim'
  BY <1>5 DEF ClaimInv, NoStrayClaim
<1>8. KeyOutlasts'
  <2>1. ASSUME NEW i \in DOMAIN log', Recording(i)'
        PROVE  log'[i].claimed + DedupWindow <= expires[log'[i].subject]
    BY <1>3, <1>4, <1>6, <2>1 DEF ClaimInv, KeyOutlasts
  <2>2. ASSUME NEW d \in Children, Claiming(d)'
        PROVE  hand'[d].claimed + DedupWindow <= expires[Face(d)']
    BY <1>5, <1>6, <2>2 DEF ClaimInv, KeyOutlasts
  <2> QED
    BY <1>2, <2>1, <2>2 DEF KeyOutlasts
<1>9. RecordedApart'
  <2>1. ASSUME NEW i \in DOMAIN log', NEW j \in DOMAIN log', i # j,
               Recording(i)', Recording(j)', log'[i].subject = log'[j].subject
        PROVE  Apart(log'[i].claimed, log'[j].claimed)
    <3>1. CASE i \in DOMAIN log /\ j \in DOMAIN log
      BY <1>3, <1>6, <2>1, <3>1 DEF ClaimInv, RecordedApart
    <3>2. CASE i = n \/ j = n
      BY <1>3, <1>4, <1>6, <2>1, <3>2 DEF ClaimInv, PendingApart, Apart
    <3> QED
      BY <1>3, <3>1, <3>2
  <2> QED
    BY <2>1 DEF RecordedApart, Apart
<1>10. PendingApart'
  <2>1. ASSUME NEW i \in DOMAIN log', NEW d \in Children,
               Recording(i)', Claiming(d)', log'[i].subject = Face(d)'
        PROVE  Apart(log'[i].claimed, hand'[d].claimed)
    BY <1>3, <1>4, <1>5, <1>6, <2>1 DEF ClaimInv, PendingApart
  <2>2. ASSUME NEW c \in Children, NEW d \in Children, c # d,
               Claiming(c)', Claiming(d)', Face(c)' = Face(d)'
        PROVE  Apart(hand'[c].claimed, hand'[d].claimed)
    BY <1>5, <1>6, <2>2 DEF ClaimInv, PendingApart
  <2> QED
    BY <2>1, <2>2 DEF PendingApart, Apart
<1> QED
  BY <1>7, <1>8, <1>9, <1>10 DEF ClaimInv

(* What the actions that neither claim nor commit do to one pipeline: it   *)
(* holds no claim afterwards, or the one it held.                          *)
LEMMA HandStep ==
  ASSUME TypeOK, ClaimInv, NEW ch \in Children,
         \/ Start(ch) \/ TakeFrame(ch) \/ EndFrame(ch) \/ Unmatched(ch) \/ Confirm(ch)
         \/ Suppress(ch) \/ PassBlindly(ch) \/ Leave(ch) \/ Die(ch)
  PROVE  /\ hand'[ch].claimed = None
         /\ \A d \in Children : d # ch => hand'[d] = hand[d] /\ at'[d] = at[d]
         /\ expires' = expires /\ now' = now
<1>1. hand[ch] \in Hand
  BY DEF TypeOK
<1>2. CASE Start(ch) \/ Unmatched(ch) \/ PassBlindly(ch)
  <2>1. at[ch] # "commit"
    BY <1>2 DEF Start, Unmatched, PassBlindly
  <2>2. /\ hand' = hand /\ UNCHANGED <<expires, now>>
        /\ \E a \in {"idle", "claim", "commit"} : at' = [at EXCEPT ![ch] = a]
    BY <1>2 DEF Start, Unmatched, PassBlindly
  <2> QED
    BY <2>1, <2>2 DEF TypeOK, ClaimInv, NoStrayClaim
<1>3. CASE TakeFrame(ch) \/ EndFrame(ch)
  <2>1. /\ UNCHANGED <<expires, now>>
        /\ \E a \in {"idle", "faces"} : at' = [at EXCEPT ![ch] = a]
    BY <1>3 DEF TakeFrame, EndFrame
  <2>2. \E h : h.claimed = None /\ hand' = [hand EXCEPT ![ch] = h]
    <3>1. CASE TakeFrame(ch)
      <4>1. PICK ts \in clock[ch] .. now, fs \in FaceLists :
              hand' = [hand EXCEPT ![ch] = [NoHand EXCEPT
                        !.ts = ts, !.frame = frames + 1, !.faces = fs]]
        BY <3>1 DEF TakeFrame
      <4>2. [NoHand EXCEPT !.ts = ts, !.frame = frames + 1, !.faces = fs].claimed = None
        BY DEF NoHand
      <4> QED
        BY <4>1, <4>2
    <3>2. CASE EndFrame(ch)
      BY <3>2 DEF EndFrame, NoHand
    <3> QED
      BY <1>3, <3>1, <3>2
  <2> QED
    BY <2>1, <2>2 DEF TypeOK
<1>4. CASE Confirm(ch)
  <2> DEFINE kept == Kept(buffer[ch][Face(ch)] \cup {Sighting(hand[ch])}, hand[ch].ts)
  <2>1. CASE NextFace(ch)
    BY <1>1, <1>4, <2>1 DEF Confirm, NextFace, TypeOK, Hand
  <2>2. CASE /\ at' = [at EXCEPT ![ch] = "claim"]
             /\ hand' = [hand EXCEPT ![ch].votes = kept]
    <3>1. hand[ch].claimed = None
      BY <1>4 DEF Confirm, ClaimInv, NoStrayClaim
    <3> QED
      BY <1>1, <1>4, <2>2, <3>1 DEF Confirm, TypeOK, Hand
  <2> QED
    BY <1>4, <2>1, <2>2 DEF Confirm
<1>5. CASE Suppress(ch)
  BY <1>1, <1>5 DEF Suppress, NextFace, TypeOK, Hand
<1>6. CASE Leave(ch) \/ Die(ch)
  BY <1>6 DEF Leave, Die, End, NoHand, TypeOK
<1> QED
  BY <1>2, <1>3, <1>4, <1>5, <1>6

(* They append no recording either.                                        *)
LEMMA LogStep ==
  ASSUME TypeOK, NEW ch \in Children,
         \/ Start(ch) \/ TakeFrame(ch) \/ EndFrame(ch) \/ Unmatched(ch) \/ Confirm(ch)
         \/ Suppress(ch) \/ PassBlindly(ch) \/ Leave(ch) \/ Die(ch)
  PROVE  /\ \A i \in DOMAIN log : i \in DOMAIN log' /\ log'[i] = log[i]
         /\ \A i \in DOMAIN log' : log'[i].kind = "first" => i \in DOMAIN log
<1>1. CASE log' = log
  BY <1>1
<1>2. CASE log' # log
  <2>1. Suppress(ch) /\ log' = Append(log, Row(ch, "repeat", "none"))
    BY <1>2 DEF Start, TakeFrame, EndFrame, Unmatched, Confirm, Suppress, PassBlindly,
                Leave, Die, End
  <2>2. Row(ch, "repeat", "none") \in LogRow
    BY <2>1, RowTyped DEF Suppress, TypeOK
  <2>3. Row(ch, "repeat", "none").kind # "first"
    BY DEF Row
  <2> QED
    BY <2>1, <2>2, <2>3, Appended
<1> QED
  BY <1>1, <1>2

(* Every step keeps the claims apart.                                      *)
LEMMA ClaimInvStep ==
  ASSUME TypeOK, ClaimInv, [Next]_vars
  PROVE  ClaimInv'
<1>1. ASSUME NEW ch \in Children,
             \/ Start(ch) \/ TakeFrame(ch) \/ EndFrame(ch) \/ Unmatched(ch) \/ Confirm(ch)
             \/ Suppress(ch) \/ PassBlindly(ch) \/ Leave(ch) \/ Die(ch)
      PROVE  ClaimInv'
  <2>1. /\ hand'[ch].claimed = None
        /\ \A d \in Children : d # ch => hand'[d] = hand[d] /\ at'[d] = at[d]
        /\ expires' = expires
    BY <1>1, HandStep
  <2>2. \A i \in DOMAIN log' : Recording(i)' => i \in DOMAIN log /\ log'[i] = log[i]
    BY <1>1, LogStep DEF Recording
  <2>3. NoStrayClaim'
    BY <2>1 DEF ClaimInv, NoStrayClaim
  <2>4. \A d \in Children : Claiming(d)' =>
          Claiming(d) /\ hand'[d].claimed = hand[d].claimed /\ Face(d)' = Face(d)
    BY <2>1 DEF Claiming, Face
  <2> QED
    BY <2>1, <2>2, <2>3, <2>4, QuietStep
<1>2. ASSUME Tick \/ UNCHANGED vars PROVE ClaimInv'
  <2>1. UNCHANGED <<at, hand, log, expires>>
    BY <1>2 DEF Tick, pipelines, vars
  <2> QED
    BY <2>1, QuietStep DEF ClaimInv, NoStrayClaim, Recording, Claiming, Face
<1> QED
  BY <1>1, <1>2, ClaimStep, CommitStep DEF Next

(* Nothing is claimed initially.                                           *)
LEMMA ClaimInit == Init => ClaimInv
<1> SUFFICES ASSUME Init PROVE ClaimInv
  OBVIOUS
<1>1. log = << >> /\ \A ch \in Children : hand[ch].claimed = None
  BY DEF Init, NoHand
<1> QED
  BY <1>1 DEF ClaimInv, NoStrayClaim, KeyOutlasts, RecordedApart, PendingApart,
              Recording, Claiming

(* Claims are apart and end with their keys, in every state.               *)
THEOREM ClaimInvariant == Spec => []ClaimInv
<1>1. TypeOK /\ ClaimInv /\ [Next]_vars => ClaimInv'
  BY ClaimInvStep
<1> QED
  BY <1>1, ClaimInit, GateTypeCorrect, PTL DEF Spec

(* Two recordings of a subject that both went through Redis are a window   *)
(* apart, however many pipelines the camera has and whenever they end.     *)
THEOREM OneRecordingPerWindow == Spec => []OncePerWindow
<1>1. ClaimInv => OncePerWindow
  BY DEF ClaimInv, RecordedApart, Recording, Apart, OncePerWindow
<1> QED
  BY <1>1, ClaimInvariant, PTL

-----------------------------------------------------------------------------
(* Every key is accounted for                                              *)

(* The trace a claim leaves: a row, a pipeline about to commit, or a loss. *)
Traced(x, since) ==
  \/ \E i \in DOMAIN log : log[i].subject = x /\ log[i].claimed = since
  \/ \E ch \in Children : at[ch] = "commit" /\ Face(ch) = x /\ hand[ch].claimed = since
  \/ LostClaim(x, since) \in lost

(* A trace is never wiped out: the log and the losses only grow, and a     *)
(* pipeline about to commit commits or is lost.                            *)
LEMMA TraceStays ==
  ASSUME TypeOK, ClaimInv, [Next]_vars, NEW x, NEW since, Traced(x, since)
  PROVE  Traced(x, since)'
<1>1. ASSUME NEW ch \in Children,
             \/ Start(ch) \/ TakeFrame(ch) \/ EndFrame(ch) \/ Unmatched(ch) \/ Confirm(ch)
             \/ Suppress(ch) \/ PassBlindly(ch) \/ Leave(ch) \/ Die(ch)
      PROVE  Traced(x, since)'
  <2>1. /\ \A i \in DOMAIN log : i \in DOMAIN log' /\ log'[i] = log[i]
        /\ \A d \in Children : d # ch => hand'[d] = hand[d] /\ at'[d] = at[d]
    BY <1>1, LogStep, HandStep
  <2>2. lost \subseteq lost'
    BY <1>1 DEF Start, TakeFrame, EndFrame, Unmatched, Confirm, Suppress, PassBlindly,
                Leave, Die, End
  <2>3. at[ch] = "commit" => LostClaim(Face(ch), hand[ch].claimed) \in lost'
    BY <1>1 DEF Start, TakeFrame, EndFrame, Unmatched, Confirm, Suppress, PassBlindly,
                Leave, Die, End
  <2> QED
    BY <2>1, <2>2, <2>3 DEF Traced, Face, LostClaim
<1>2. ASSUME NEW ch \in Children, Claim(ch) PROVE Traced(x, since)'
  BY <1>2 DEF Claim, Traced, Face, LostClaim, TypeOK
<1>3. ASSUME NEW ch \in Children, Commit(ch) PROVE Traced(x, since)'
  <2> DEFINE row == Row(ch, "first", Outcome(Face(ch)))
  <2> PICK n : n = Len(log) + 1
    OBVIOUS
  <2>1. row \in LogRow /\ log' = Append(log, row)
    BY <1>3, RowTyped, OutcomeTyped DEF Commit, TypeOK
  <2>2. /\ \A i \in DOMAIN log : i \in DOMAIN log' /\ log'[i] = log[i]
        /\ n \in DOMAIN log' /\ log'[n] = row
    BY <2>1, Appended
  <2>3. row.subject = Face(ch) /\ row.claimed = hand[ch].claimed
    BY DEF Row
  <2>4. /\ \A d \in Children : d # ch => hand'[d] = hand[d] /\ at'[d] = at[d]
        /\ lost' = lost
    BY <1>3 DEF Commit, NextFace, TypeOK
  <2> QED
    BY <2>2, <2>3, <2>4 DEF Traced, Face, LostClaim
<1>4. ASSUME Tick \/ UNCHANGED vars PROVE Traced(x, since)'
  <2>1. UNCHANGED <<at, hand, log, lost>>
    BY <1>4 DEF Tick, pipelines, vars
  <2> QED
    BY <2>1 DEF Traced, Face, LostClaim
<1> QED
  BY <1>1, <1>2, <1>3, <1>4 DEF Next

(* A key is either untouched by a step or set by a claim.                  *)
LEMMA KeysStep ==
  ASSUME TypeOK, ClaimInv, KeysAccounted, [Next]_vars
  PROVE  KeysAccounted'
<1> SUFFICES ASSUME NEW x \in Subjects, KeyPresent(x)',
                    NEW since, since = expires'[x] - DedupWindow
             PROVE  Traced(x, since)'
  BY DEF KeysAccounted, Traced
<1>1. CASE expires'[x] = expires[x]
  <2>1. now \in Nat /\ now' \in Nat /\ now <= now' /\ expires[x] \in Nat
    <3>1. now' = now \/ (now' = now + 1)
      BY DEF Next, vars, pipelines, Tick, Start, TakeFrame, EndFrame, Unmatched,
             Confirm, Claim, Suppress, PassBlindly, Commit, Leave, Die, End
    <3> QED
      BY <3>1, TimeFacts DEF TypeOK
  <2>2. KeyPresent(x)
    BY <1>1, <2>1 DEF KeyPresent
  <2>3. Traced(x, since)
    BY <1>1, <2>2 DEF KeysAccounted, Traced
  <2> QED
    BY <1>1, <2>3, TraceStays
<1>2. CASE expires'[x] # expires[x]
  <2>1. PICK ch \in Children : Claim(ch)
    BY <1>2 DEF Next, vars, pipelines, Tick, Start, TakeFrame, EndFrame, Unmatched,
             Confirm, Suppress, PassBlindly, Commit, Leave, Die, End
  <2>2. /\ at'[ch] = "commit" /\ hand'[ch].claimed = now /\ Face(ch)' = Face(ch)
        /\ hand[ch] \in Hand
    BY <2>1 DEF Claim, TypeOK, Hand, Face
  <2>3. x = Face(ch) /\ expires'[x] = now + DedupWindow
    BY <1>2, <2>1 DEF Claim, TypeOK
  <2>4. since = now
    BY <2>3, TimeFacts DEF TypeOK
  <2> QED
    BY <2>2, <2>3, <2>4 DEF Traced
<1> QED
  BY <1>1, <1>2

(* A subject is held back only by a sighting that is recorded, is about to *)
(* be, or went down with its pipeline.                                     *)
THEOREM KeysStayAccounted == Spec => []KeysAccounted
<1>1. Init => KeysAccounted
  BY DEF Init, KeysAccounted, KeyPresent
<1>2. TypeOK /\ ClaimInv /\ KeysAccounted /\ [Next]_vars => KeysAccounted'
  BY KeysStep
<1> QED
  BY <1>1, <1>2, GateTypeCorrect, ClaimInvariant, PTL DEF Spec

-----------------------------------------------------------------------------
(* Rows are earned                                                         *)

Busy(ch) == at[ch] \in {"faces", "claim", "commit"}

(* The holder of a vote: a buffer, a pipeline's hand or a row of the log.  *)
Holds(kind, a, b, v) ==
  \/ kind = "buffer" /\ a \in Children /\ b \in Students /\ v \in buffer[a][b]
  \/ kind = "hand" /\ a \in Children /\ b = None /\ v \in hand[a].votes
  \/ kind = "log" /\ a \in DOMAIN log /\ b = None /\ v \in log[a].votes

(* A vote has one holder.                                                  *)
OneOwner ==
  \A k1, a1, b1, k2, a2, b2, v :
    Holds(k1, a1, b1, v) /\ Holds(k2, a2, b2, v) => k1 = k2 /\ a1 = a2 /\ b1 = b2

(* A vote comes from a frame that was taken, and from a face the pipeline  *)
(* is past: the face in hand is still to be counted.                       *)
Known(v) ==
  /\ v.frame \in 1 .. frames
  /\ \A ch \in Children : Busy(ch) /\ hand[ch].frame = v.frame =>
       /\ v.place >= Len(hand[ch].faces)
       /\ at[ch] = "faces" => v.place > Len(hand[ch].faces)

AllKnown == \A k, a, b, v : Holds(k, a, b, v) => Known(v)

FramesApart ==
  /\ \A ch \in Children : Busy(ch) =>
       hand[ch].frame \in 1 .. frames /\ hand[ch].ts = clock[ch]
  /\ \A ch \in Children : ~Busy(ch) => hand[ch] = NoHand
  /\ \A ch, d \in Children :
       ch # d /\ Busy(ch) /\ Busy(d) => hand[ch].frame # hand[d].frame

(* No vote is younger than the frame in hand, also when an earlier         *)
(* pipeline of the child has cast it.                                      *)
InTime ==
  \A ch \in Children, s \in Students : \A v \in buffer[ch][s] :
    v.ts <= now /\ (at[ch] # "off" => v.ts <= clock[ch])

Earned(votes, ts) ==
  Cardinality(votes) >= K /\ \A v \in votes : v.ts \in (ts - Window) .. ts

Ready ==
  /\ \A ch \in Children :
       at[ch] \in {"claim", "commit"} /\ Face(ch) # Unknown =>
         Earned(hand[ch].votes, hand[ch].ts)
  /\ \A ch \in Children :
       at[ch] \notin {"claim", "commit"} => hand[ch].votes = {}
  /\ \A i \in DOMAIN log : log[i].subject # Unknown =>
       Earned(log[i].votes, log[i].ts)

VoteInv == FramesApart /\ InTime /\ Ready /\ AllKnown /\ OneOwner

Work(ch) ==
  \/ Start(ch) \/ TakeFrame(ch) \/ EndFrame(ch) \/ Unmatched(ch) \/ Confirm(ch)
  \/ Claim(ch) \/ Suppress(ch) \/ PassBlindly(ch) \/ Commit(ch) \/ Leave(ch) \/ Die(ch)

Took(ch) ==
  /\ at'[ch] = "faces" /\ at[ch] = "idle"
  /\ frames' = frames + 1 /\ hand'[ch].frame = frames + 1
  /\ hand'[ch].ts = clock'[ch] /\ clock'[ch] \in clock[ch] .. now
  /\ hand'[ch].votes = {}

Went(ch) ==
  /\ Busy(ch) /\ frames' = frames /\ clock'[ch] = clock[ch]
  /\ hand'[ch].frame = hand[ch].frame /\ hand'[ch].ts = hand[ch].ts
  /\ \/ at'[ch] \in {"claim", "commit"} /\ hand'[ch].faces = hand[ch].faces
     \/ /\ at'[ch] = "faces" /\ hand'[ch].votes = {}
        /\ hand[ch].faces # << >> /\ hand'[ch].faces = Tail(hand[ch].faces)

Rested(ch) ==
  /\ at'[ch] \in {"off", "idle"} /\ frames' = frames /\ hand'[ch] = NoHand
  /\ at'[ch] = "idle" => clock'[ch] = IF at[ch] = "off" THEN now ELSE clock[ch]

(* What a step of a pipeline does to the frame in its hand: it takes one,  *)
(* gets on with it, or has none afterwards.                                *)
LEMMA FrameStep ==
  ASSUME TypeOK, FramesApart, NEW ch \in Children, Work(ch)
  PROVE  /\ Took(ch) \/ Went(ch) \/ Rested(ch)
         /\ now' = now
         /\ \A d \in Children : d # ch =>
              hand'[d] = hand[d] /\ at'[d] = at[d] /\ clock'[d] = clock[d]
<1>1. hand[ch] \in Hand
  BY DEF TypeOK
<1>2. CASE Start(ch)
  BY <1>2 DEF Start, Rested, TypeOK, FramesApart, Busy
<1>3. CASE TakeFrame(ch)
  <2>1. PICK ts \in clock[ch] .. now, fs \in FaceLists :
          /\ clock' = [clock EXCEPT ![ch] = ts]
          /\ hand' = [hand EXCEPT ![ch] = [NoHand EXCEPT
                        !.ts = ts, !.frame = frames + 1, !.faces = fs]]
    BY <1>3 DEF TakeFrame
  <2> DEFINE h == [NoHand EXCEPT !.ts = ts, !.frame = frames + 1, !.faces = fs]
  <2>2. h.ts = ts /\ h.frame = frames + 1 /\ h.votes = {}
    BY DEF NoHand
  <2>3. hand'[ch] = h /\ clock'[ch] = ts
    BY <2>1 DEF TypeOK
  <2>4. Took(ch)
    BY <1>3, <2>2, <2>3 DEF TakeFrame, Took, TypeOK
  <2> QED
    BY <1>3, <2>1, <2>4 DEF TakeFrame, TypeOK
<1>4. CASE EndFrame(ch)
  BY <1>4 DEF EndFrame, Rested, TypeOK
<1>5. CASE Unmatched(ch)
  BY <1>5 DEF Unmatched, Went, Busy, TypeOK
<1>6. CASE Confirm(ch)
  <2> DEFINE kept == Kept(buffer[ch][Face(ch)] \cup {Sighting(hand[ch])}, hand[ch].ts)
  <2>1. CASE NextFace(ch)
    BY <1>1, <1>6, <2>1 DEF Confirm, NextFace, Went, Busy, TypeOK, Hand
  <2>2. CASE /\ at' = [at EXCEPT ![ch] = "claim"]
             /\ hand' = [hand EXCEPT ![ch].votes = kept]
    BY <1>1, <1>6, <2>2 DEF Confirm, Went, Busy, TypeOK, Hand
  <2> QED
    BY <1>6, <2>1, <2>2 DEF Confirm
<1>7. CASE Claim(ch)
  BY <1>1, <1>7 DEF Claim, Went, Busy, TypeOK, Hand
<1>8. CASE Suppress(ch) \/ Commit(ch)
  <2>1. NextFace(ch) /\ Busy(ch) /\ hand[ch].faces # << >>
        /\ UNCHANGED <<now, frames, clock>>
    BY <1>8 DEF Suppress, Commit, Busy, TypeOK
  <2> QED
    BY <1>1, <2>1 DEF NextFace, Went, TypeOK, Hand
<1>9. CASE PassBlindly(ch)
  BY <1>9 DEF PassBlindly, Went, Busy, TypeOK
<1>10. CASE Leave(ch) \/ Die(ch)
  BY <1>10 DEF Leave, Die, End, Rested, TypeOK
<1> QED
  BY <1>2, <1>3, <1>4, <1>5, <1>6, <1>7, <1>8, <1>9, <1>10 DEF Work

(* Pipelines hold different frames, stamped with their clocks.             *)
LEMMA FramesApartStep ==
  ASSUME TypeOK, FramesApart, NEW ch \in Children, Work(ch)
  PROVE  FramesApart'
<1>1. /\ Took(ch) \/ Went(ch) \/ Rested(ch)
      /\ \A d \in Children : d # ch =>
           hand'[d] = hand[d] /\ at'[d] = at[d] /\ clock'[d] = clock[d]
  BY FrameStep
<1>2. frames \in Nat
  BY TimeFacts DEF TypeOK
<1>3. CASE Took(ch)
  BY <1>1, <1>2, <1>3 DEF Took, FramesApart, Busy
<1>4. CASE Went(ch)
  <2>1. /\ Busy(ch) /\ Busy(ch)' /\ frames' = frames
        /\ hand'[ch].frame = hand[ch].frame
        /\ hand'[ch].ts = hand[ch].ts /\ clock'[ch] = clock[ch]
    BY <1>4 DEF Went, Busy
  <2>2. \A d \in Children : d # ch => (Busy(d)' <=> Busy(d))
    BY <1>1 DEF Busy
  <2> QED
    BY <1>1, <2>1, <2>2 DEF FramesApart
<1>5. CASE Rested(ch)
  <2>1. ~Busy(ch)' /\ frames' = frames /\ hand'[ch] = NoHand /\ NoHand' = NoHand
    BY <1>5 DEF Rested, Busy, NoHand
  <2>2. \A d \in Children : d # ch => (Busy(d)' <=> Busy(d))
    BY <1>1 DEF Busy
  <2> QED
    BY <1>1, <2>1, <2>2 DEF FramesApart
<1> QED
  BY <1>1, <1>3, <1>4, <1>5

(* What is known of a vote stays known.                                    *)
LEMMA KnownStays ==
  ASSUME TypeOK, FramesApart, NEW ch \in Children, Work(ch),
         NEW v \in Vote, Known(v)
  PROVE  Known(v)'
<1>1. /\ Took(ch) \/ Went(ch) \/ Rested(ch)
      /\ \A d \in Children : d # ch =>
           hand'[d] = hand[d] /\ at'[d] = at[d] /\ clock'[d] = clock[d]
  BY FrameStep
<1>2. frames \in Nat /\ v.place \in Nat
  BY TimeFacts DEF TypeOK, Vote
<1>3. CASE Took(ch)
  BY <1>1, <1>2, <1>3 DEF Took, Known, Busy
<1>4. CASE Went(ch)
  <2>1. hand[ch] \in Hand
    BY DEF TypeOK
  <2>2. Len(hand[ch].faces) \in Nat
    BY <2>1 DEF Hand
  <2>3. hand[ch].faces # << >> => Len(Tail(hand[ch].faces)) = Len(hand[ch].faces) - 1
    BY FacesInHand
  <2>4. ASSUME Busy(ch)', hand'[ch].frame = v.frame
        PROVE  /\ v.place >= Len(hand'[ch].faces)
               /\ at'[ch] = "faces" => v.place > Len(hand'[ch].faces)
    <3>1. v.place >= Len(hand[ch].faces)
      BY <1>4, <2>4 DEF Went, Known
    <3>2. CASE at'[ch] \in {"claim", "commit"} /\ hand'[ch].faces = hand[ch].faces
      BY <3>1, <3>2
    <3>3. CASE hand[ch].faces # << >> /\ hand'[ch].faces = Tail(hand[ch].faces)
      BY <1>2, <2>2, <2>3, <3>1, <3>3
    <3> QED
      BY <1>4, <3>2, <3>3 DEF Went
  <2> QED
    BY <1>1, <1>4, <2>4 DEF Went, Known, Busy
<1>5. CASE Rested(ch)
  BY <1>1, <1>5 DEF Rested, Known, Busy
<1> QED
  BY <1>1, <1>3, <1>4, <1>5

(* The vote that a sighting casts is typed, unknown to all holders so far, *)
(* and known once the pipeline has moved on.                               *)
LEMMA FreshVote ==
  ASSUME TypeOK, FramesApart, NEW ch \in Children, Confirm(ch),
         NEW sg, sg = Sighting(hand[ch])
  PROVE  sg \in Vote /\ ~Known(sg) /\ Known(sg)' /\ sg.ts = clock[ch]
<1>1. /\ at[ch] = "faces" /\ hand[ch].faces # << >>
      /\ hand[ch] \in Hand /\ Len(hand[ch].faces) \in Nat
      /\ Len(Tail(hand[ch].faces)) = Len(hand[ch].faces) - 1
  BY FacesInHand DEF Confirm
<1>2. sg.ts = hand[ch].ts /\ sg.frame = hand[ch].frame /\ sg.place = Len(hand[ch].faces)
  BY DEF Sighting
<1>3. sg \in Vote
  BY <1>1 DEF Sighting, Vote, Hand
<1>4. Busy(ch) /\ hand[ch].frame \in 1 .. frames /\ hand[ch].ts = clock[ch]
  BY <1>1 DEF Busy, FramesApart
<1>5. ~Known(sg)
  BY <1>1, <1>2, <1>4 DEF Known
<1>6. Known(sg)'
  <2>1. /\ Took(ch) \/ Went(ch) \/ Rested(ch)
        /\ \A d \in Children : d # ch =>
             hand'[d] = hand[d] /\ at'[d] = at[d] /\ clock'[d] = clock[d]
    BY FrameStep DEF Work
  <2>2. frames' = frames
    BY DEF Confirm
  <2>3. \A d \in Children : d # ch /\ Busy(d)' => hand'[d].frame # sg.frame
    BY <1>2, <1>4, <2>1 DEF FramesApart, Busy
  <2>4. Went(ch)
    BY <1>1, <2>1 DEF Confirm, NextFace, Took, Rested, TypeOK
  <2>5. /\ hand'[ch].frame = sg.frame => sg.place >= Len(hand'[ch].faces)
        /\ at'[ch] = "faces" => sg.place > Len(hand'[ch].faces)
    <3>1. CASE at'[ch] \in {"claim", "commit"} /\ hand'[ch].faces = hand[ch].faces
      BY <1>1, <1>2, <3>1
    <3>2. CASE hand'[ch].faces = Tail(hand[ch].faces)
      BY <1>1, <1>2, <3>2
    <3> QED
      BY <2>4, <3>1, <3>2 DEF Went
  <2>6. sg.frame \in 1 .. frames'
    BY <1>2, <1>4, <2>2
  <2>7. ASSUME NEW d \in Children, Busy(d)', hand'[d].frame = sg.frame
        PROVE  /\ sg.place >= Len(hand'[d].faces)
               /\ at'[d] = "faces" => sg.place > Len(hand'[d].faces)
    BY <2>3, <2>5, <2>7
  <2> QED
    BY <2>6, <2>7 DEF Known
<1> QED
  BY <1>2, <1>3, <1>4, <1>5, <1>6

(* Every held vote is a typed one.                                         *)
LEMMA HeldTyped ==
  ASSUME TypeOK, NEW kind, NEW a, NEW b, NEW v, Holds(kind, a, b, v)
  PROVE  v \in Vote
<1>1. ASSUME NEW i \in DOMAIN log PROVE log[i].votes \in SUBSET Vote
  <2>1. log[i] \in LogRow
    BY DEF TypeOK
  <2> QED
    BY <2>1 DEF LogRow
<1>2. ASSUME NEW ch \in Children PROVE hand[ch].votes \in SUBSET Vote
  <2>1. hand[ch] \in Hand
    BY DEF TypeOK
  <2> QED
    BY <2>1 DEF Hand
<1>3. \A ch \in Children, s \in Students : buffer[ch][s] \in SUBSET Vote
  BY DEF TypeOK
<1> QED
  BY <1>1, <1>2, <1>3 DEF Holds

(* No vote of a buffer is younger than the frame in hand.                  *)
LEMMA InTimeStep ==
  ASSUME TypeOK, FramesApart, InTime, NEW ch \in Children, Work(ch)
  PROVE  InTime'
<1>1. /\ Took(ch) \/ Went(ch) \/ Rested(ch)
      /\ now' = now
      /\ \A d \in Children : d # ch =>
           hand'[d] = hand[d] /\ at'[d] = at[d] /\ clock'[d] = clock[d]
  BY FrameStep
<1>2. \A d \in Children, s \in Students : d # ch => buffer'[d][s] = buffer[d][s]
  BY DEF Work, Start, TakeFrame, EndFrame, Unmatched, Confirm, Claim, Suppress,
         PassBlindly, Commit, Leave, Die, TypeOK
<1>3. ASSUME NEW s \in Students, NEW v \in buffer'[ch][s]
      PROVE  \/ v \in buffer[ch][s]
             \/ Confirm(ch) /\ v = Sighting(hand[ch])
  <2>1. CASE Confirm(ch)
    <3> DEFINE kept == Kept(buffer[ch][Face(ch)] \cup {Sighting(hand[ch])}, hand[ch].ts)
    <3>1. \/ buffer' = [buffer EXCEPT ![ch][Face(ch)] = {}]
          \/ buffer' = [buffer EXCEPT ![ch][Face(ch)] = kept]
      BY <2>1 DEF Confirm
    <3>2. kept \subseteq buffer[ch][Face(ch)] \cup {Sighting(hand[ch])}
      BY DEF Kept
    <3> QED
      BY <1>3, <2>1, <3>1, <3>2 DEF TypeOK
  <2>2. CASE ~Confirm(ch)
    BY <1>3, <2>2 DEF Work, Start, TakeFrame, EndFrame, Unmatched, Claim, Suppress,
         PassBlindly, Commit, Leave, Die, TypeOK
  <2> QED
    BY <2>1, <2>2
<1>4. ASSUME NEW s \in Students, NEW v \in buffer[ch][s]
      PROVE  v.ts <= now /\ (at'[ch] # "off" => v.ts <= clock'[ch])
  <2>1. v.ts \in Nat /\ now \in Nat /\ clock[ch] \in Nat
    <3>1. v \in Vote /\ now \in Time /\ clock[ch] \in Time
      BY DEF TypeOK
    <3> QED
      BY <3>1, TimeFacts DEF Vote
  <2>2. v.ts <= now /\ (at[ch] # "off" => v.ts <= clock[ch])
    BY DEF InTime
  <2>3. CASE Took(ch)
    BY <2>1, <2>2, <2>3 DEF Took
  <2>4. CASE Went(ch)
    BY <2>1, <2>2, <2>4 DEF Went, Busy
  <2>5. CASE Rested(ch)
    BY <2>1, <2>2, <2>5 DEF Rested
  <2> QED
    BY <1>1, <2>3, <2>4, <2>5
<1>5. ASSUME Confirm(ch)
      PROVE  Sighting(hand[ch]).ts <= now /\ Sighting(hand[ch]).ts <= clock'[ch]
  <2>1. Sighting(hand[ch]).ts = clock[ch] /\ clock' = clock
    BY <1>5, FreshVote DEF Confirm
  <2>2. clock[ch] \in Nat /\ clock[ch] <= now
    BY TimeFacts DEF TypeOK
  <2> QED
    BY <2>1, <2>2
<1>6. ASSUME NEW s \in Students, NEW v \in buffer'[ch][s]
      PROVE  v.ts <= now /\ (at'[ch] # "off" => v.ts <= clock'[ch])
  <2>1. CASE v \in buffer[ch][s]
    BY <1>4, <2>1
  <2>2. CASE Confirm(ch) /\ v = Sighting(hand[ch])
    BY <1>5, <2>2
  <2> QED
    BY <1>3, <1>6, <2>1, <2>2
<1> QED
  BY <1>1, <1>2, <1>6 DEF InTime

(* A confirmation is K votes of the last Window seconds.                   *)
LEMMA KeptEarned ==
  ASSUME TypeOK, FramesApart, InTime, NEW ch \in Children, Confirm(ch),
         NEW kept,
         kept = Kept(buffer[ch][Face(ch)] \cup {Sighting(hand[ch])}, hand[ch].ts)
  PROVE  \A v \in kept : v.ts \in (hand[ch].ts - Window) .. hand[ch].ts
<1> SUFFICES ASSUME NEW v \in kept
             PROVE  v.ts \in (hand[ch].ts - Window) .. hand[ch].ts
  OBVIOUS
<1>1. hand[ch].ts = clock[ch] /\ at[ch] # "off"
  BY DEF Confirm, FramesApart, Busy
<1>2. Face(ch) \in Students
  BY FacesInHand, SubjectFacts DEF Confirm
<1>3. Window \in Nat /\ clock[ch] \in Nat
  BY TimeFacts, GateAssumption DEF TypeOK
<1>4. v.ts \in Nat /\ v.ts <= clock[ch]
  <2>1. CASE v \in buffer[ch][Face(ch)]
    <3>1. v \in Vote
      BY <1>2, <2>1 DEF TypeOK
    <3> QED
      BY <1>1, <1>2, <2>1, <3>1, TimeFacts DEF InTime, Vote
  <2>2. CASE v = Sighting(hand[ch])
    BY <1>3, <2>2, FreshVote
  <2> QED
    BY <2>1, <2>2 DEF Kept
<1>5. v.ts >= clock[ch] - Window
  BY <1>1 DEF Kept
<1> QED
  BY <1>1, <1>3, <1>4, <1>5

(* Whoever is confirmed has earned it, and the row inherits the votes.     *)
LEMMA ReadyStep ==
  ASSUME TypeOK, FramesApart, InTime, Ready, NEW ch \in Children, Work(ch)
  PROVE  Ready'
<1>1. /\ Took(ch) \/ Went(ch) \/ Rested(ch)
      /\ \A d \in Children : d # ch =>
           hand'[d] = hand[d] /\ at'[d] = at[d] /\ clock'[d] = clock[d]
  BY FrameStep
<1>2. hand[ch] \in Hand
  BY DEF TypeOK
<1>3. at'[ch] \notin {"claim", "commit"} => hand'[ch].votes = {}
  <2>1. CASE Took(ch)
    BY <2>1 DEF Took
  <2>2. CASE Went(ch)
    BY <2>2 DEF Went
  <2>3. CASE Rested(ch)
    BY <2>3 DEF Rested, NoHand
  <2> QED
    BY <1>1, <2>1, <2>2, <2>3
<1>4. ASSUME at'[ch] \in {"claim", "commit"}, Face(ch)' # Unknown
      PROVE  Earned(hand'[ch].votes, hand'[ch].ts)
  <2>1. Went(ch) /\ hand'[ch].faces = hand[ch].faces /\ Face(ch)' = Face(ch)
        /\ hand'[ch].ts = hand[ch].ts
    BY <1>1, <1>4 DEF Took, Went, Rested, Face
  <2>2. CASE Confirm(ch)
    <3>1. PICK kept :
            kept = Kept(buffer[ch][Face(ch)] \cup {Sighting(hand[ch])}, hand[ch].ts)
      OBVIOUS
    <3>2. Cardinality(kept) >= K /\ hand' = [hand EXCEPT ![ch].votes = kept]
      BY <1>4, <2>2, <3>1 DEF Confirm, NextFace, TypeOK
    <3>3. hand'[ch].votes = kept
      BY <1>2, <3>2 DEF TypeOK, Hand
    <3> QED
      BY <2>1, <2>2, <3>1, <3>2, <3>3, KeptEarned DEF Earned
  <2>3. CASE Claim(ch) \/ PassBlindly(ch)
    <3>1. at[ch] = "claim" /\ hand'[ch].votes = hand[ch].votes
      BY <1>2, <2>3 DEF Claim, PassBlindly, TypeOK, Hand
    <3> QED
      BY <1>4, <2>1, <3>1 DEF Ready
  <2>4. CASE Unmatched(ch)
    BY <1>4, <2>1, <2>4 DEF Unmatched
  <2>5. ~(Start(ch) \/ TakeFrame(ch) \/ EndFrame(ch) \/ Suppress(ch) \/ Commit(ch)
          \/ Leave(ch) \/ Die(ch))
    BY <1>4 DEF Start, TakeFrame, EndFrame, Suppress, Commit, NextFace, Leave, Die, End,
                TypeOK
  <2> QED
    BY <2>2, <2>3, <2>4, <2>5 DEF Work
<1>5. ASSUME NEW i \in DOMAIN log', log'[i].subject # Unknown
      PROVE  Earned(log'[i].votes, log'[i].ts)
  <2>1. CASE log' = log
    BY <1>5, <2>1 DEF Ready
  <2>2. CASE log' # log
    <3>1. PICK kind \in {"first", "repeat"}, outcome \in {"none", "entry", "exit"} :
            /\ log' = Append(log, Row(ch, kind, outcome))
            /\ at[ch] \in {"claim", "commit"} /\ hand[ch].faces # << >>
      BY <2>2, OutcomeTyped
      DEF Work, Start, TakeFrame, EndFrame, Unmatched, Confirm, Claim, Suppress,
          PassBlindly, Commit, Leave, Die, End, TypeOK
    <3>2. Row(ch, kind, outcome) \in LogRow
      BY <3>1, RowTyped
    <3>3. \/ i \in DOMAIN log /\ log'[i] = log[i]
          \/ log'[i] = Row(ch, kind, outcome)
      BY <1>5, <3>1, <3>2, Appended
    <3>4. Row(ch, kind, outcome).subject # Unknown =>
            Earned(Row(ch, kind, outcome).votes, Row(ch, kind, outcome).ts)
      BY <3>1 DEF Row, Ready
    <3> QED
      BY <1>5, <3>3, <3>4 DEF Ready
  <2> QED
    BY <2>1, <2>2
<1>6. \A d \in Children : d # ch => Face(d)' = Face(d)
  BY <1>1 DEF Face
<1> QED
  BY <1>1, <1>3, <1>4, <1>5, <1>6 DEF Ready, Earned

(* A step of ch moves the votes of one holder (sk, sa, sb) to one holder    *)
(* (tk, ta, tb) and adds the votes in fresh there.                         *)
Flow(ch, fresh, sk, sa, sb, tk, ta, tb) ==
  /\ \A v \in fresh : Confirm(ch) /\ v = Sighting(hand[ch])
  /\ \A k, a, b, v : Holds(k, a, b, v)' =>
       \/ Holds(k, a, b, v)
       \/ k = tk /\ a = ta /\ b = tb /\ (v \in fresh \/ Holds(sk, sa, sb, v))
  /\ \A v : Holds(sk, sa, sb, v)' => sk = tk /\ sa = ta /\ sb = tb

(* A step moves votes from one holder to one holder, adds votes nobody had *)
(* (fresh), and drops votes: then a vote still has one holder.             *)
LEMMA OwnerMoves ==
  ASSUME OneOwner, AllKnown, NEW ch, NEW fresh, NEW sk, NEW sa, NEW sb,
         NEW tk, NEW ta, NEW tb, Flow(ch, fresh, sk, sa, sb, tk, ta, tb),
         \A v \in fresh : ~Known(v)
  PROVE  OneOwner'
<1>0. /\ \A k, a, b, v : Holds(k, a, b, v)' =>
             \/ Holds(k, a, b, v)
             \/ k = tk /\ a = ta /\ b = tb /\ (v \in fresh \/ Holds(sk, sa, sb, v))
      /\ \A v : Holds(sk, sa, sb, v)' => sk = tk /\ sa = ta /\ sb = tb
  BY DEF Flow
<1> SUFFICES ASSUME NEW k1, NEW a1, NEW b1, NEW k2, NEW a2, NEW b2, NEW v,
                    Holds(k1, a1, b1, v)', Holds(k2, a2, b2, v)'
             PROVE  k1 = k2 /\ a1 = a2 /\ b1 = b2
  BY DEF OneOwner
<1>1. CASE Holds(k1, a1, b1, v) /\ Holds(k2, a2, b2, v)
  BY <1>1 DEF OneOwner
<1>2. CASE ~Holds(k1, a1, b1, v) /\ ~Holds(k2, a2, b2, v)
  BY <1>0, <1>2
<1>3. CASE Holds(k1, a1, b1, v) /\ ~Holds(k2, a2, b2, v)
  <2>1. v \notin fresh
    BY <1>3 DEF AllKnown
  <2>2. Holds(sk, sa, sb, v) /\ k2 = tk /\ a2 = ta /\ b2 = tb
    BY <1>0, <1>3, <2>1
  <2>3. k1 = sk /\ a1 = sa /\ b1 = sb
    BY <1>3, <2>2 DEF OneOwner
  <2> QED
    BY <1>0, <2>2, <2>3
<1>4. CASE ~Holds(k1, a1, b1, v) /\ Holds(k2, a2, b2, v)
  <2>1. v \notin fresh
    BY <1>4 DEF AllKnown
  <2>2. Holds(sk, sa, sb, v) /\ k1 = tk /\ a1 = ta /\ b1 = tb
    BY <1>0, <1>4, <2>1
  <2>3. k2 = sk /\ a2 = sa /\ b2 = sb
    BY <1>4, <2>2 DEF OneOwner
  <2> QED
    BY <1>0, <2>2, <2>3
<1> QED
  BY <1>1, <1>2, <1>3, <1>4

(* Where the votes go in each step: from the buffer to the hand when they  *)
(* confirm, from the hand to the log when the row is written.              *)
LEMMA VotesMove ==
  ASSUME TypeOK, FramesApart, Ready, NEW ch \in Children, Work(ch)
  PROVE  \E fresh, sk, sa, sb, tk, ta, tb : Flow(ch, fresh, sk, sa, sb, tk, ta, tb)
<1> DEFINE Goal ==
      \E fresh, sk, sa, sb, tk, ta, tb : Flow(ch, fresh, sk, sa, sb, tk, ta, tb)
<1>1. ASSUME \A k, a, b, v : Holds(k, a, b, v)' => Holds(k, a, b, v)
      PROVE  Goal
  <2>1. Flow(ch, {}, None, None, None, None, None, None)
    BY <1>1 DEF Flow
  <2> QED
    BY <2>1
<1>2. /\ Took(ch) \/ Went(ch) \/ Rested(ch)
      /\ \A d \in Children : d # ch =>
           hand'[d] = hand[d] /\ at'[d] = at[d] /\ clock'[d] = clock[d]
  BY FrameStep
<1>3. hand[ch] \in Hand
  BY DEF TypeOK
<1>4. CASE Confirm(ch)
  <2>1. PICK x : x = Face(ch)
    OBVIOUS
  <2>2. PICK sg : sg = Sighting(hand[ch])
    OBVIOUS
  <2>3. PICK kept : kept = Kept(buffer[ch][x] \cup {sg}, hand[ch].ts)
    OBVIOUS
  <2>4. kept \subseteq buffer[ch][x] \cup {sg} /\ x \in Students
    BY <1>4, <2>1, <2>3, FacesInHand, SubjectFacts DEF Kept, Confirm
  <2>5. log' = log /\ hand[ch].votes = {}
    BY <1>4 DEF Confirm, Ready
  <2>6. \A v \in {sg} : Confirm(ch) /\ v = Sighting(hand[ch])
    BY <1>4, <2>2
  <2>7. CASE buffer' = [buffer EXCEPT ![ch][x] = {}]
             /\ hand' = [hand EXCEPT ![ch].votes = kept]
    <3>1. hand'[ch].votes = kept /\ buffer'[ch][x] = {}
      BY <1>3, <2>4, <2>7 DEF TypeOK, Hand
    <3>2. \A d \in Children, t \in Students :
            d # ch \/ t # x => buffer'[d][t] = buffer[d][t]
      BY <2>4, <2>7 DEF TypeOK
    <3>3. \A k, a, b, v : Holds(k, a, b, v)' =>
            \/ Holds(k, a, b, v)
            \/ k = "hand" /\ a = ch /\ b = None
               /\ (v \in {sg} \/ Holds("buffer", ch, x, v))
      BY <1>2, <2>4, <2>5, <3>1, <3>2 DEF Holds
    <3>4. \A v : ~Holds("buffer", ch, x, v)'
      BY <3>1 DEF Holds
    <3>5. Flow(ch, {sg}, "buffer", ch, x, "hand", ch, None)
      BY <2>6, <3>3, <3>4 DEF Flow
    <3> QED
      BY <3>5
  <2>8. CASE buffer' = [buffer EXCEPT ![ch][x] = kept] /\ NextFace(ch)
    <3>1. hand'[ch].votes = {} /\ buffer'[ch][x] = kept
      BY <1>3, <2>4, <2>8 DEF NextFace, TypeOK, Hand
    <3>2. \A d \in Children, t \in Students :
            d # ch \/ t # x => buffer'[d][t] = buffer[d][t]
      BY <2>4, <2>8 DEF TypeOK
    <3>3. \A k, a, b, v : Holds(k, a, b, v)' =>
            \/ Holds(k, a, b, v)
            \/ k = "buffer" /\ a = ch /\ b = x
               /\ (v \in {sg} \/ Holds("buffer", ch, x, v))
      BY <1>2, <2>4, <2>5, <3>1, <3>2 DEF Holds
    <3>4. Flow(ch, {sg}, "buffer", ch, x, "buffer", ch, x)
      BY <2>6, <3>3 DEF Flow
    <3> QED
      BY <3>4
  <2> QED
    BY <1>4, <2>1, <2>2, <2>3, <2>7, <2>8 DEF Confirm
<1>5. CASE ~Confirm(ch) /\ log' = log
  <2>1. \A d \in Children, t \in Students : buffer'[d][t] \subseteq buffer[d][t]
    BY <1>5 DEF Work, Start, TakeFrame, EndFrame, Unmatched, Claim, Suppress,
         PassBlindly, Commit, Leave, Die, TypeOK
  <2>2. hand'[ch].votes \in {{}, hand[ch].votes}
    <3>1. CASE Claim(ch) \/ PassBlindly(ch) \/ Unmatched(ch)
      BY <1>3, <3>1 DEF Claim, PassBlindly, Unmatched, TypeOK, Hand
    <3>2. CASE Took(ch) \/ Rested(ch)
      BY <3>2 DEF Took, Rested, NoHand
    <3>3. CASE Suppress(ch) \/ Commit(ch)
      BY <1>3, <3>3 DEF Suppress, Commit, NextFace, TypeOK, Hand
    <3>4. CASE Start(ch) \/ TakeFrame(ch) \/ EndFrame(ch) \/ Leave(ch) \/ Die(ch)
      BY <1>2, <3>2, <3>4 DEF Start, TakeFrame, EndFrame, Leave, Die, End, Went, Busy,
                              TypeOK
    <3> QED
      BY <1>5, <3>1, <3>3, <3>4 DEF Work
  <2>3. \A k, a, b, v : Holds(k, a, b, v)' => Holds(k, a, b, v)
    BY <1>2, <1>5, <2>1, <2>2 DEF Holds
  <2> QED
    BY <1>1, <2>3
<1>6. CASE ~Confirm(ch) /\ log' # log
  <2>1. PICK kind \in {"first", "repeat"}, outcome \in {"none", "entry", "exit"} :
          log' = Append(log, Row(ch, kind, outcome))
          /\ NextFace(ch) /\ buffer' = buffer /\ hand[ch].faces # << >>
    BY <1>6, OutcomeTyped
    DEF Work, Start, TakeFrame, EndFrame, Unmatched, Claim, Suppress,
        PassBlindly, Commit, Leave, Die, End, TypeOK
  <2>2. PICK n : n = Len(log) + 1
    OBVIOUS
  <2>3. Row(ch, kind, outcome) \in LogRow
    BY <2>1, RowTyped
  <2>4. /\ DOMAIN log' = DOMAIN log \cup {n} /\ n \notin DOMAIN log
        /\ \A i \in DOMAIN log : log'[i] = log[i]
        /\ log'[n].votes = hand[ch].votes
    BY <2>1, <2>2, <2>3, Appended DEF Row
  <2>5. hand'[ch].votes = {}
    BY <1>3, <2>1 DEF NextFace, TypeOK, Hand
  <2>6. \A k, a, b, v : Holds(k, a, b, v)' =>
          \/ Holds(k, a, b, v)
          \/ k = "log" /\ a = n /\ b = None
             /\ (v \in {} \/ Holds("hand", ch, None, v))
    BY <1>2, <2>1, <2>4, <2>5 DEF Holds
  <2>7. \A v : ~Holds("hand", ch, None, v)'
    BY <2>5 DEF Holds
  <2>8. Flow(ch, {}, "hand", ch, None, "log", n, None)
    BY <2>6, <2>7 DEF Flow
  <2> QED
    BY <2>8
<1> QED
  BY <1>4, <1>5, <1>6

(* Every step of a pipeline keeps the votes with one holder, and known.    *)
LEMMA OwnerStep ==
  ASSUME TypeOK, FramesApart, Ready, AllKnown, OneOwner, NEW ch \in Children, Work(ch)
  PROVE  AllKnown' /\ OneOwner'
<1>1. PICK fresh, sk, sa, sb, tk, ta, tb : Flow(ch, fresh, sk, sa, sb, tk, ta, tb)
  BY VotesMove
<1>2. ASSUME NEW v \in fresh PROVE ~Known(v) /\ Known(v)'
  <2>1. Confirm(ch) /\ v = Sighting(hand[ch])
    BY <1>1 DEF Flow
  <2> QED
    BY <2>1, FreshVote
<1>3. ASSUME NEW k, NEW a, NEW b, NEW v, Holds(k, a, b, v)
      PROVE  Known(v)'
  <2>1. v \in Vote /\ Known(v)
    BY <1>3, HeldTyped DEF AllKnown
  <2> QED
    BY <2>1, KnownStays
<1>4. AllKnown'
  <2> SUFFICES ASSUME NEW k, NEW a, NEW b, NEW v, Holds(k, a, b, v)' PROVE Known(v)'
    BY DEF AllKnown
  <2>1. Holds(k, a, b, v) \/ v \in fresh \/ Holds(sk, sa, sb, v)
    BY <1>1 DEF Flow
  <2> QED
    BY <2>1, <1>2, <1>3
<1>5. OneOwner'
  <2>1. \A v \in fresh : ~Known(v)
    BY <1>2
  <2> QED
    BY <1>1, <2>1, OwnerMoves
<1> QED
  BY <1>4, <1>5

(* Every step of the system keeps the vote invariant.                      *)
LEMMA VoteStep ==
  ASSUME TypeOK, VoteInv, [Next]_vars
  PROVE  VoteInv'
<1>1. ASSUME NEW ch \in Children, Work(ch) PROVE VoteInv'
  BY <1>1, FramesApartStep, InTimeStep, ReadyStep, OwnerStep DEF VoteInv
<1>2. ASSUME Tick \/ UNCHANGED vars PROVE VoteInv'
  <2>1. UNCHANGED <<frames, at, hand, clock, buffer, log>>
    BY <1>2 DEF Tick, pipelines, vars
  <2>2. FramesApart' /\ Ready'
    BY <2>1 DEF VoteInv, FramesApart, Ready, Busy, Face
  <2>3. InTime'
    <3>1. now' = now \/ now' = now + 1
      BY <1>2 DEF Tick, vars
    <3>2. \A ch \in Children, s \in Students : \A v \in buffer[ch][s] : v \in Vote
      BY DEF TypeOK
    <3>3. now \in Nat
      BY TimeFacts DEF TypeOK
    <3>4. ASSUME NEW ch \in Children, NEW s \in Students, NEW v \in buffer[ch][s]
          PROVE  v.ts <= now' /\ (at[ch] # "off" => v.ts <= clock[ch])
      <4>1. v.ts \in Nat
        BY <3>2, TimeFacts DEF Vote
      <4>2. v.ts <= now /\ (at[ch] # "off" => v.ts <= clock[ch])
        BY DEF VoteInv, InTime
      <4> QED
        BY <3>1, <3>3, <4>1, <4>2
    <3> QED
      BY <2>1, <3>4 DEF InTime
  <2>4. /\ \A k, a, b, v : Holds(k, a, b, v)' <=> Holds(k, a, b, v)
        /\ \A v : Known(v)' <=> Known(v)
    BY <2>1 DEF Holds, Known, Busy
  <2>5. AllKnown' /\ OneOwner'
    BY <2>4 DEF VoteInv, AllKnown, OneOwner
  <2> QED
    BY <2>2, <2>3, <2>5 DEF VoteInv
<1> QED
  BY <1>1, <1>2 DEF Next, Work

(* Nobody holds a vote initially.                                          *)
LEMMA VoteInit == Init => VoteInv
<1> SUFFICES ASSUME Init PROVE VoteInv
  OBVIOUS
<1>1. /\ log = << >>
      /\ \A ch \in Children : hand[ch] = NoHand /\ NoHand.votes = {} /\ at[ch] = "off"
      /\ \A ch \in Children, s \in Students : buffer[ch][s] = {}
  BY DEF Init, NoHand
<1>2. \A k, a, b, v : ~Holds(k, a, b, v)
  BY <1>1 DEF Holds
<1> QED
  BY <1>1, <1>2 DEF VoteInv, FramesApart, InTime, Ready, AllKnown, OneOwner, Busy

(* The votes are in order in every state.                                  *)
THEOREM VoteInvariant == Spec => []VoteInv
<1>1. TypeOK /\ VoteInv /\ [Next]_vars => VoteInv'
  BY VoteStep
<1> QED
  BY <1>1, VoteInit, GateTypeCorrect, PTL DEF Spec

(* Every recorded student was confirmed by K sightings of the last Window  *)
(* seconds that confirmed nobody else and nothing twice.                   *)
THEOREM RowsStayEarned == Spec => []RowsEarned
<1>1. VoteInv => RowsEarned
  <2> SUFFICES ASSUME VoteInv, NEW i \in DOMAIN log, log[i].subject # Unknown
               PROVE  /\ Cardinality(log[i].votes) >= K
                      /\ \A v \in log[i].votes : v.ts \in (log[i].ts - Window) .. log[i].ts
                      /\ \A j \in DOMAIN log :
                           log[i].votes \cap log[j].votes # {} => i = j
    BY DEF RowsEarned
  <2>1. Earned(log[i].votes, log[i].ts)
    BY DEF VoteInv, Ready
  <2>2. ASSUME NEW j \in DOMAIN log, log[i].votes \cap log[j].votes # {} PROVE i = j
    <3>1. PICK v : v \in log[i].votes /\ v \in log[j].votes
      BY <2>2
    <3>2. Holds("log", i, None, v) /\ Holds("log", j, None, v)
      BY <3>1 DEF Holds
    <3> QED
      BY <3>2 DEF VoteInv, OneOwner
  <2> QED
    BY <2>1, <2>2 DEF Earned
<1> QED
  BY <1>1, VoteInvariant, PTL

=============================================================================
