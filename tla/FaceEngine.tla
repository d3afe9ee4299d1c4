--------------------------- MODULE FaceEngine ---------------------------
(* One call of the face engine, as data: which faces of which images it    *)
(* finds, embeds and returns, and how the stages' results are put together *)
(* again.  A face stands for its box; a vector is named by the face it was *)
(* computed from, so a vector that ends up at another face shows.          *)
EXTENDS Integers, Sequences, SequencesExt, FiniteSets

CONSTANTS
    Faces,      \* what a detector may find
    Score,      \* detection score
    Central,    \* how large and central the face is in its image
    Usable,     \* the faces that can be aligned and pass the quality gate
    MaxFaces    \* max_faces_per_frame

ASSUME EngineAssumption ==
    /\ Score \in [Faces -> Nat] /\ Central \in [Faces -> Nat]
    /\ Usable \subseteq Faces
    /\ MaxFaces \in Nat \ {0}

(* The members of a set one after the other, as the linear order R has it. *)
Arranged(S, R) ==
    [n \in 1 .. Cardinality(S) |->
        CHOOSE x \in S : Cardinality({y \in S : <<y, x>> \in R}) = n - 1]

(* Positions, those of the highest value first: a stable sort.             *)
ByValue(K, value) ==
    Arranged(K, {ij \in K \X K : \/ value[ij[1]] > value[ij[2]]
                                 \/ value[ij[1]] = value[ij[2]] /\ ij[1] < ij[2]})
InTurn(K) == ByValue(K, [k \in K |-> 0])
Top(order) == [p \in DOMAIN order \cap (1 .. MaxFaces) |-> order[p]]

(* What the detector returns for an image: its faces, best score first; if *)
(* there are too many the most central ones, in that order.                *)
Detect(image) ==
    LET best == Top(ByValue(DOMAIN image, [i \in DOMAIN image |-> Central[image[i]]]))
    IN IF Len(image) <= MaxFaces THEN image ELSE [p \in DOMAIN best |-> image[best[p]]]

(* The crops of all images in one sequence, each with its image.           *)
Aligned(images) ==
    LET found == [i \in DOMAIN images |-> Detect(images[i])]
        places == {ij \in (DOMAIN images) \X (1 .. MaxFaces) :
                    ij[2] \in DOMAIN found[ij[1]] /\ found[ij[1]][ij[2]] \in Usable}
        order == Arranged(places, {pq \in places \X places :
                    \/ pq[1][1] < pq[2][1]
                    \/ pq[1][1] = pq[2][1] /\ pq[1][2] < pq[2][2]})
    IN [k \in DOMAIN order |->
            [image |-> order[k][1], face |-> found[order[k][1]][order[k][2]]]]

(* Mutant: the vectors of the chunks before the failing one are kept too.  *)
EmbeddedTwice(crops, kept) ==
    LET order == InTurn(kept)
        once == [i \in DOMAIN order |-> crops[order[i]].face]
    IN IF Len(crops) > 1 THEN <<crops[1].face>> \o once ELSE once

(* The vectors that come back: of every crop, or, when the batched call    *)
(* failed and the crops are retried one by one, of those in kept.          *)
Embedded(crops, kept) ==
    LET order == InTurn(kept) IN [i \in DOMAIN order |-> crops[order[i]].face]

Result(crop, vector) ==
    [image |-> crop.image, face |-> crop.face, score |-> Score[crop.face], vector |-> vector]

(* Vectors go to crops by position; crops left over get none.  Each image  *)
(* gets its results, best score first, and no more than MaxFaces.          *)
Assembled(images, crops, vectors) ==
    LET all == [k \in DOMAIN crops \cap DOMAIN vectors |-> Result(crops[k], vectors[k])]
        Of(i) == {k \in DOMAIN all : all[k].image = i}
        best(i) == Top(ByValue(Of(i), [k \in Of(i) |-> all[k].score]))
    IN [i \in DOMAIN images |-> [p \in DOMAIN best(i) |-> all[best(i)[p]]]]
=============================================================================
