---------------------------- MODULE Matching ----------------------------
(* EmbeddingIndex.match: which student a probe is recorded as, given the   *)
(* entries <<student, face>> of an index.  Similarities are in percent.    *)
EXTENDS Integers, FiniteSets

CONSTANTS
    Faces,        \* embeddings
    Sim,          \* cosine similarity of two faces
    Threshold,    \* recognition_threshold
    Margin,       \* recognition_margin
    DuplicateSim  \* duplicate_identity_sim

ASSUME MatchingAssumption ==
    /\ Sim \in [Faces \X Faces -> Int]
    /\ \A f, g \in Faces : Sim[<<f, g>>] = Sim[<<g, f>>]
    /\ {Threshold, Margin, DuplicateSim} \subseteq Int
    /\ Margin >= 0

(* The thresholds as they are tuned: a face is alike in full to itself and *)
(* to no other, and the same human enrolled twice is told from a rival.    *)
Calibrated ==
    /\ \A f, g \in Faces : Sim[<<f, g>>] <= 100 /\ (Sim[<<f, g>>] = 100 <=> f = g)
    /\ Threshold <= 100
    /\ DuplicateSim + Margin <= 100

NoMatch == 0  \* student ids start at 1

FacesIn(entries, s) == {e[2] : e \in {x \in entries : x[1] = s}}
StudentsIn(entries) == {e[1] : e \in entries}

(* The best of the photos of a student.                                    *)
Scores(entries, s, f) == {Sim[<<g, f>>] : g \in FacesIn(entries, s)}
Score(entries, s, f) ==
    CHOOSE v \in Scores(entries, s, f) : \A w \in Scores(entries, s, f) : w <= v

(* The highest score, at a tie the lowest id: argmax over sorted ids.      *)
Winner(entries, f) ==
    CHOOSE s \in StudentsIn(entries) : \A t \in StudentsIn(entries) :
        \/ Score(entries, s, f) > Score(entries, t, f)
        \/ Score(entries, s, f) = Score(entries, t, f) /\ s <= t

(* Mutant: two rows are always two humans.                                 *)
NeverSameHuman(entries, s, t) == FALSE

(* The same human enrolled twice.                                          *)
SameHuman(entries, s, t) ==
    \E g \in FacesIn(entries, s), h \in FacesIn(entries, t) : Sim[<<g, h>>] >= DuplicateSim

Match(entries, f) ==
    IF entries = {} THEN NoMatch
    ELSE LET w == Winner(entries, f)
             rivals == {t \in StudentsIn(entries) \ {w} : ~SameHuman(entries, w, t)}
         IN  IF /\ Score(entries, w, f) >= Threshold
                /\ \A t \in rivals : Score(entries, w, f) - Score(entries, t, f) >= Margin
             THEN w ELSE NoMatch
=============================================================================
