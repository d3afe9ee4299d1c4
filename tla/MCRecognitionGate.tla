------------------------- MODULE MCRecognitionGate -------------------------
(***************************************************************************)
(* Instances of RecognitionGate for TLC.                                   *)
(***************************************************************************)
EXTENDS RecognitionGate, TLC

CONSTANTS s1, d1, d2

(* The student alone, a stranger, and the student matched by two faces.    *)
MCFaceLists == {<<s1>>, <<Unknown>>, <<s1, s1>>}

(* The children are interchangeable.                                       *)
MCSymmetry == Permutations(Children)

=============================================================================
