---------------------------- MODULE MCGallery ----------------------------
(* Faces a and b can be enrolled; c is a passer-by who resembles both.      *)
(* Uploads are good, or lack a face.  The imports have a folder with too   *)
(* many photos, a poor photo that is not checked, a bad row, a dry run.    *)
EXTENDS Gallery, TLC

CONSTANTS a, b, c, n1, n2, n3

Alikeness == [p \in Faces \X Faces |->
    IF p[1] = p[2] THEN 100 ELSE IF c \notin {p[1], p[2]} THEN 35
    ELSE IF a \in {p[1], p[2]} THEN 47 ELSE 41]

Shot(f) == [face |-> f, crowd |-> FALSE, fit |-> TRUE]
Poor(f) == [face |-> f, crowd |-> TRUE, fit |-> FALSE]
MCPhotoSets == {<<Shot(b), Shot(b)>>, <<Shot(b), Shot(a)>>, <<Shot(b), Shot(NoFace)>>}
MCLegacy == <<[reg |-> n1, photos |-> <<Shot(a), Shot(a)>>]>>
MCImports ==
    UNION {{[rows |-> <<[reg |-> n, photos |-> <<Shot(b), Shot(b), Shot(a)>>],
                        [reg |-> m, photos |-> <<Shot(a), Poor(a)>>]>>,
             dry |-> FALSE, skip |-> TRUE],
            [rows |-> <<[reg |-> Bad, photos |-> <<>>], [reg |-> n, photos |-> <<Shot(b), Shot(b)>>]>>,
             dry |-> TRUE, skip |-> FALSE]} : <<n, m>> \in {<<n2, n3>>, <<n3, n2>>}}

ASSUME InstanceCalibrated == Calibrated

MCSymmetry == Permutations(Requests) \cup Permutations({n2, n3})
=============================================================================
