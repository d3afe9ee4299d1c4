---------------------------- MODULE MCFrames ----------------------------
(* Instances of Frames for TLC.                                            *)
EXTENDS Frames

CONSTANTS a, b, c, d, u, e

(* One face; three, of which the most central two are not in the order of  *)
(* their scores; one that is too small to use.                             *)
MCSource == <<<<b, c, d>>, <<a>>, <<u>>, <<a>>>>
MCOthers == {<<>>, <<<<e>>>>}
MCScore == [f \in Faces |-> CASE f = b -> 3 [] f = c -> 2 [] OTHER -> 1]
MCCentral == [f \in Faces |-> CASE f = c -> 3 [] f = b -> 2 [] OTHER -> 1]
=============================================================================
