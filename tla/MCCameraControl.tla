-------------------------- MODULE MCCameraControl --------------------------
(***************************************************************************)
(* Instances of CameraControl for TLC.                                     *)
(***************************************************************************)
EXTENDS CameraControl, TLC

(* Cameras are interchangeable, and so are task identities and API threads *)
(* (used in runs without liveness properties only).                        *)
Interchangeable ==
  Permutations(Cameras) \cup Permutations(Tasks) \cup Permutations(Requests)

=============================================================================
