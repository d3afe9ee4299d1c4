--------------------------- MODULE MCInferenceRpc ---------------------------
(***************************************************************************)
(* Instances of InferenceRpc for TLC.                                      *)
(***************************************************************************)
EXTENDS InferenceRpc

CONSTANTS f, g, bad

(* Two frames, and two of which the second does not decode.                *)
MCBatches == {<<g, f>>, <<f, bad>>}

=============================================================================
