------------------------ MODULE MCInferenceGovernor ------------------------
(* Instances of the inference governor for TLC.                            *)
EXTENDS InferenceGovernor
=============================================================================
