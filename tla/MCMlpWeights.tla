---------------------------- MODULE MCMlpWeights ----------------------------
(* Instances of the shared weights for TLC.                                *)
EXTENDS MlpWeights
=============================================================================
