-------------------------- MODULE MCVddCoreSampler --------------------------
(* Instances of the sampler for TLC.                                       *)
EXTENDS VddCoreSampler
=============================================================================
