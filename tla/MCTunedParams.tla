--------------------------- MODULE MCTunedParams ---------------------------
(* Instances of the way of the parameters for TLC.                         *)
EXTENDS TunedParams
=============================================================================
