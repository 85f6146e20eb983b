--------------------------- MODULE MCMeasurement ---------------------------
(* Instances of the measurement for TLC.                                   *)
EXTENDS Measurement
=============================================================================
