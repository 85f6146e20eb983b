-------------------------- MODULE MCTrainGovernor --------------------------
(* Instances of the training governor for TLC.                             *)
EXTENDS TrainGovernor

MCResults == {0, 1}
MCNegInf  == -9
=============================================================================
