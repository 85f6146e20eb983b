--------------------------- MODULE MCGaOptimizer ---------------------------
(***************************************************************************)
(* Instances of the optimizer for TLC.  One is 4 raw units, so that        *)
(* fixed-point products truncate; parameters are multiples of One, the     *)
(* largest outside the bounds.                                             *)
(***************************************************************************)
EXTENDS GaOptimizer

MCOne     == 4
MCParams  == {0, 4, 8}
MCResults == {-4, 0, 3}
MCTwoParams == {0, 4}
MCTwoResults == {0, 3}
=============================================================================
