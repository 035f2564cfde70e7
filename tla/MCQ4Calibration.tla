--------------------------- MODULE MCQ4Calibration ---------------------------
(* The multipliers that convert_tensor uses unless it is told others.       *)
EXTENDS Q4Calibration

MCWeights == {-2, 0, 1}
MCMultipliers == <<6, 7, 8, 9, 10>>

=============================================================================
