---------------------------- MODULE MCSpeedLimits ----------------------------
(* Model-checking instance of SpeedLimits.                                  *)
EXTENDS SpeedLimits
=============================================================================
