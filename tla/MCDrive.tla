------------------------------ MODULE MCDrive ------------------------------
(* A step changes the velocity by at most one pulse per period (a quarter  *)
(* with the constants of the azimuth axis); the range of positions is      *)
(* three pulses, the targets and the speed set by a client lie on both     *)
(* sides of the limits.                                                    *)
EXTENDS Drive

MCMinPos  == -1
MCTargets == {-1, 5}
MCSpeeds  == {-3, 2}
=============================================================================
