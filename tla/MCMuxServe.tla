----------------------------- MODULE MCMuxServe -----------------------------
(* Three connections on two priority levels; a name for every process one  *)
(* of them can still refer to.                                             *)
EXTENDS MuxServe, TLC

CONSTANTS a, b, c, g1, g2, g3

Prio2 == a :> 0 @@ b :> 1
Prio3 == a :> 0 @@ b :> 0 @@ c :> 1
=============================================================================
