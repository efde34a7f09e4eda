---------------------------- MODULE MCControlMux ----------------------------
(* Instances of ControlMux: two or three clients on two priority levels.   *)
EXTENDS ControlMux, TLC

CONSTANTS a, b, c

Prio2 == a :> 0 @@ b :> 1
Prio3 == a :> 0 @@ b :> 1 @@ c :> 1

\* Sound with Prio3 only: b and c have the same priority, no definition names
\* either, and the properties of mux_safety are invariants and action formulas.
SamePriority == Permutations({b, c})
=============================================================================
