-------------------------------- MODULE Axis --------------------------------
(***************************************************************************)
(* The motion of one axis of dishp: axis.step of src/sw/dishp/src/main.cpp *)
(* with the modes of its main loop, one step per period.  Positions are    *)
(* pulses and currentSub counts 1/Frequency of a pulse, so that a velocity *)
(* is what one period adds to it.  What interpolation yields in TRACK is   *)
(* free.                                                                   *)
(***************************************************************************)
EXTENDS Integers, FiniteSetsExt

CONSTANTS
  Frequency, MinPos, MaxPos, MaxVelHard, MaxAccel,   \* of the axis
  Targets,      \* positions a move or interpolation may ask for
  TargetVels,   \* velocities of interpolation
  Speeds        \* values of altspeed or azspeed, without their fractions

ASSUME AxisAssumption ==
  /\ Frequency \in Nat \ {0} /\ MaxVelHard \in Nat
  /\ MaxAccel \in Nat /\ MaxAccel >= Frequency
  /\ MinPos \in Int /\ MaxPos \in Int /\ MinPos <= 0 /\ 0 <= MaxPos
  /\ Targets \subseteq Int /\ TargetVels \subseteq Int
  /\ Speeds \subseteq Int /\ \E soft \in Speeds : soft > 0

VARIABLES
  mode, target, maxVelSoft,
  current, currentSub, currentVel

axisVars == <<mode, target, maxVelSoft, current, currentSub, currentVel>>

AxisTypeOK ==
  /\ mode \in {"IDLE", "TRACK", "MOVE"}
  /\ {target, current, currentSub, currentVel} \subseteq Int
  /\ maxVelSoft \in Speeds

AxisInit ==
  /\ mode = "IDLE" /\ target = 0 /\ maxVelSoft \in Speeds /\ maxVelSoft > 0
  /\ current = 0 /\ currentSub = 0 /\ currentVel = 0

-----------------------------------------------------------------------------
(* Arithmetic of C: division truncates towards zero *)

abs(n) == IF n < 0 THEN -n ELSE n
min(a, b) == IF a < b THEN a ELSE b
clamp(v, lo, hi) == IF v < lo THEN lo ELSE IF v < hi THEN v ELSE hi
Quotient(a, b) == IF a < 0 THEN -((-a) \div b) ELSE a \div b

-----------------------------------------------------------------------------
(* axis.step, towards target t with velocity tv there *)

Direction(t) == IF t > current THEN 1 ELSE IF t < current THEN -1 ELSE 0

\* Mutant: the whole of the target pulse is aimed at, not its middle.
RestNoMiddle(t) == abs(t * Frequency + Frequency - currentSub)

\* What is left to the middle of the target pulse (if t >= 0).
Rest(t) == abs(t * Frequency + Frequency \div 2 - currentSub)

VelLimit(soft) == min(MaxVelHard, soft)

\* sqrt, cast to a whole number.
Root(n) == Max({v \in 0..n : v * v <= n})

\* The velocity that decelerates to tv just in time, or the limit.
Approach(t, tv, soft) ==
  min(VelLimit(soft),
      Root(2 * abs(t - current) * (MaxAccel - MaxAccel \div 12) + tv * tv))

Wanted(t, tv, soft) == Direction(t) * min(abs(Direction(t)) * Approach(t, tv, soft), Rest(t))

\* Mutant: the last clamp is left out.
NewVelUnclamped(t, tv, soft) ==
  clamp(Wanted(t, tv, soft), currentVel - MaxAccel \div Frequency,
                             currentVel + MaxAccel \div Frequency)

NewVel(t, tv, soft) ==
  clamp(clamp(Wanted(t, tv, soft), currentVel - MaxAccel \div Frequency,
                                   currentVel + MaxAccel \div Frequency),
        -VelLimit(soft), VelLimit(soft))

\* Mutant: the target is not clamped to the range.
InRangeNot(t) == t
InRange(t) == clamp(t, MinPos, MaxPos)

Step(t, tv, soft) ==
  /\ target' = InRange(t)
  /\ \E v \in {NewVel(InRange(t), tv, soft)} :
       /\ currentVel' = v
       /\ currentSub' = currentSub + v
       /\ current' = Quotient(currentSub + v, Frequency)

in_position(t) == current = t /\ currentVel = 0

-----------------------------------------------------------------------------
(* One period: at most one command, the mode, the step *)

\* Whatever has happened to the mode m and the target t in this period.
Advance(m, t, soft) ==
  /\ maxVelSoft' = soft
  /\ \/ m = "MOVE" /\ ~in_position(t) /\ mode' = "MOVE" /\ Step(t, 0, soft)
     \/ m = "MOVE" /\ in_position(t) /\ mode' = "IDLE" /\ Step(current, 0, soft)
     \/ m = "IDLE" /\ mode' = "IDLE" /\ Step(current, 0, soft)
     \/ /\ m = "TRACK" /\ mode' = "TRACK"
        /\ \/ \E pos \in Targets, tv \in TargetVels : Step(pos, tv, soft)
           \/ Step(current, 0, soft)   \* a second and more before the first point
     \/ m = "TRACK" /\ mode' = "IDLE" /\ Step(current, 0, soft)   \* out of points

Move == mode # "TRACK" /\ \E t \in Targets : Advance("MOVE", t, maxVelSoft)
Track == Advance("TRACK", target, maxVelSoft)
Flush == Advance("IDLE", target, maxVelSoft)
SetSpeed == \E soft \in Speeds : Advance(mode, target, soft)

Command == Move \/ Track \/ Flush \/ SetSpeed
Continue == Advance(mode, target, maxVelSoft)

-----------------------------------------------------------------------------
(* Properties *)

\* A parameter that is not negative, and with it the hard limit, bounds the
\* velocity at every step; it changes by no more than the acceleration allows
\* unless the parameter was lowered or negative.  A negative parameter, which
\* nothing refuses (356-357), turns min and clamp around (193-218): the axis
\* then never rests, and moves as fast as the parameter says, whatever the hard
\* limit is.
SpeedKept ==
  [][/\ maxVelSoft' >= 0 => currentVel' \in -VelLimit(maxVelSoft')..VelLimit(maxVelSoft')
     /\ 0 <= maxVelSoft /\ maxVelSoft <= maxVelSoft' =>
          currentVel' - currentVel \in -(MaxAccel \div Frequency)..(MaxAccel \div Frequency)
     /\ maxVelSoft' < 0 => abs(currentVel') = -maxVelSoft'
    ]_axisVars

\* Nothing decelerates before a limit of the range if the target changes
\* late (the TODO at 211), but outside the range the axis is brought back:
\* it slows down until it turns, unless the speed parameter is negative.
BroughtBack ==
  [][maxVelSoft' >= 0 =>
       /\ current > MaxPos /\ currentVel > 0 => currentVel' < currentVel
       /\ current < MinPos /\ currentVel < 0 => currentVel' > currentVel]_axisVars
=============================================================================
