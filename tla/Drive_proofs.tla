---------------------------- MODULE Drive_proofs ----------------------------
(***************************************************************************)
(* Proofs about either axis of dishp for any range, limits, frequency and  *)
(* speed parameters: what bounds the velocity, that an axis outside its    *)
(* range is brought back, and that a pulse thread that keeps up with the   *)
(* periods makes exactly the pulses the axis has counted, within the       *)
(* limits, whatever it does for the other axis in between.                 *)
(***************************************************************************)
EXTENDS Drive, NumberFacts

USE AxisAssumption, PulseAssumption

-----------------------------------------------------------------------------
(* The arithmetic of a step *)

\* A period changes the velocity by a positive whole number at most.
LEMMA AccelStep == MaxAccel \div Frequency \in Nat \ {0}
  OBVIOUS

\* The limit of the velocity: a number of pulses per period, or the parameter
\* itself if that is negative.
LEMMA LimitInt ==
  \A soft \in Int :
    /\ VelLimit(soft) \in Int
    /\ soft >= 0 => VelLimit(soft) \in Nat
    /\ soft < 0 => VelLimit(soft) = soft
  BY DEF VelLimit, min

\* Quotient yields a whole number.
LEMMA QuotientInt == \A a \in Int : Quotient(a, Frequency) \in Int
  BY DEF Quotient

\* The square root exists: zero is one of the numbers it is chosen from.
LEMMA RootNat ==
  ASSUME NEW n \in Nat
  PROVE  Root(n) \in Nat
<1> DEFINE S == {v \in 0..n : v * v <= n}
<1>1. 0 \in S
  OBVIOUS
<1>2. S \subseteq 0..n /\ S # {}
  BY <1>1
<1>3. \E x \in S : \A y \in S : x >= y
  <2> HIDE DEF S
  <2> QED
    BY <1>2, GreatestUpTo
<1>4. Max(S) \in S
  BY <1>3 DEF Max
<1>5. QED
  BY <1>4 DEF Root

\* The velocity of approach is a whole number, not negative unless the
\* parameter is.
LEMMA ApproachInt ==
  ASSUME NEW t \in Int, NEW tv \in Int, NEW soft \in Int, current \in Int
  PROVE  Approach(t, tv, soft) \in Int /\ (soft >= 0 => Approach(t, tv, soft) \in Nat)
<1> DEFINE room == 2 * abs(t - current) * (MaxAccel - MaxAccel \div 12) + tv * tv
<1>1. room \in Nat
  <2>1. abs(t - current) \in Nat
    BY DEF abs
  <2>2. MaxAccel - MaxAccel \div 12 \in Nat
    OBVIOUS
  <2>3. \A a, b \in Nat : 2 * a * b \in Nat
    OBVIOUS
  <2>4. tv * tv \in Nat
    OBVIOUS
  <2>5. QED
    BY <2>1, <2>2, <2>3, <2>4
<1>2. Root(room) \in Nat
  BY <1>1, RootNat
<1>3. Approach(t, tv, soft) = min(VelLimit(soft), Root(room))
  BY DEF Approach
<1>4. QED
  <2> HIDE DEF room
  <2> QED
    BY <1>2, <1>3, LimitInt DEF min

\* The wanted velocity points to the target, unless the parameter is negative.
LEMMA WantedSign ==
  ASSUME NEW t \in Int, NEW tv \in Int, NEW soft \in Int, current \in Int, currentSub \in Int
  PROVE  /\ Wanted(t, tv, soft) \in Int
         /\ soft >= 0 /\ t < current => Wanted(t, tv, soft) <= 0
         /\ soft >= 0 /\ t > current => Wanted(t, tv, soft) >= 0
<1>1. Rest(t) \in Nat
  <2>1. \A n \in Int : abs(n) \in Nat
    BY DEF abs
  <2>2. t * Frequency \in Int /\ Frequency \div 2 \in Int
    OBVIOUS
  <2>3. QED
    BY <2>1, <2>2 DEF Rest
<1>2. /\ Approach(t, tv, soft) \in Int
      /\ soft >= 0 => Approach(t, tv, soft) \in Nat
  BY ApproachInt
<1>3. CASE t < current
  BY <1>1, <1>2, <1>3 DEF Wanted, Direction, min, abs
<1>4. CASE t > current
  BY <1>1, <1>2, <1>4 DEF Wanted, Direction, min, abs
<1>5. CASE t = current
  BY <1>1, <1>2, <1>5 DEF Wanted, Direction, min, abs
<1>6. QED
  BY <1>3, <1>4, <1>5

\* The velocity after a step.  Unless the parameter is negative: within the
\* limits, as near to the one before as the acceleration allows, and turned back
\* outside the range.  Otherwise it is the parameter, in one direction.
VelocityKept(old, soft) ==
  /\ soft >= 0 => currentVel' \in -VelLimit(soft)..VelLimit(soft)
  /\ 0 <= old /\ old <= soft =>
       currentVel' - currentVel \in -(MaxAccel \div Frequency)..(MaxAccel \div Frequency)
  /\ soft < 0 => abs(currentVel') = -soft
  /\ soft >= 0 =>
       /\ current > MaxPos /\ currentVel > 0 => currentVel' < currentVel
       /\ current < MinPos /\ currentVel < 0 => currentVel' > currentVel

\* What the invariant says of the axis.
AxisInv ==
  /\ AxisTypeOK
  /\ maxVelSoft >= 0 => currentVel \in -VelLimit(maxVelSoft)..VelLimit(maxVelSoft)

\* A step with any parameters keeps all of that.
LEMMA StepKeeps ==
  ASSUME AxisInv, NEW t \in Int, NEW tv \in Int, NEW soft \in Speeds, Step(t, tv, soft)
  PROVE  /\ VelocityKept(maxVelSoft, soft)
         /\ {target', current', currentSub', currentVel'} \subseteq Int
<1> DEFINE W == Wanted(InRange(t), tv, soft)
           D == MaxAccel \div Frequency
           L == VelLimit(soft)
<1>1. /\ {current, currentSub, currentVel} \subseteq Int
      /\ soft \in Int /\ maxVelSoft \in Int
  BY DEF AxisInv, AxisTypeOK
<1>2. /\ InRange(t) \in Int
      /\ current > MaxPos => InRange(t) < current
      /\ current < MinPos => InRange(t) > current
  BY <1>1 DEF InRange, clamp
<1>3. /\ W \in Int
      /\ soft >= 0 /\ current > MaxPos => W <= 0
      /\ soft >= 0 /\ current < MinPos => W >= 0
  BY <1>1, <1>2, WantedSign
<1>4. /\ D \in Nat \ {0} /\ L \in Int
      /\ soft >= 0 => L \in Nat
      /\ soft < 0 => L = soft
  BY <1>1, AccelStep, LimitInt
<1>5. currentVel' = clamp(clamp(W, currentVel - D, currentVel + D), -L, L)
  BY DEF Step, NewVel
<1>6. 0 <= maxVelSoft /\ maxVelSoft <= soft => currentVel \in -L..L
  BY <1>1 DEF AxisInv, VelLimit, min
<1>7. VelocityKept(maxVelSoft, soft) /\ currentVel' \in Int
  <2> HIDE DEF W, D, L
  <2>1. /\ soft >= 0 => currentVel' \in -L..L
        /\ soft >= 0 /\ currentVel \in -L..L => currentVel' - currentVel \in -D..D
        /\ soft >= 0 /\ current > MaxPos /\ currentVel > 0 => currentVel' < currentVel
        /\ soft >= 0 /\ current < MinPos /\ currentVel < 0 => currentVel' > currentVel
        /\ currentVel' \in Int
    BY <1>1, <1>3, <1>4, <1>5 DEF clamp
  <2>2. soft < 0 => abs(currentVel') = -soft
    BY <1>1, <1>3, <1>4, <1>5 DEF clamp, abs
  <2>3. 0 <= maxVelSoft /\ maxVelSoft <= soft => soft >= 0
    BY <1>1
  <2>4. QED
    BY <1>6, <2>1, <2>2, <2>3 DEF VelocityKept, L, D
<1>8. {target', current', currentSub', currentVel'} \subseteq Int
  BY <1>1, <1>2, <1>7, QuotientInt DEF Step
<1>9. QED
  BY <1>7, <1>8

\* Every period is a step towards some target.
LEMMA AdvanceKeeps ==
  ASSUME AxisInv, NEW m \in {"IDLE", "TRACK", "MOVE"}, NEW t \in Int, NEW soft \in Speeds,
         Advance(m, t, soft)
  PROVE  AxisInv' /\ maxVelSoft' = soft /\ VelocityKept(maxVelSoft, soft)
<1>1. current \in Int /\ 0 \in Int
  BY DEF AxisInv, AxisTypeOK
<1>2. /\ maxVelSoft' = soft /\ mode' \in {"IDLE", "TRACK", "MOVE"}
      /\ \E a, tv \in Int : Step(a, tv, soft)
  BY <1>1 DEF Advance
<1>3. /\ VelocityKept(maxVelSoft, soft)
      /\ {target', current', currentSub', currentVel'} \subseteq Int
  BY <1>2, StepKeeps
<1>4. QED
  BY <1>2, <1>3 DEF AxisInv, AxisTypeOK, VelocityKept

\* And so does a period of the main loop, with a command or without.
LEMMA PeriodKeeps ==
  ASSUME AxisInv, Command \/ Continue
  PROVE  AxisInv' /\ VelocityKept(maxVelSoft, maxVelSoft')
<1>1. mode \in {"IDLE", "TRACK", "MOVE"} /\ target \in Int /\ maxVelSoft \in Speeds
  BY DEF AxisInv, AxisTypeOK
<1>2. \E m \in {"IDLE", "TRACK", "MOVE"}, t \in Int, soft \in Speeds : Advance(m, t, soft)
  BY <1>1 DEF Command, Continue, Move, Track, Flush, SetSpeed
<1>3. QED
  BY <1>2, AdvanceKeeps

-----------------------------------------------------------------------------
(* The pulse thread *)

\* What the invariant says of a thread that keeps up.
OnTimeInv == ~late => UpdateInv /\ ThreadInv /\ ChaseInv /\ TargetInv

\* What the invariant says of the types of the thread and its variables.
PulseInv == ValuesOK /\ FlagsOK /\ stopping \in BOOLEAN

\* A period that begins on time finds the thread waiting.
LEMMA PeriodOnTime ==
  ASSUME PulseInv, OnTimeInv, current' \in Int, Period(TRUE)
  PROVE  PulseInv' /\ OnTimeInv'
<1> USE DEF Period, FirstTarget, ThisTarget, OtherTarget, MainAt, BeginPeriod
<1>1. Limited(current') \in Int
  BY DEF Limited, clamp
<1>2. ValuesOK'
  BY <1>1 DEF PulseInv, ValuesOK
<1>3. FlagsOK' /\ stopping' \in BOOLEAN
  BY Zenon DEF PulseInv, FlagsOK
<1>4. OnTimeInv'
  BY DEF OnTimeInv, UpdateInv, ThreadInv, ChaseInv, TargetInv, Caught
<1>5. QED
  BY <1>2, <1>3, <1>4 DEF PulseInv

\* The second target is written with the thread still waiting.
LEMMA TargetOnTime ==
  ASSUME PulseInv, OnTimeInv, current \in Int, SecondTarget(Limited(current)),
         UNCHANGED <<axisVars, stopping>>
  PROVE  PulseInv' /\ OnTimeInv'
<1> USE DEF SecondTarget, ThisTarget, OtherTarget, MainAt, FirstAxis, axisVars
<1>1. Limited(current) \in Int
  BY DEF Limited, clamp
<1>2. ValuesOK'
  BY <1>1 DEF PulseInv, ValuesOK
<1>3. FlagsOK' /\ stopping' \in BOOLEAN
  BY Zenon DEF PulseInv, FlagsOK
<1>4. OnTimeInv'
  BY DEF OnTimeInv, UpdateInv, ThreadInv, ChaseInv, TargetInv, Caught, Limited
<1>5. QED
  BY <1>2, <1>3, <1>4 DEF PulseInv

\* On time, the steps of update() find the thread waiting, and leave it a post
\* when its position is not the target.
LEMMA UpdateOnTime ==
  ASSUME PulseInv, OnTimeInv, UpdateStep, UNCHANGED <<axisVars, stopping>>
  PROVE  PulseInv' /\ OnTimeInv'
<1> USE DEF UpdateStep, MainAt, AfterThis, AfterOther, shared, axisVars
<1>1. ValuesOK'
  <2> USE DEF PulseInv, ValuesOK
  <2>1. CASE UpdateCompare \/ UpdateOther \/ UpdateOtherMark
    BY <2>1 DEF UpdateCompare, UpdateOther, UpdateOtherMark
  <2>2. CASE UpdateMark
    BY <2>2 DEF UpdateMark
  <2>3. CASE UpdateTurn
    BY <2>3 DEF UpdateTurn
  <2>4. CASE UpdateDir
    BY <2>4 DEF UpdateDir
  <2>5. CASE UpdatePost
    BY <2>5 DEF UpdatePost
  <2>6. QED
    BY <2>1, <2>2, <2>3, <2>4, <2>5
<1>2. FlagsOK' /\ stopping' \in BOOLEAN
  BY Zenon DEF PulseInv, FlagsOK, UpdateCompare, UpdateMark, UpdateTurn, UpdateDir, UpdateOther,
     UpdateOtherMark, UpdatePost
<1>3. OnTimeInv'
  <2> USE DEF OnTimeInv, UpdateInv, ThreadInv, ChaseInv, TargetInv, Caught, Pointed
  <2>0. /\ movTargetPos \in Int /\ movPosition \in Int /\ sem \in 0..SemMax
    BY DEF PulseInv, ValuesOK
  <2>1. CASE UpdateCompare
    BY <2>1 DEF UpdateCompare, Limited
  <2>2. CASE UpdateMark
    BY <2>2 DEF UpdateMark, Limited
  <2>3. CASE UpdateTurn
    BY <2>3 DEF UpdateTurn, Limited
  <2>4. CASE UpdateDir
    BY <2>0, <2>4 DEF UpdateDir, Limited
  <2>5. CASE UpdateOther
    BY <2>5 DEF UpdateOther, Limited
  <2>6. CASE UpdateOtherMark
    BY <2>6 DEF UpdateOtherMark, Limited
  <2>7. CASE UpdatePost
    <3>1. UpdateInv' \/ late
      BY <2>0, <2>7 DEF UpdatePost
    <3>2. ThreadInv' \/ late
      BY <2>0, <2>7 DEF UpdatePost
    <3>3. ChaseInv' \/ late
      BY <2>0, <2>7 DEF UpdatePost
    <3>4. TargetInv' \/ late
      BY <2>7 DEF UpdatePost, Limited
    <3>5. QED
      BY <2>7, <3>1, <3>2, <3>3, <3>4 DEF UpdatePost
  <2>8. QED
    BY <2>1, <2>2, <2>3, <2>4, <2>5, <2>6, <2>7
<1>4. QED
  BY <1>1, <1>2, <1>3 DEF PulseInv

\* The regulators stop only with the thread at its wait.
LEMMA StoppingOnTime ==
  ASSUME PulseInv, OnTimeInv, Stopping
  PROVE  PulseInv' /\ OnTimeInv'
<1> USE DEF Stopping, Stop, BeginPeriod, axisVars
<1>1. ValuesOK'
  BY DEF PulseInv, ValuesOK
<1>2. FlagsOK' /\ stopping' \in BOOLEAN
  BY Zenon DEF PulseInv, FlagsOK
<1>3. OnTimeInv'
  BY DEF OnTimeInv, UpdateInv, ThreadInv, ChaseInv, TargetInv, Caught, Pointed,
     Limited
<1>4. QED
  BY <1>1, <1>2, <1>3 DEF PulseInv

\* The steps of the thread; those of a thread on time happen while the main
\* thread rests and nothing stops.
LEMMA ThreadOnTime ==
  ASSUME PulseInv, OnTimeInv, ThreadStep, UNCHANGED <<axisVars, stopping>>
  PROVE  PulseInv' /\ OnTimeInv'
<1> USE DEF ThreadStep, ThreadAt, FirstAxis, AfterThis, AfterOther, shared, axisVars
<1>1. ValuesOK'
  <2> USE DEF PulseInv, ValuesOK
  <2>1. CASE ThreadWakes
    BY <2>1 DEF ThreadWakes
  <2>2. CASE ThreadTests \/ ThreadBusy
    BY <2>2 DEF ThreadTests, ThreadBusy
  <2>3. CASE ThreadLoops \/ ThreadCompares \/ ThreadPulses
    BY <2>3 DEF ThreadLoops, ThreadCompares, ThreadPulses
  <2>4. CASE ThreadCounts
    BY <2>4 DEF ThreadCounts
  <2>5. CASE ThreadOther \/ ThreadOtherCounts
    BY <2>5 DEF ThreadOther, ThreadOtherCounts
  <2>6. QED
    BY <2>1, <2>2, <2>3, <2>4, <2>5
<1>2. FlagsOK' /\ stopping' \in BOOLEAN
  <2> USE DEF PulseInv, FlagsOK
  <2>1. CASE ThreadWakes \/ ThreadTests \/ ThreadBusy \/ ThreadLoops
    BY <2>1, Zenon DEF ThreadWakes, ThreadTests, ThreadBusy, ThreadLoops
  <2>2. CASE ThreadCompares \/ ThreadCounts \/ ThreadPulses
    BY <2>2, Zenon DEF ThreadCompares, ThreadCounts, ThreadPulses
  <2>3. CASE ThreadOther \/ ThreadOtherCounts
    BY <2>3, Zenon DEF ThreadOther, ThreadOtherCounts
  <2>4. QED
    BY <2>1, <2>2, <2>3, Zenon
<1>3. CASE late
  <2>1. OnTimeInv'
    BY <1>3, Zenon DEF OnTimeInv
  <2>2. QED
    BY <1>1, <1>2, <2>1 DEF PulseInv
<1>4. CASE ~late
  <2> USE DEF OnTimeInv, UpdateInv, ThreadInv, ChaseInv, TargetInv, Caught, Pointed
  <2>1. sem \in Nat /\ movTargetPos \in Int /\ movPosition \in Int /\ dir \in {-1, 1}
    BY DEF PulseInv, ValuesOK
  <2>2. ~Caught
    BY <2>1 DEF ThreadWakes, ThreadTests, ThreadBusy, ThreadLoops, ThreadCompares, ThreadCounts,
           ThreadPulses, ThreadOther, ThreadOtherCounts
  <2>3. main = "rest" /\ ~stopping
    BY <1>4, <2>2
  <2>4. UpdateInv' /\ TargetInv'
    BY <1>4, <2>3 DEF ThreadWakes, ThreadTests, ThreadBusy, ThreadLoops, ThreadCompares,
       ThreadCounts, ThreadPulses, ThreadOther, ThreadOtherCounts, Limited
  <2>5. ThreadInv'
    <3>1. CASE ThreadWakes
      BY <1>4, <2>1, <2>3, <3>1 DEF ThreadWakes
    <3>2. CASE ThreadTests
      BY <1>4, <2>3, <3>2 DEF ThreadTests
    <3>3. CASE ThreadLoops
      BY <1>4, <2>3, <3>3 DEF ThreadLoops
    <3>4. CASE ThreadBusy
      BY <1>4, <2>1, <2>3, <3>4 DEF ThreadBusy
    <3>5. CASE ThreadCompares \/ ThreadCounts \/ ThreadPulses
      BY <1>4, <2>1, <2>3, <3>5 DEF ThreadCompares, ThreadCounts, ThreadPulses
    <3>6. CASE ThreadOther \/ ThreadOtherCounts
      BY <1>4, <2>1, <2>3, <3>6 DEF ThreadOther, ThreadOtherCounts
    <3>7. QED
      BY <3>1, <3>2, <3>3, <3>4, <3>5, <3>6
  <2>6. ChaseInv'
    <3>1. CASE ThreadWakes \/ ThreadTests \/ ThreadBusy
      BY <1>4, <2>3, <3>1 DEF ThreadWakes, ThreadTests, ThreadBusy
    <3>2. CASE ThreadLoops \/ ThreadCompares
      BY <1>4, <2>3, <3>2 DEF ThreadLoops, ThreadCompares
    <3>3. CASE ThreadCounts
      BY <1>4, <2>1, <2>3, <3>3 DEF ThreadCounts
    <3>4. CASE ThreadPulses
      BY <1>4, <2>3, <3>4 DEF ThreadPulses
    <3>5. CASE ThreadOther
      BY <1>4, <2>3, <3>5 DEF ThreadOther
    <3>6. CASE ThreadOtherCounts
      BY <1>4, <2>3, <3>6 DEF ThreadOtherCounts
    <3>7. QED
      BY <3>1, <3>2, <3>3, <3>4, <3>5, <3>6
  <2>7. QED
    BY <1>1, <1>2, <2>4, <2>5, <2>6 DEF PulseInv
<1>5. QED
  BY <1>3, <1>4

-----------------------------------------------------------------------------
(* The theorems *)

\* The invariant, in the parts the lemmas speak of.
LEMMA InvParts == DriveInv <=> AxisInv /\ PulseInv /\ OnTimeInv
  BY DEF DriveInv, AxisInv, PulseInv, OnTimeInv, PulseTypeOK

\* The axis starts at rest and the thread at its wait.
LEMMA DriveInitInv == DriveInit => DriveInv
<1> SUFFICES ASSUME DriveInit PROVE AxisInv /\ PulseInv /\ OnTimeInv
  BY InvParts
<1>1. AxisInv
  BY LimitInt DEF DriveInit, AxisInit, AxisInv, AxisTypeOK
<1>2. PulseInv
  <2>1. ValuesOK
    BY DEF DriveInit, PulseInit, ValuesOK
  <2>2. FlagsOK /\ stopping \in BOOLEAN
    BY Zenon DEF DriveInit, PulseInit, FlagsOK
  <2>3. QED
    BY <2>1, <2>2 DEF PulseInv
<1>3. OnTimeInv
  BY DEF DriveInit, AxisInit, PulseInit, OnTimeInv, UpdateInv, ThreadInv, ChaseInv, TargetInv,
     Caught, Pointed, Limited, clamp
<1>4. QED
  BY <1>1, <1>2, <1>3

\* Every step keeps the invariant, and the velocity its limits.
LEMMA DriveStepInv ==
  ASSUME DriveInv, [DriveNext]_driveVars
  PROVE  /\ DriveInv'
         /\ VelocityKept(maxVelSoft, maxVelSoft') \/ UNCHANGED axisVars
<1> AxisInv /\ PulseInv /\ OnTimeInv
  BY InvParts
<1> SUFFICES /\ AxisInv' /\ PulseInv' /\ OnTimeInv'
             /\ VelocityKept(maxVelSoft, maxVelSoft') \/ UNCHANGED axisVars
  BY DEF DriveInv, AxisInv, PulseInv, OnTimeInv, PulseTypeOK
<1>1. CASE Told \/ Continued
  <2>1. Command \/ Continue
    BY <1>1 DEF Told, Continued, Period
  <2>2. AxisInv' /\ VelocityKept(maxVelSoft, maxVelSoft')
    BY <2>1, PeriodKeeps
  <2>3. Period(TRUE)
    BY <1>1 DEF Told, Continued, Period
  <2>4. PulseInv' /\ OnTimeInv'
    BY <2>2, <2>3, PeriodOnTime DEF AxisInv, AxisTypeOK
  <2>5. QED
    BY <2>2, <2>4
<1>2. ASSUME UNCHANGED axisVars PROVE AxisInv'
  BY <1>2 DEF AxisInv, AxisTypeOK, axisVars
<1>3. CASE Stopping
  BY <1>2, <1>3, StoppingOnTime DEF Stopping
<1>4. CASE Update
  <2>1. CASE SecondTarget(Limited(current))
    BY <1>2, <1>4, <2>1, TargetOnTime DEF Update, AxisInv, AxisTypeOK
  <2>2. CASE UpdateStep
    BY <1>2, <1>4, <2>2, UpdateOnTime DEF Update
  <2>3. QED
    BY <1>4, <2>1, <2>2 DEF Update
<1>5. CASE ThreadStep /\ UNCHANGED <<axisVars, stopping>>
  BY <1>2, <1>5, ThreadOnTime
<1>6. CASE UNCHANGED driveVars
  <2>1. UNCHANGED axisVars
    BY <1>6 DEF driveVars
  <2>2. PulseInv' /\ OnTimeInv'
    BY <1>6 DEF driveVars, axisVars, pulseVars, shared, PulseInv, ValuesOK, FlagsOK, OnTimeInv,
       UpdateInv, ThreadInv, ChaseInv, TargetInv, Caught, Pointed, Limited
  <2>3. QED
    BY <1>2, <2>1, <2>2
<1>7. QED
  BY <1>1, <1>3, <1>4, <1>5, <1>6 DEF DriveNext, Ended

\* The invariant of the drive, for any range, limits, frequency, parameters and
\* bounds, and for either of the two axes.
THEOREM DriveInvariant == DriveSpec => []DriveInv
<1>1. DriveInv /\ [DriveNext]_driveVars => DriveInv'
  BY DriveStepInv
<1>2. QED
  BY <1>1, DriveInitInv, PTL DEF DriveSpec

\* A thread that keeps up counts what the axis counts, within the limits, and
\* every pulse is made in the direction counted with the power on, while it
\* serves the other axis as well.
THEOREM ThreadInStep == DriveSpec => []InStep
<1>1. DriveInv => InStep
  BY DEF DriveInv, InStep, UpdateInv, ThreadInv, ChaseInv, TargetInv, Caught, PulseMade
<1>2. QED
  BY <1>1, DriveInvariant, PTL

\* Hard limit, parameter and acceleration bound the velocity at every step with
\* a parameter that is not negative; a negative one is the velocity, past any
\* hard limit.
THEOREM SpeedIsKept == DriveSpec => SpeedKept
<1>1. DriveInv /\ [DriveNext]_driveVars =>
        [/\ maxVelSoft' >= 0 => currentVel' \in -VelLimit(maxVelSoft')..VelLimit(maxVelSoft')
         /\ 0 <= maxVelSoft /\ maxVelSoft <= maxVelSoft' =>
              currentVel' - currentVel \in -(MaxAccel \div Frequency)..(MaxAccel \div Frequency)
         /\ maxVelSoft' < 0 => abs(currentVel') = -maxVelSoft'
        ]_axisVars
  BY DriveStepInv DEF VelocityKept
<1>2. QED
  BY <1>1, DriveInvariant, PTL DEF DriveSpec, SpeedKept

\* Outside its range the axis slows down until it turns, unless the parameter is
\* negative.
THEOREM IsBroughtBack == DriveSpec => BroughtBack
<1>1. DriveInv /\ [DriveNext]_driveVars =>
        [maxVelSoft' >= 0 =>
           /\ current > MaxPos /\ currentVel > 0 => currentVel' < currentVel
           /\ current < MinPos /\ currentVel < 0 => currentVel' > currentVel]_axisVars
  BY DriveStepInv DEF VelocityKept
<1>2. QED
  BY <1>1, DriveInvariant, PTL DEF DriveSpec, BroughtBack
=============================================================================
