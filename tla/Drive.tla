------------------------------- MODULE Drive -------------------------------
(***************************************************************************)
(* One axis of dishp with the regulators running: each period steps the    *)
(* axis and hands its position, within the limits of the regulators, to    *)
(* the pulse thread, which serves the other axis too, until the program is *)
(* told to stop.  A period is late when the pulse thread has not caught up *)
(* with the one before.  After a late period the operator gives no more    *)
(* commands.                                                               *)
(***************************************************************************)
EXTENDS Axis, PulseThread

CONSTANT
  Far   \* bound on the position of a runaway

ASSUME FarAssumption == Far \in Nat

VARIABLE
  stopping   \* the regulators are in state 40 or 100

driveVars == <<axisVars, pulseVars, stopping>>

DriveInit == AxisInit /\ PulseInit /\ stopping = FALSE

\* The limits of the regulators (axis_settings.h 17, 20) are the axis's.
Limited(p) == clamp(p, MinPos, MaxPos)

\* Mutant: the regulators take any position.
PeriodUnlimited(A) ==
  /\ main = "rest" /\ ~stopping
  /\ A /\ FirstTarget(current')
  /\ maxVelSoft' < 0 => abs(current') <= Far /\ ~late'
  /\ UNCHANGED stopping

\* AxisControl.step in state 30: the position, limited, goes to the pulse
\* thread.  The axis keeps its own.  A runaway with a negative speed parameter
\* is followed as far as Far and while the thread keeps up.
Period(A) ==
  /\ main = "rest" /\ ~stopping
  /\ A /\ FirstTarget(Limited(current'))
  /\ maxVelSoft' < 0 => abs(current') <= Far /\ ~late'
  /\ UNCHANGED stopping

Told == Period(Command) /\ ~late'
Continued == Period(Continue)

\* The targets are written one after the other, and update() goes on with them.
Update ==
  /\ SecondTarget(Limited(current)) \/ UpdateStep
  /\ UNCHANGED <<axisVars, stopping>>

\* In state 40, from a request to terminate on.
Stopping ==
  /\ stopping' = TRUE
  /\ Stop
  /\ UNCHANGED axisVars

\* Only here so that the end of the program is no deadlock.
Ended == main = "done" /\ UNCHANGED driveVars

DriveNext ==
  \/ Told \/ Continued \/ Update \/ Stopping
  \/ ThreadStep /\ UNCHANGED <<axisVars, stopping>>
  \/ Ended

\* Periods follow one another and the thread runs.
DriveFairness ==
  /\ WF_driveVars(Continued) /\ WF_driveVars(Update)
  /\ WF_driveVars(ThreadStep /\ UNCHANGED <<axisVars, stopping>>)

DriveSpec == DriveInit /\ [][DriveNext]_driveVars /\ DriveFairness

-----------------------------------------------------------------------------
(* Properties *)

\* The inductive invariant.  On time, update() runs while the thread waits;
\* from its end on, increment and direction point to the target, and the
\* thread comes back to its wait only when it is there, whatever the other
\* axis makes of alldone and of the thread.
Pointed == movTargetPos # movPosition =>
             movIncrement = dir /\ (dir > 0 <=> movTargetPos > movPosition)

UpdateInv ==
  /\ main \notin {"rest", "done"} => Caught
  /\ main \in {"mark", "turn", "dir"} => movTargetPos # movPosition
  /\ main \in {"turn", "dir"} => ~alldone
  /\ main = "dir" => movIncrement = IF movTargetPos > movPosition THEN 1 ELSE -1
  /\ main = "post" \/ (~OtherFirst /\ main \in {"other", "otherMark"}) =>
       Pointed /\ (movTargetPos # movPosition => ~alldone)

ThreadInv ==
  /\ sem <= 1 /\ (thread # "wait" => sem = 0)
  /\ stopping => Caught /\ main = "done"
  /\ main = "done" => stopping
  /\ ~stopping => movEnable /\ power = "high"
  /\ busy => thread \notin {"wait", "test", "enter"}

\* main = "rest": update() is over.
ChaseInv ==
  main = "rest" =>
    /\ Pointed
    /\ Caught => movPosition = movTargetPos
    /\ thread \in {"wait", "test", "enter", "loop"} /\ alldone => movPosition = movTargetPos
    /\ ~OtherFirst /\ thread \in {"other", "otherCount"} /\ alldone =>
         movPosition = movTargetPos
    /\ thread = "count" => movTargetPos # movPosition
    /\ thread \in {"up", "down"} => ~alldone /\ (dir > 0 <=> thread = "up")
    /\ thread = "leave" => movPosition = movTargetPos

TargetInv == movTargetPos = Limited(current) \/ (OtherFirst /\ main = "begun")

DriveInv ==
  /\ AxisTypeOK /\ PulseTypeOK /\ stopping \in BOOLEAN
  /\ maxVelSoft >= 0 => currentVel \in -VelLimit(maxVelSoft)..VelLimit(maxVelSoft)
  /\ ~late => UpdateInv /\ ThreadInv /\ ChaseInv /\ TargetInv

\* As long as the thread keeps up with the periods, its position when a period
\* begins is the axis's, held within the limits, and the motor is where the
\* position says: every pulse was made in the direction counted and with the
\* power on.
InStep ==
  ~late => /\ thread \in {"up", "down"} => PulseMade
           /\ main = "rest" /\ Caught => movPosition = Limited(current)

\* A thread that fell behind may run past a target that moves under it, but
\* once the axis is at rest the position settles on it, or on the limit before
\* it, even if the other axis never rests.
Settles ==
  <>[](currentVel = 0 /\ ~stopping) => <>[](movPosition = Limited(current))

\* A move to a position that is not negative, with a speed parameter above
\* zero, ends.  Towards a negative one the aim is the middle of the pulse
\* before it, as division truncates, and an axis that comes to rest there
\* stays (main.cpp 201, 222).
MoveEnds ==
  <>[](mode = "MOVE" /\ target >= 0 /\ maxVelSoft > 0 /\ ~stopping) =>
    []<><<Told>>_driveVars
=============================================================================
