---------------------------- MODULE PulseThread ----------------------------
(***************************************************************************)
(* The pulse thread of dishp and update(), reset() left out: the classes   *)
(* PositionControl and PositionControl_Pulse of regulators.cpp at the      *)
(* grain of single reads and writes of the plain variables they share.     *)
(* One thread serves both axes, in a loop.  One axis is modelled in full;  *)
(* of the other only whether its position is behind its target, which a    *)
(* new target or a pulse of it may change either way.  What it shares with *)
(* the axis is the thread, the semaphore and alldone.                      *)
(***************************************************************************)
EXTENDS Integers

CONSTANTS
  Reach,   \* bound on movPosition
  SemMax,  \* bound on the semaphore
  OtherFirst   \* the other axis has the smaller number

ASSUME PulseAssumption ==
  Reach \in Nat /\ SemMax \in Nat \ {0} /\ OtherFirst \in BOOLEAN

VARIABLES
  movTargetPos, movPosition, movIncrement, alldone, movEnable, busy,
  dir,      \* the DIR output
  power,    \* the POWER output
  sem,
  otherBehind,   \* the other axis: movTargetPos # movPosition
  thread,   \* where the pulse thread is
  main,     \* where the main thread is in update
  late      \* some period began before the thread had caught up

shared == <<movTargetPos, movPosition, movIncrement, alldone, movEnable, busy, dir, power, sem,
            otherBehind>>
pulseVars == <<shared, thread, main, late>>

FlagsOK ==
  /\ alldone \in BOOLEAN /\ movEnable \in BOOLEAN /\ busy \in BOOLEAN
  /\ late \in BOOLEAN /\ otherBehind \in BOOLEAN

ValuesOK ==
  /\ movTargetPos \in Int /\ movPosition \in -Reach..Reach
  /\ movIncrement \in {-1, 0, 1} /\ dir \in {-1, 1}
  /\ main = "dir" => movIncrement \in {-1, 1}
  /\ power \in {"low", "high"} /\ sem \in 0..SemMax
  /\ thread \in {"wait", "test", "enter", "loop", "compare", "count", "up", "down",
                  "other", "otherCount", "leave"}
  /\ main \in {"rest", "begun", "compare", "mark", "turn", "dir",
                "other", "otherMark", "post", "done"}

PulseTypeOK == FlagsOK /\ ValuesOK

\* The regulators run; movIncrement and alldone are not initialised.
PulseInit ==
  /\ movTargetPos = 0 /\ movPosition = 0
  /\ movIncrement \in {-1, 0, 1} /\ alldone \in BOOLEAN
  /\ movEnable = TRUE /\ busy = FALSE /\ dir \in {-1, 1} /\ power = "high" /\ sem = 0
  /\ otherBehind = FALSE
  /\ thread = "wait" /\ main = "rest" /\ late = FALSE

Caught == thread = "wait" /\ sem = 0
BeginPeriod == late' = (late \/ ~Caught) /\ UNCHANGED thread

\* A loop over the axes: where it begins, and where it goes on after this axis
\* and after the other one, if it leaves for the place called end.
FirstAxis == IF OtherFirst THEN "other" ELSE "compare"
AfterThis(end) == IF OtherFirst THEN end ELSE "other"
AfterOther(end) == IF OtherFirst THEN "compare" ELSE end

-----------------------------------------------------------------------------
(* The main thread: update() *)

MainAt(from, to) == main = from /\ main' = to

\* movTargetPos of each axis is written just before update(); with that of the
\* first axis the period begins.
ThisTarget(t) == movTargetPos' = t /\ UNCHANGED otherBehind
OtherTarget == otherBehind' \in BOOLEAN /\ UNCHANGED movTargetPos

FirstTarget(t) ==
  /\ MainAt("rest", "begun") /\ BeginPeriod
  /\ IF OtherFirst THEN OtherTarget ELSE ThisTarget(t)
  /\ UNCHANGED <<movPosition, movIncrement, alldone, movEnable, busy, dir, power, sem>>

SecondTarget(t) ==
  /\ MainAt("begun", FirstAxis)
  /\ IF OtherFirst THEN ThisTarget(t) ELSE OtherTarget
  /\ UNCHANGED <<movPosition, movIncrement, alldone, movEnable, busy, dir, power, sem, thread, late>>

UpdateCompare ==
  /\ main = "compare"
  /\ main' = IF movTargetPos = movPosition THEN AfterThis("post") ELSE "mark"
  /\ UNCHANGED shared

\* Mutant: alldone is left to the thread.
UpdateMarkNot ==
  MainAt("mark", "turn") /\ UNCHANGED shared

UpdateMark ==
  /\ MainAt("mark", "turn")
  /\ alldone' = FALSE
  /\ UNCHANGED <<movTargetPos, movPosition, movIncrement, movEnable, busy, dir, power, sem,
                 otherBehind>>

UpdateTurn ==
  /\ MainAt("turn", "dir")
  /\ movIncrement' = IF movTargetPos > movPosition THEN 1 ELSE -1
  /\ UNCHANGED <<movTargetPos, movPosition, alldone, movEnable, busy, dir, power, sem,
                 otherBehind>>

\* Mutant: the direction pin is not set.
UpdateDirNot ==
  MainAt("dir", AfterThis("post")) /\ UNCHANGED shared

UpdateDir ==
  /\ MainAt("dir", AfterThis("post"))
  /\ dir' = movIncrement
  /\ UNCHANGED <<movTargetPos, movPosition, movIncrement, alldone, movEnable, busy, power, sem,
                 otherBehind>>

\* The same for the other axis.
UpdateOther ==
  /\ main = "other"
  /\ main' = IF otherBehind THEN "otherMark" ELSE AfterOther("post")
  /\ UNCHANGED shared

UpdateOtherMark ==
  /\ MainAt("otherMark", AfterOther("post"))
  /\ alldone' = FALSE
  /\ UNCHANGED <<movTargetPos, movPosition, movIncrement, movEnable, busy, dir, power, sem,
                 otherBehind>>

UpdatePost ==
  /\ MainAt("post", "rest")
  /\ sem' = IF alldone \/ sem = SemMax THEN sem ELSE sem + 1
  /\ UNCHANGED <<movTargetPos, movPosition, movIncrement, alldone, movEnable, busy, dir, power,
                 otherBehind>>

UpdateStep ==
  /\ \/ UpdateCompare \/ UpdateMark \/ UpdateTurn \/ UpdateDir
     \/ UpdateOther \/ UpdateOtherMark \/ UpdatePost
  /\ UNCHANGED <<thread, late>>

\* A period of state 40: the power goes off once busy is false.
Stop ==
  /\ main = "rest"
  /\ movEnable' = FALSE
  /\ IF busy THEN UNCHANGED <<main, power>> ELSE main' = "done" /\ power' = "low"
  /\ BeginPeriod
  /\ UNCHANGED <<movTargetPos, movPosition, movIncrement, alldone, busy, dir, sem, otherBehind>>

-----------------------------------------------------------------------------
(* The pulse thread *)

ThreadAt(from, to) == thread = from /\ thread' = to

ThreadWakes ==
  /\ ThreadAt("wait", "test")
  /\ sem > 0 /\ sem' = sem - 1
  /\ UNCHANGED <<movTargetPos, movPosition, movIncrement, alldone, movEnable, busy, dir, power,
                 otherBehind>>

ThreadTests ==
  /\ thread = "test"
  /\ thread' = IF movEnable THEN "enter" ELSE "wait"
  /\ UNCHANGED shared

ThreadBusy ==
  /\ \/ ThreadAt("enter", "loop") /\ busy' = TRUE
     \/ ThreadAt("leave", "wait") /\ busy' = FALSE
  /\ UNCHANGED <<movTargetPos, movPosition, movIncrement, alldone, movEnable, dir, power, sem,
                 otherBehind>>

ThreadLoops ==
  /\ thread = "loop"
  /\ thread' = IF alldone THEN "leave" ELSE FirstAxis
  /\ alldone' = TRUE
  /\ UNCHANGED <<movTargetPos, movPosition, movIncrement, movEnable, busy, dir, power, sem,
                 otherBehind>>

ThreadCompares ==
  /\ thread = "compare"
  /\ thread' = IF movTargetPos = movPosition THEN AfterThis("loop") ELSE "count"
  /\ UNCHANGED shared

\* The pulse is counted with the increment (0 only if never set), ...
ThreadCounts ==
  /\ thread = "count"
  /\ alldone' = FALSE
  /\ movPosition + movIncrement \in -Reach..Reach
  /\ movPosition' = movPosition + movIncrement
  /\ thread' = IF movIncrement > 0 THEN "up" ELSE "down"
  /\ UNCHANGED <<movTargetPos, movIncrement, movEnable, busy, dir, power, sem, otherBehind>>

\* ... and made with DIR and POWER as they are.
ThreadPulses ==
  /\ thread \in {"up", "down"} /\ thread' = AfterThis("loop")
  /\ UNCHANGED shared

\* The same for the other axis.
ThreadOther ==
  /\ thread = "other"
  /\ thread' = IF otherBehind THEN "otherCount" ELSE AfterOther("loop")
  /\ UNCHANGED shared

ThreadOtherCounts ==
  /\ ThreadAt("otherCount", AfterOther("loop"))
  /\ alldone' = FALSE
  /\ otherBehind' \in BOOLEAN
  /\ UNCHANGED <<movTargetPos, movPosition, movIncrement, movEnable, busy, dir, power, sem>>

ThreadStep ==
  /\ \/ ThreadWakes \/ ThreadTests \/ ThreadBusy \/ ThreadLoops
     \/ ThreadCompares \/ ThreadCounts \/ ThreadPulses
     \/ ThreadOther \/ ThreadOtherCounts
  /\ UNCHANGED <<main, late>>

\* The motor makes the pulse that was counted.
PulseMade == power = "high" /\ (dir > 0 <=> thread = "up")
=============================================================================
