------------------------------ MODULE DishLoop ------------------------------
(***************************************************************************)
(* The main loop of dishp (loop in src/sw/dishp/src/main.cpp) with its     *)
(* command entry (util.h) and its regulators.  One round of the loop picks *)
(* up what the reader thread has, runs the commands it can, and then moves *)
(* mode, axes and regulators on by one period.                             *)
(*                                                                         *)
(* Coordinates are left out: only whether every axis is in position is     *)
(* kept, and how long a movement takes is free.  Times are small numbers.  *)
(***************************************************************************)
EXTENDS Regulators, Sequences

CONSTANTS
  Ops,       \* commands without arguments a client may send
  Times,     \* times of tracking points
  MaxTime,   \* the clock stops here, past every tracking point
  QueueMax   \* bound on cmd_qu (none in the code)

ASSUME LoopAssumption ==
  /\ Ops \subseteq {"move", "track", "flush", "waitidle", "errexit", "exit"}
  /\ MaxTime \in Nat /\ Times \subseteq 0..MaxTime
  /\ QueueMax \in Nat \ {0}

VARIABLES
  line,        \* the line the reader thread has posted, or Nothing
  eof,         \* standard input has ended
  interrupt,   \* the semaphore the SIGINT handler posts
  at,          \* where the main loop is
  cmd_qu, mode, track_xs, now, should_exit, exit_on_error,
  inPosition   \* every axis is in_position()

entryVars == <<line, eof, interrupt>>
loopVars  == <<at, cmd_qu, mode, track_xs, now, should_exit, exit_on_error,
               inPosition>>
vars == <<entryVars, loopVars, regVars>>

Command(op, t) == [op |-> op, t |-> t]
Nothing == Command("none", 0)
Exit  == Command("exit", 0)
Flush == Command("flush", 0)
Sent == {Command(op, 0) : op \in Ops} \cup {Command("point", t) : t \in Times}
Commands == Sent \cup {Exit, Flush}

TypeOK ==
  /\ RegTypeOK
  /\ line \in Commands \cup {Nothing}
  /\ eof \in BOOLEAN
  /\ interrupt \in BOOLEAN
  /\ at \in {"pickup", "process", "regulators", "axes", "exited"}
  /\ cmd_qu \in Seq(Commands) /\ Len(cmd_qu) <= QueueMax
  /\ mode \in {"IDLE", "TRACK", "MOVE"}
  /\ track_xs \in Seq(Times)
  /\ now \in 0..MaxTime
  /\ should_exit \in BOOLEAN
  /\ exit_on_error \in BOOLEAN
  /\ inPosition \in BOOLEAN

Init ==
  /\ RegInit
  /\ line = Nothing /\ eof = FALSE /\ interrupt = FALSE
  /\ at = "pickup" /\ cmd_qu = <<>> /\ mode = "IDLE" /\ track_xs = <<>>
  /\ now = 0 /\ should_exit = FALSE /\ exit_on_error = FALSE
  /\ inPosition = TRUE

-----------------------------------------------------------------------------
(* read_commands_thread and sig_int_handler.                               *)

ReadLine(c) ==
  /\ line = Nothing /\ ~eof
  /\ line' = c
  /\ UNCHANGED <<eof, interrupt, loopVars, regVars>>

\* getline fails: every further line is "exit".
ReadEof ==
  /\ line = Nothing /\ eof
  /\ line' = Exit
  /\ UNCHANGED <<eof, interrupt, loopVars, regVars>>

StdinEnds ==
  /\ ~eof /\ eof' = TRUE
  /\ UNCHANGED <<line, interrupt, loopVars, regVars>>

SigInt ==
  /\ ~interrupt /\ interrupt' = TRUE
  /\ UNCHANGED <<line, eof, loopVars, regVars>>

-----------------------------------------------------------------------------
(* Picking up commands: try_pick_up_cmd and 388-395.                       *)

\* Mutant: a flush waits behind the commands already in the queue.
EnqueueBehind(c) == cmd_qu' = Append(cmd_qu, c)

Enqueue(c) == cmd_qu' = Append(IF c.op = "flush" THEN <<>> ELSE cmd_qu, c)

PickUpInterrupt ==
  /\ at = "pickup" /\ interrupt
  /\ interrupt' = FALSE
  /\ Enqueue(Flush)
  /\ UNCHANGED <<line, eof, at, mode, track_xs, now, should_exit,
                 exit_on_error, inPosition, regVars>>

PickUp ==
  /\ at = "pickup" /\ ~interrupt /\ line # Nothing
  /\ Len(cmd_qu) < QueueMax \/ line.op = "flush"
  /\ Enqueue(line)
  /\ line' = Nothing
  /\ UNCHANGED <<eof, interrupt, at, mode, track_xs, now, should_exit,
                 exit_on_error, inPosition, regVars>>

PickUpNothing ==
  /\ at = "pickup" /\ ~interrupt
  /\ line = Nothing \/ (Len(cmd_qu) = QueueMax /\ line.op # "flush")
  /\ at' = "process"
  /\ UNCHANGED <<entryVars, cmd_qu, mode, track_xs, now, should_exit,
                 exit_on_error, inPosition, regVars>>

-----------------------------------------------------------------------------
(* Running commands: 397-469.                                              *)

Run(op) ==
  /\ at = "process" /\ cmd_qu # <<>> /\ Head(cmd_qu).op = op
  /\ cmd_qu' = Tail(cmd_qu)
  /\ UNCHANGED <<entryVars, at, now>>

\* Mutant: a move is accepted while tracking.
RunMoveAlways ==
  /\ Run("move")
  /\ mode' = "MOVE" /\ inPosition' \in BOOLEAN
  /\ UNCHANGED <<track_xs, should_exit, exit_on_error, regVars>>

RunMove ==
  /\ Run("move")
  /\ IF mode = "TRACK"
       THEN UNCHANGED <<mode, inPosition>>
       ELSE mode' = "MOVE" /\ inPosition' \in BOOLEAN
  /\ UNCHANGED <<track_xs, should_exit, exit_on_error, regVars>>

\* Mutant: a point with the time of the one before is taken.
RunPointEqual ==
  /\ Run("point")
  /\ LET t == Head(cmd_qu).t IN
       track_xs' = IF track_xs # <<>> /\ t < track_xs[Len(track_xs)]
                     THEN track_xs ELSE Append(track_xs, t)
  /\ UNCHANGED <<mode, should_exit, exit_on_error, inPosition, regVars>>

RunPoint ==
  /\ Run("point")
  /\ LET t == Head(cmd_qu).t IN
       track_xs' = IF track_xs # <<>> /\ t <= track_xs[Len(track_xs)]
                     THEN track_xs ELSE Append(track_xs, t)
  /\ UNCHANGED <<mode, should_exit, exit_on_error, inPosition, regVars>>

RunTrack ==
  /\ Run("track")
  /\ mode' = "TRACK"
  /\ UNCHANGED <<track_xs, should_exit, exit_on_error, inPosition, regVars>>

RunFlush ==
  /\ Run("flush")
  /\ track_xs' = <<>> /\ mode' = "IDLE"
  /\ RegFlush
  /\ UNCHANGED <<should_exit, exit_on_error, inPosition>>

RunExit ==
  /\ Run("exit")
  /\ should_exit' = TRUE
  /\ UNCHANGED <<mode, track_xs, exit_on_error, inPosition, regVars>>

RunSetErrexit ==
  /\ Run("errexit")
  /\ exit_on_error' \in BOOLEAN
  /\ UNCHANGED <<mode, track_xs, should_exit, inPosition, regVars>>

RunWaitidle ==
  /\ mode = "IDLE" /\ Run("waitidle")
  /\ UNCHANGED <<mode, track_xs, should_exit, exit_on_error, inPosition, regVars>>

\* The queue is empty, or held up by a waitidle at its head.
RunNothing ==
  /\ at = "process"
  /\ cmd_qu # <<>> => Head(cmd_qu).op = "waitidle" /\ mode # "IDLE"
  /\ at' = "regulators"
  /\ UNCHANGED <<entryVars, cmd_qu, mode, track_xs, now, should_exit,
                 exit_on_error, inPosition, regVars>>

-----------------------------------------------------------------------------
(* One period: 471-560.                                                    *)

Tick == now' = IF now < MaxTime THEN now + 1 ELSE now

\* Mutant: errexit is ignored.
WantsExitAsked == should_exit

WantsExit == should_exit \/ (error /\ exit_on_error)

StepRegulators ==
  \E result \in {"done", "goes on"} :
    /\ RegStep(should_exit', result)
    /\ at' = IF result = "done" THEN "exited" ELSE "pickup"

NotRunning ==
  /\ at = "regulators" /\ ~running
  /\ should_exit' = WantsExit
  /\ StepRegulators /\ Tick
  /\ UNCHANGED <<entryVars, cmd_qu, mode, track_xs, exit_on_error, inPosition>>

\* The points left once all but the last one that has passed are dropped.
Remaining ==
  LET n == Len(track_xs)
      first == CHOOSE i \in 1..n : /\ \A j \in 2..i : track_xs[j] <= now
                                   /\ i < n => track_xs[i + 1] > now
  IN  SubSeq(track_xs, first, n)

\* Mutant: tracking goes on with the last point alone.
AdvanceTrackToOne ==
  /\ mode = "TRACK"
  /\ LET left == IF track_xs = <<>> THEN <<>> ELSE Remaining IN
       IF Len(left) < 1
         THEN track_xs' = <<>> /\ mode' = "IDLE"
         ELSE track_xs' = left /\ mode' = mode

AdvanceTrack ==
  /\ mode = "TRACK"
  /\ LET left == IF track_xs = <<>> THEN <<>> ELSE Remaining IN
       IF Len(left) <= 1
         THEN track_xs' = <<>> /\ mode' = "IDLE"
         ELSE track_xs' = left /\ mode' = mode

AdvanceMove ==
  /\ mode = "MOVE"
  /\ mode' = (IF inPosition THEN "IDLE" ELSE mode) /\ track_xs' = track_xs

AdvanceIdle == mode = "IDLE" /\ UNCHANGED <<mode, track_xs>>

Advance ==
  /\ at = "regulators" /\ running
  /\ at' = "axes"
  /\ should_exit' = WantsExit
  /\ AdvanceTrack \/ AdvanceMove \/ AdvanceIdle
  /\ UNCHANGED <<entryVars, cmd_qu, now, exit_on_error, inPosition, regVars>>

\* axis.step on both axes, then the regulators.  With a negative speed parameter
\* even an idle axis moves.
MoveAxes ==
  /\ at = "axes"
  /\ inPosition' \in BOOLEAN
  /\ should_exit' = should_exit
  /\ StepRegulators /\ Tick
  /\ UNCHANGED <<entryVars, cmd_qu, mode, track_xs, exit_on_error>>

-----------------------------------------------------------------------------
Running ==
  \/ RunMove \/ RunPoint \/ RunTrack \/ RunFlush \/ RunExit \/ RunSetErrexit
  \/ RunWaitidle \/ RunNothing

MainStep ==
  PickUpInterrupt \/ PickUp \/ PickUpNothing \/ Running \/ NotRunning \/ Advance
    \/ MoveAxes

ThreadRuns == at # "exited" /\ ThreadStep /\ UNCHANGED <<entryVars, loopVars>>

Environment ==
  /\ at # "exited"
  /\ (\E c \in Sent : ReadLine(c)) \/ ReadEof \/ StdinEnds \/ SigInt

Next == MainStep \/ ThreadRuns \/ Environment

Spec == Init /\ [][Next]_vars

\* The main loop runs, and neither signals nor the reader thread, which runs
\* too, keep it in its pick-up loop for ever.  A movement of the motors or of the
\* axes may last for ever.
Fairness ==
  /\ WF_vars(MainStep) /\ SF_vars(PickUp) /\ SF_vars(PickUpNothing)
  /\ WF_vars(ReadEof /\ at # "exited")

FairSpec == Spec /\ Fairness

-----------------------------------------------------------------------------
(* Safety.                                                                 *)

\* axis_interp.step (95-112) is only called on a list it can use: at least two
\* points, in strictly increasing order so that no interval is zero, and the
\* second one still ahead (414-423 and 489-510 against 523-525).
InterpSafe ==
  at = "axes" /\ mode = "TRACK" =>
    /\ Len(track_xs) >= 2 /\ track_xs[2] > now
    /\ \A i \in 1..Len(track_xs) - 1 : track_xs[i] < track_xs[i + 1]

\* README.md 17, flush: "effect will be immediate even if preceded by unfinished
\* waitidle commands".  Once a round has run its commands no flush is left in
\* the queue (390-394 with 438-442).
FlushImmediate ==
  at \in {"regulators", "axes", "exited"} =>
    \A i \in DOMAIN cmd_qu : cmd_qu[i].op # "flush"

\* The drives are off and the movement is disabled.
PoweredOff == power = "low" /\ movEnable = "off"

\* The program only ends with the drives switched off (363-480, 479 and 526):
\* whatever the state it was told to exit in, alarms and homing included.
ExitsPoweredOff == at = "exited" => PoweredOff

\* The inductive form of the three.  The regulators are done (state 100,
\* regulators.cpp 456-467) only with the drives off and the movement disabled; a
\* flush is never behind another command (390-394); the times of the tracking
\* points increase (414-423, 499-510).
PowerInv == (rstate = 100 => PoweredOff) /\ ExitsPoweredOff

QueueInv ==
  /\ \A i \in 2..Len(cmd_qu) : cmd_qu[i].op # "flush"
  /\ FlushImmediate

TrackInv ==
  /\ \A i \in 1..Len(track_xs) - 1 : track_xs[i] < track_xs[i + 1]
  /\ InterpSafe

DishInv == TypeOK /\ PowerInv /\ QueueInv /\ TrackInv

\* Tracking ends idle and leaves no point behind for the next track command to
\* start from (404-435, 499-509).
TrackingEndsClean ==
  [][mode = "TRACK" /\ mode' # "TRACK" => mode' = "IDLE" /\ track_xs' = <<>>]_vars

-----------------------------------------------------------------------------
(* Liveness, under FairSpec.                                               *)

\* Once the loop has taken an exit the program ends from any state of the
\* regulators, unless the pulse thread never finishes its movement (363, 456-476).
ExitHonoured == should_exit ~> (at = "exited" \/ [](thread = "busy"))

\* README.md 21: with errexit set to 1 the program exits when the regulators are
\* in an error state.
ErrorExits ==
  (error /\ exit_on_error) ~> (at = "exited" \/ ~exit_on_error)

\* controlmux main.go 26-27: the program "is caused to exit by closing its
\* standard input".  The exit the reader thread makes of the end of input is
\* honoured once it is in the queue, if the axes reach their targets and no
\* signal comes in between time and again to flush the queue.
EofExits ==
  (eof /\ \E i \in DOMAIN cmd_qu : cmd_qu[i].op = "exit")
    ~> (at = "exited" \/ [](thread = "busy") \/ [](~inPosition) \/ []<>interrupt)
=============================================================================
