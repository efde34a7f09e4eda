--------------------------- MODULE DishLoop_proofs ---------------------------
(***************************************************************************)
(* Proofs about DishLoop, for any commands, any times of tracking points   *)
(* and any bound on the queue: DishInv is inductive, the state properties  *)
(* follow from it, and tracking always ends with the points cleared.       *)
(***************************************************************************)
EXTENDS DishLoop, NumberFacts, SequenceTheorems, TLAPS

-----------------------------------------------------------------------------
(* The regulators.                                                         *)

\* The wait for the drives is left when its countdown is at its end.
LEMMA WaitCounts ==
  ASSUME RegTypeOK, NEW s, NEW req, NEW ok, Switch(s, req, ok), rstate' = 11
  PROVE  s = 10 \/ (s = 11 /\ dx > 0)
<1>1. CASE s = 11 /\ SwitchWaiting(ok)
  BY <1>1 DEF SwitchWaiting, RegTypeOK
<1>2. CASE s \in {0, 20, 23, 30, 40, 255}
  BY <1>2 DEF Switch, SwitchOff, SwitchHoming, SwitchHomed, SwitchRunning,
     SwitchStopping, SwitchError, RegTypeOK
<1>3. CASE s \in {21, 22} /\ SwitchPass(s)
  BY <1>3 DEF SwitchPass
<1>4. QED
  BY <1>1, <1>2, <1>3 DEF Switch

\* A step of the regulators keeps their types.
LEMMA RegTypeStep ==
  ASSUME RegTypeOK, NEW req, NEW result, RegStep(req, result)
  PROVE  RegTypeOK'
<1> DEFINE Sets == /\ rstate \in {0, 10, 11, 20, 21, 22, 23, 30, 40, 100, 255}
                   /\ power \in {"low", "high"}
                   /\ movEnable \in {"off", "on"}
                   /\ posted \in {"no", "yes"}
<1>1. PICK ok \in BOOLEAN :
        /\ Switch(Entry(req, ok), req, ok)
        /\ dx' = IF rstate' # 11 THEN 0
                 ELSE IF Entry(req, ok) = 10 THEN Patience ELSE dx - 1
        /\ UNCHANGED thread
  BY DEF RegStep
<1>2. Sets'
  <2> USE DEF RegTypeOK, Keep, update
  <2>1. CASE SwitchOff \/ SwitchStarting \/ SwitchHoming \/ SwitchHomed
    BY <2>1 DEF SwitchOff, SwitchStarting, SwitchHoming, SwitchHomed
  <2>2. CASE SwitchWaiting(ok)
    BY <2>2 DEF SwitchWaiting
  <2>3. ASSUME NEW s \in {21, 22}, SwitchPass(s) PROVE Sets'
    BY <2>3 DEF SwitchPass
  <2>4. CASE SwitchRunning \/ SwitchStopping \/ SwitchError(req)
    BY <2>4 DEF SwitchRunning, SwitchStopping, SwitchError
  <2>5. CASE rstate' = 100 /\ Keep
    BY <2>5
  <2>6. QED
    BY <1>1, <2>1, <2>2, <2>3, <2>4, <2>5 DEF Switch
<1>3. dx' \in 0..Patience
  <2>1. dx \in 0..Patience /\ Patience \in Nat
    BY RegulatorsAssumption DEF RegTypeOK
  <2>2. rstate' = 11 => Entry(req, ok) = 10 \/ dx > 0
    BY <1>1, WaitCounts
  <2>3. QED
    BY <1>1, <2>1, <2>2
<1>4. QED
  BY <1>1, <1>2, <1>3 DEF RegTypeOK

\* The program is told to end (result), and the regulators are done, only with
\* the power off and the movement disabled.
LEMMA RegPowerStep ==
  ASSUME RegTypeOK, rstate = 100 => PoweredOff,
         NEW req, NEW result, RegStep(req, result)
  PROVE  (result = "done" \/ rstate' = 100) => PoweredOff'
<1> USE DEF PoweredOff
<1>1. PICK ok \in BOOLEAN : /\ Switch(Entry(req, ok), req, ok)
                            /\ result = IF \/ Entry(req, ok) = 100
                                           \/ (Entry(req, ok) = 255 /\ req)
                                          THEN "done" ELSE "goes on"
  BY DEF RegStep
<1>2. Entry(req, ok) \in {rstate, 40, 255}
  BY DEF Entry
<1> DEFINE s == Entry(req, ok)
<1> HIDE DEF s
<1>3. Switch(s, req, ok) /\ s \in {rstate, 40, 255}
  BY <1>1, <1>2 DEF s
<1>4. result = IF s = 100 \/ (s = 255 /\ req) THEN "done" ELSE "goes on"
  BY <1>1 DEF s
<1>5. ASSUME result = "done" PROVE s = 100 \/ (s = 255 /\ req)
  BY <1>4, <1>5, Zenon
<1>6. CASE s \in {0, 10, 11, 20, 21, 22, 23, 30}
  <2>1. result # "done"
    BY <1>5, <1>6
  <2>2. rstate' # 100
    <3>1. CASE s \in {0, 10, 20, 23, 30}
      BY <1>3, <3>1 DEF Switch, SwitchOff, SwitchStarting, SwitchHoming,
         SwitchHomed, SwitchRunning
    <3>2. CASE s = 11
      BY <1>3, <3>2 DEF Switch, SwitchWaiting
    <3>3. CASE s \in {21, 22}
      BY <1>3, <3>3 DEF Switch, SwitchPass
    <3>4. QED
      BY <1>6, <3>1, <3>2, <3>3
  <2>3. QED
    BY <2>1, <2>2
<1>7. CASE s = 40
  <2>1. result # "done"
    BY <1>5, <1>7
  <2>2. QED
    BY <1>3, <1>7, <2>1 DEF Switch, SwitchStopping
<1>8. CASE s = 100
  <2>1. rstate = 100
    BY <1>3, <1>8
  <2>2. QED
    BY <1>3, <1>8, <2>1 DEF Switch, Keep
<1>9. CASE s = 255
  <2>1. SwitchError(req)
    BY <1>3, <1>9 DEF Switch
  <2>2. rstate' # 100
    BY <2>1 DEF SwitchError
  <2>3. ASSUME result = "done" PROVE PoweredOff'
    <3>1. req
      BY <1>5, <1>9, <2>3
    <3>2. QED
      BY <2>1, <3>1 DEF SwitchError
  <2>4. QED
    BY <2>2, <2>3
<1>10. QED
  BY <1>3, <1>6, <1>7, <1>8, <1>9 DEF RegTypeOK
-----------------------------------------------------------------------------
(* Types.                                                                  *)

\* What is left of the tracking points is a tail of them that starts at the last
\* point that has passed, or at the first one.
LEMMA RemainingTail ==
  ASSUME TypeOK, track_xs # <<>>
  PROVE  \E first \in 1..Len(track_xs) :
           /\ Remaining = SubSeq(track_xs, first, Len(track_xs))
           /\ first < Len(track_xs) => track_xs[first + 1] > now
<1> DEFINE n == Len(track_xs)
           Last(i) == /\ \A j \in 2..i : track_xs[j] <= now
                      /\ i < n => track_xs[i + 1] > now
           Stops == {i \in 1..n : i < n => track_xs[i + 1] > now}
<1>1. /\ n \in Nat \ {0}
      /\ now \in Nat
      /\ \A i \in 1..n : track_xs[i] \in Nat
  <2>1. track_xs \in Seq(Times) /\ Times \subseteq Nat /\ now \in Nat
    BY LoopAssumption DEF TypeOK
  <2>2. n \in Nat \ {0} /\ \A i \in 1..n : track_xs[i] \in Times
    BY <2>1, EmptySeq
  <2>3. QED
    BY <2>1, <2>2
<1>2. PICK i \in Stops : \A j \in Stops : i <= j
  <2>1. n \in Stops /\ Stops \subseteq Nat
    BY <1>1
  <2>2. QED
    BY <2>1, LeastNatural
<1>3. ASSUME NEW j \in 2..i PROVE track_xs[j] <= now
  <2>1. j - 1 \in 1..n /\ j - 1 < i /\ i \in 1..n
    BY <1>1, <1>2
  <2>2. j - 1 \notin Stops
    <3> HIDE DEF Stops
    <3>1. i \in Nat /\ j \in Nat
      BY <2>1
    <3>2. QED
      BY <1>2, <2>1, <3>1
  <2>3. QED
    BY <1>1, <2>1, <2>2
<1>4. \E first \in 1..n : Last(first)
  BY <1>2, <1>3
<1>5. PICK first \in 1..n : Last(first) /\ Remaining = SubSeq(track_xs, first, n)
  <2>1. Last(CHOOSE f \in 1..n : Last(f)) /\ (CHOOSE f \in 1..n : Last(f)) \in 1..n
    BY <1>4
  <2>2. QED
    BY <2>1 DEF Remaining
<1>6. QED
  BY <1>5
\* Steps that leave the regulators alone keep their types.
LEMMA RegUnchanged == RegTypeOK /\ UNCHANGED regVars => RegTypeOK'
  BY DEF RegTypeOK, regVars

\* The types of the loop's own variables, without the regulators'.
LoopTypeOK ==
  /\ line \in Commands \cup {Nothing}
  /\ eof \in BOOLEAN
  /\ interrupt \in BOOLEAN
  /\ at \in {"pickup", "process", "regulators", "axes", "exited"}
  /\ cmd_qu \in Seq(Commands) /\ Len(cmd_qu) <= QueueMax
  /\ mode \in {"IDLE", "TRACK", "MOVE"}
  /\ track_xs \in Seq(Times)
  /\ now \in 0..MaxTime
  /\ should_exit \in BOOLEAN
  /\ exit_on_error \in BOOLEAN
  /\ inPosition \in BOOLEAN

\* TypeOK is the regulators' part and the loop's.
LEMMA TypeSplit == (TypeOK <=> RegTypeOK /\ LoopTypeOK)
  BY DEF TypeOK, LoopTypeOK

\* The commands the program makes itself, and the time of a point.
LEMMA CommandTypes ==
  /\ Exit \in Commands /\ Flush \in Commands
  /\ Exit.op # "flush" /\ Flush.op = "flush"
  /\ \A c \in Commands : c.op = "point" => c.t \in Times
  /\ Sent \subseteq Commands
  BY LoopAssumption DEF Commands, Sent, Command, Exit, Flush

\* Putting a command in the queue keeps its type and its bound.
LEMMA EnqueueType ==
  ASSUME TypeOK, NEW c \in Commands, Enqueue(c),
         Len(cmd_qu) < QueueMax \/ c.op = "flush"
  PROVE  cmd_qu' \in Seq(Commands) /\ Len(cmd_qu') <= QueueMax
<1>1. CASE c.op = "flush"
  <2>1. cmd_qu' = <<c>>
    BY <1>1 DEF Enqueue
  <2>2. QED
    BY <2>1, LoopAssumption
<1>2. CASE c.op # "flush"
  <2>1. cmd_qu' = Append(cmd_qu, c)
    BY <1>2 DEF Enqueue
  <2>2. QED
    BY <1>2, <2>1, LoopAssumption DEF TypeOK
<1>3. QED
  BY <1>1, <1>2

\* Taking the first command from the queue.
LEMMA RunType ==
  ASSUME TypeOK, NEW op, Run(op)
  PROVE  /\ cmd_qu' \in Seq(Commands) /\ Len(cmd_qu') <= QueueMax
         /\ Head(cmd_qu) \in Commands
         /\ \A i \in 1..Len(cmd_qu') : i + 1 \in 2..Len(cmd_qu) /\ cmd_qu'[i] = cmd_qu[i + 1]
  BY HeadTailProperties, LoopAssumption DEF TypeOK, Run

\* The sets the variables range over survive every step.
LEMMA TypeStep == TypeOK /\ [Next]_vars => TypeOK'
<1> SUFFICES ASSUME TypeOK, [Next]_vars PROVE TypeOK'
  OBVIOUS
<1> USE DEF entryVars, loopVars
<1>1. CASE UNCHANGED vars
  BY <1>1 DEF vars, regVars, TypeOK, RegTypeOK
<1>2. CASE PickUpInterrupt \/ PickUp
  <2>1. cmd_qu' \in Seq(Commands) /\ Len(cmd_qu') <= QueueMax
    <3>1. CASE PickUpInterrupt
      BY <3>1, EnqueueType, CommandTypes DEF PickUpInterrupt
    <3>2. CASE PickUp
      <4>1. line \in Commands
        BY <3>2 DEF PickUp, TypeOK
      <4>2. QED
        BY <3>2, <4>1, EnqueueType DEF PickUp
    <3>3. QED
      BY <1>2, <3>1, <3>2
  <2>2. RegTypeOK'
    BY <1>2, RegUnchanged DEF PickUpInterrupt, PickUp, TypeOK
  <2>3. LoopTypeOK'
    BY <1>2, <2>1 DEF PickUpInterrupt, PickUp, TypeOK, LoopTypeOK
  <2>4. QED
    BY <2>2, <2>3, TypeSplit DEF TypeOK, LoopTypeOK
<1>3. CASE PickUpNothing \/ RunNothing
  <2>1. RegTypeOK'
    BY <1>3, RegUnchanged DEF PickUpNothing, RunNothing, TypeOK
  <2>2. QED
    BY <1>3, <2>1 DEF PickUpNothing, RunNothing, TypeOK
<1>4. CASE RunMove \/ RunTrack \/ RunExit \/ RunSetErrexit \/ RunWaitidle
  <2>1. RegTypeOK'
    BY <1>4, RegUnchanged
    DEF RunMove, RunTrack, RunExit, RunSetErrexit, RunWaitidle, TypeOK
  <2>2. cmd_qu' \in Seq(Commands) /\ Len(cmd_qu') <= QueueMax
    BY <1>4, RunType DEF RunMove, RunTrack, RunExit, RunSetErrexit, RunWaitidle
  <2>3. LoopTypeOK'
    BY <1>4, <2>2
    DEF RunMove, RunTrack, RunExit, RunSetErrexit, RunWaitidle, Run, TypeOK, LoopTypeOK
  <2>4. QED
    BY <2>1, <2>3 DEF TypeOK, LoopTypeOK
<1>5. CASE RunFlush
  <2>1. RegTypeOK'
    BY <1>5 DEF RunFlush, RegFlush, TypeOK, RegTypeOK
  <2>2. cmd_qu' \in Seq(Commands) /\ Len(cmd_qu') <= QueueMax
    BY <1>5, RunType DEF RunFlush
  <2>3. LoopTypeOK'
    BY <1>5, <2>2 DEF RunFlush, Run, TypeOK, LoopTypeOK
  <2>4. QED
    BY <2>1, <2>3 DEF TypeOK, LoopTypeOK
<1>6. CASE RunPoint
  <2>1. RegTypeOK'
    BY <1>6, RegUnchanged DEF RunPoint, TypeOK
  <2>2. cmd_qu' \in Seq(Commands) /\ Len(cmd_qu') <= QueueMax
    BY <1>6, RunType DEF RunPoint
  <2>3. Head(cmd_qu).t \in Times
    BY <1>6, RunType, CommandTypes DEF RunPoint, Run
  <2>4. LoopTypeOK'
    BY <1>6, <2>2, <2>3 DEF RunPoint, Run, TypeOK, LoopTypeOK
  <2>5. QED
    BY <2>1, <2>4 DEF TypeOK, LoopTypeOK
<1>7. CASE NotRunning \/ MoveAxes
  <2>1. RegTypeOK'
    <3>1. PICK result : RegStep(should_exit', result)
      BY <1>7 DEF NotRunning, MoveAxes, StepRegulators
    <3>2. QED
      BY <3>1, RegTypeStep DEF TypeOK
  <2>2. now' \in 0..MaxTime /\ at' \in {"exited", "pickup"}
    <3>1. Tick /\ StepRegulators
      BY <1>7 DEF NotRunning, MoveAxes
    <3>2. now' \in 0..MaxTime
      BY <3>1, LoopAssumption DEF Tick, TypeOK
    <3>3. at' \in {"exited", "pickup"}
      BY <3>1 DEF StepRegulators
    <3>4. QED
      BY <3>2, <3>3
  <2>3. should_exit' \in BOOLEAN /\ inPosition' \in BOOLEAN
    BY <1>7 DEF NotRunning, MoveAxes, WantsExit, error, TypeOK
  <2>4. LoopTypeOK'
    BY <1>7, <2>2, <2>3 DEF NotRunning, MoveAxes, TypeOK, LoopTypeOK
  <2>5. QED
    BY <2>1, <2>4 DEF TypeOK, LoopTypeOK
<1>8. CASE Advance
  <2>1. RegTypeOK'
    BY <1>8, RegUnchanged DEF Advance, TypeOK
  <2>2. track_xs' \in Seq(Times) /\ mode' \in {"IDLE", "TRACK", "MOVE"}
    <3>1. CASE AdvanceTrack /\ track_xs # <<>>
      <4>1. PICK first \in 1..Len(track_xs) :
              Remaining = SubSeq(track_xs, first, Len(track_xs))
        BY <3>1, RemainingTail
      <4>2. /\ track_xs \in Seq(Times)
            /\ \A i \in first..Len(track_xs) : track_xs[i] \in Times
        BY DEF TypeOK
      <4>3. Remaining \in Seq(Times)
        BY <4>1, <4>2, SubSeqProperties
      <4>4. <<>> \in Seq(Times) /\ mode' \in {"IDLE", mode}
            /\ track_xs' \in {<<>>, Remaining}
        BY <3>1, EmptySeq DEF AdvanceTrack
      <4>5. QED
        BY <4>3, <4>4 DEF TypeOK
    <3>2. CASE AdvanceTrack /\ track_xs = <<>>
      BY <3>2 DEF AdvanceTrack, TypeOK
    <3>3. CASE AdvanceMove \/ AdvanceIdle
      BY <3>3 DEF AdvanceMove, AdvanceIdle, TypeOK
    <3>4. QED
      BY <1>8, <3>1, <3>2, <3>3 DEF Advance
  <2>3. LoopTypeOK'
    BY <1>8, <2>2 DEF Advance, WantsExit, error, TypeOK, LoopTypeOK
  <2>4. QED
    BY <2>1, <2>3 DEF TypeOK, LoopTypeOK
<1>9. CASE ThreadRuns
  BY <1>9 DEF ThreadRuns, ThreadStep, ThreadWakes, ThreadPulses, ThreadArrives,
     TypeOK, RegTypeOK
<1>10. CASE Environment
  <2>1. RegTypeOK'
    BY <1>10, RegUnchanged
    DEF Environment, ReadLine, ReadEof, StdinEnds, SigInt, TypeOK
  <2>2. QED
    BY <1>10, <2>1, CommandTypes
    DEF Environment, ReadLine, ReadEof, StdinEnds, SigInt, TypeOK
<1>11. QED
  BY <1>1, <1>2, <1>3, <1>4, <1>5, <1>6, <1>7, <1>8, <1>9, <1>10
  DEF Next, MainStep, Running

-----------------------------------------------------------------------------
(* The invariant.                                                          *)

\* The drives go off before the program ends.
LEMMA PowerStep == TypeOK /\ PowerInv /\ [Next]_vars => PowerInv'
<1> SUFFICES ASSUME TypeOK, PowerInv, [Next]_vars PROVE PowerInv'
  OBVIOUS
<1> USE DEF PowerInv, ExitsPoweredOff, PoweredOff
<1>1. CASE NotRunning \/ MoveAxes
  <2>1. PICK result : /\ RegStep(should_exit', result)
                      /\ at' = IF result = "done" THEN "exited" ELSE "pickup"
    BY <1>1 DEF NotRunning, MoveAxes, StepRegulators
  <2>2. RegTypeOK
    BY DEF TypeOK
  <2>3. result = "done" \/ rstate' = 100 => PoweredOff'
    BY <2>1, <2>2, RegPowerStep
  <2>4. QED
    BY <2>1, <2>3
<1>2. CASE RunFlush
  BY <1>2 DEF RunFlush, Run, RegFlush
<1>3. CASE ThreadRuns
  BY <1>3 DEF ThreadRuns, ThreadStep, ThreadWakes, ThreadPulses, ThreadArrives, loopVars
<1>4. CASE PickUpInterrupt \/ PickUp \/ PickUpNothing \/ RunNothing \/ Advance
  BY <1>4 DEF PickUpInterrupt, PickUp, PickUpNothing, RunNothing, Advance, regVars
<1>5. CASE \/ RunMove \/ RunPoint \/ RunTrack \/ RunExit \/ RunSetErrexit
           \/ RunWaitidle
  BY <1>5 DEF RunMove, RunPoint, RunTrack, RunExit, RunSetErrexit, RunWaitidle,
     Run, regVars
<1>6. CASE Environment \/ UNCHANGED vars
  BY <1>6 DEF Environment, ReadLine, ReadEof, StdinEnds, SigInt, vars, loopVars, regVars
<1>7. QED
  BY <1>1, <1>2, <1>3, <1>4, <1>5, <1>6 DEF Next, MainStep, Running

\* A flush can only be the first command in the queue, so a round that stops at a
\* waitidle, or at the end of the queue, has left none behind.
LEMMA QueueStep == TypeOK /\ QueueInv /\ [Next]_vars => QueueInv'
<1> SUFFICES ASSUME TypeOK, QueueInv, [Next]_vars PROVE QueueInv'
  OBVIOUS
<1> USE DEF QueueInv, FlushImmediate
<1>1. cmd_qu \in Seq(Commands)
  BY DEF TypeOK
<1>2. ASSUME at = "pickup", at' = "pickup", NEW c \in Commands, Enqueue(c)
      PROVE  QueueInv'
  <2>1. CASE c.op = "flush"
    <3>1. cmd_qu' = <<c>>
      BY <1>2, <2>1 DEF Enqueue
    <3>2. QED
      BY <1>2, <3>1
  <2>2. CASE c.op # "flush"
    <3>1. cmd_qu' = Append(cmd_qu, c)
      BY <1>2, <2>2 DEF Enqueue
    <3>2. QED
      BY <1>1, <1>2, <2>2, <3>1
  <2>3. QED
    BY <2>1, <2>2
<1>3. CASE PickUpInterrupt
  BY <1>2, <1>3, CommandTypes DEF PickUpInterrupt
<1>4. CASE PickUp
  BY <1>2, <1>4 DEF PickUp, TypeOK
<1>5. ASSUME NEW op, Run(op) PROVE QueueInv'
  <2>1. \A i \in 1..Len(cmd_qu') : i + 1 \in 2..Len(cmd_qu) /\ cmd_qu'[i] = cmd_qu[i + 1]
    BY <1>5, RunType
  <2>2. at' = "process"
    BY <1>5 DEF Run
  <2>3. cmd_qu' \in Seq(Commands)
    BY <1>5, RunType
  <2>4. QED
    BY <2>1, <2>2, <2>3
<1>6. CASE RunNothing
  <2>1. CASE cmd_qu = <<>>
    BY <1>6, <2>1 DEF RunNothing
  <2>2. CASE cmd_qu # <<>>
    <3>1. cmd_qu[1].op = "waitidle"
      BY <1>6, <2>2 DEF RunNothing
    <3>2. \A i \in DOMAIN cmd_qu : i = 1 \/ i \in 2..Len(cmd_qu)
      BY <1>1
    <3>3. QED
      BY <1>6, <3>1, <3>2 DEF RunNothing
  <2>3. QED
    BY <2>1, <2>2
<1>7. CASE PickUpNothing \/ NotRunning \/ Advance \/ MoveAxes
  BY <1>7 DEF PickUpNothing, NotRunning, Advance, MoveAxes, StepRegulators
<1>8. CASE ThreadRuns \/ Environment \/ UNCHANGED vars
  BY <1>8 DEF ThreadRuns, Environment, ReadLine, ReadEof, StdinEnds, SigInt, vars, loopVars
<1>9. QED
  BY <1>3, <1>4, <1>5, <1>6, <1>7, <1>8
  DEF Next, MainStep, Running, RunMove, RunPoint, RunTrack, RunFlush, RunExit,
      RunSetErrexit, RunWaitidle

\* The points increase, and what a round of tracking leaves of them can be
\* interpolated.
LEMMA TrackStep == TypeOK /\ TrackInv /\ [Next]_vars => TrackInv'
<1> SUFFICES ASSUME TypeOK, TrackInv, [Next]_vars PROVE TrackInv'
  OBVIOUS
<1> USE DEF TrackInv, InterpSafe
<1>1. track_xs \in Seq(Times) /\ Times \subseteq Nat /\ now \in Nat
  BY LoopAssumption DEF TypeOK
<1>2. CASE RunPoint
  <2> DEFINE t == Head(cmd_qu).t
  <2>1. t \in Times /\ at' = at /\ at = "process"
    BY <1>2, RunType, CommandTypes DEF RunPoint, Run
  <2>2. CASE track_xs' = track_xs
    BY <2>1, <2>2
  <2>3. CASE track_xs' # track_xs
    <3>1. /\ track_xs' = Append(track_xs, t)
          /\ track_xs # <<>> => track_xs[Len(track_xs)] < t
      <4>1. track_xs' = IF track_xs # <<>> /\ t <= track_xs[Len(track_xs)]
                          THEN track_xs ELSE Append(track_xs, t)
        BY <1>2 DEF RunPoint
      <4> HIDE DEF t
      <4>2. /\ track_xs' = Append(track_xs, t)
            /\ track_xs = <<>> \/ ~ (t <= track_xs[Len(track_xs)])
        BY <2>3, <4>1, Zenon
      <4>3. ASSUME track_xs # <<>> PROVE track_xs[Len(track_xs)] \in Nat
        <5>1. Len(track_xs) \in Nat \ {0}
          BY <1>1, <4>3, EmptySeq
        <5>2. track_xs[Len(track_xs)] \in Times
          BY <1>1, <5>1, ElementOfSeq
        <5>3. QED
          BY <1>1, <5>2
      <4>4. t \in Nat
        BY <1>1, <2>1
      <4>5. QED
        BY <4>2, <4>3, <4>4
    <3>2. QED
      BY <1>1, <2>1, <3>1
  <2>4. QED
    BY <2>2, <2>3
<1>3. CASE RunFlush
  BY <1>3 DEF RunFlush, Run
<1>4. CASE Advance
  <2>1. CASE AdvanceTrack /\ track_xs # <<>>
    <3>1. PICK first \in 1..Len(track_xs) :
            /\ Remaining = SubSeq(track_xs, first, Len(track_xs))
            /\ first < Len(track_xs) => track_xs[first + 1] > now
      BY <2>1, RemainingTail
    <3>2. /\ Remaining \in Seq(Times)
          /\ Len(Remaining) = Len(track_xs) - first + 1
          /\ \A i \in 1..Len(Remaining) : Remaining[i] = track_xs[first + i - 1]
      <4>1. \A i \in first..Len(track_xs) : track_xs[i] \in Times
        BY <1>1
      <4>2. QED
        BY <1>1, <3>1, <4>1, SubSeqProperties
    <3>3. CASE Len(Remaining) <= 1
      BY <1>4, <2>1, <3>3 DEF AdvanceTrack, Advance
    <3>4. CASE Len(Remaining) > 1
      <4>1. track_xs' = Remaining /\ now' = now
        BY <1>4, <2>1, <3>2, <3>4 DEF AdvanceTrack, Advance
      <4>2. first < Len(track_xs) /\ Remaining[2] = track_xs[first + 1]
        BY <1>1, <3>1, <3>2, <3>4
      <4>3. \A i \in 1..Len(Remaining) - 1 : Remaining[i] < Remaining[i + 1]
        BY <1>1, <3>1, <3>2
      <4>4. QED
        BY <1>1, <3>1, <3>2, <3>4, <4>1, <4>2, <4>3
    <3>5. QED
      BY <3>2, <3>3, <3>4
  <2>2. CASE AdvanceTrack /\ track_xs = <<>>
    BY <2>2 DEF AdvanceTrack
  <2>3. CASE AdvanceMove \/ AdvanceIdle
    BY <1>4, <2>3 DEF AdvanceMove, AdvanceIdle
  <2>4. QED
    BY <1>4, <2>1, <2>2, <2>3 DEF Advance
<1>5. CASE PickUpInterrupt \/ PickUp \/ PickUpNothing \/ RunNothing
  BY <1>5 DEF PickUpInterrupt, PickUp, PickUpNothing, RunNothing
<1>6. CASE RunMove \/ RunTrack \/ RunExit \/ RunSetErrexit \/ RunWaitidle
  BY <1>6 DEF RunMove, RunTrack, RunExit, RunSetErrexit, RunWaitidle, Run
<1>7. CASE NotRunning \/ MoveAxes
  BY <1>7 DEF NotRunning, MoveAxes, StepRegulators
<1>8. CASE ThreadRuns \/ Environment \/ UNCHANGED vars
  BY <1>8 DEF ThreadRuns, Environment, ReadLine, ReadEof, StdinEnds, SigInt, vars, loopVars
<1>9. QED
  BY <1>2, <1>3, <1>4, <1>5, <1>6, <1>7, <1>8 DEF Next, MainStep, Running

\* The invariant of the main loop.
THEOREM DishInvariant == Spec => []DishInv
<1>1. Init => DishInv
  <2>1. SUFFICES ASSUME Init PROVE DishInv
    OBVIOUS
  <2>2. TypeOK
    <3>1. RegTypeOK
      BY <2>1, RegulatorsAssumption DEF Init, RegInit, RegTypeOK
    <3>2. /\ <<>> \in Seq(Commands) /\ <<>> \in Seq(Times)
          /\ Len(<<>>) <= QueueMax /\ 0 \in 0..MaxTime
      BY LoopAssumption, EmptySeq
    <3>3. QED
      BY <2>1, <3>1, <3>2 DEF Init, TypeOK
  <2>3. PowerInv /\ QueueInv /\ TrackInv
    BY <2>1 DEF Init, RegInit, PowerInv, ExitsPoweredOff, QueueInv, FlushImmediate,
       TrackInv, InterpSafe
  <2>4. QED
    BY <2>2, <2>3 DEF DishInv
<1>2. DishInv /\ [Next]_vars => DishInv'
  BY TypeStep, PowerStep, QueueStep, TrackStep DEF DishInv
<1>3. QED
  BY <1>1, <1>2, PTL DEF Spec

\* Interpolation is only called on points it can use.
THEOREM NeverInterpolatesWrongly == Spec => []InterpSafe
<1>1. DishInv => InterpSafe
  BY DEF DishInv, TrackInv
<1>2. QED
  BY <1>1, DishInvariant, PTL

\* No round of the loop leaves a flush in the queue.
THEOREM FlushIsImmediate == Spec => []FlushImmediate
<1>1. DishInv => FlushImmediate
  BY DEF DishInv, QueueInv
<1>2. QED
  BY <1>1, DishInvariant, PTL

\* The program only ends with the drives off.
THEOREM EndsPoweredOff == Spec => []ExitsPoweredOff
<1>1. DishInv => ExitsPoweredOff
  BY DEF DishInv, PowerInv
<1>2. QED
  BY <1>1, DishInvariant, PTL

\* However tracking ends - by a flush, by running out of points - it ends idle and
\* with no point left.
THEOREM TrackingIsCleared == Spec => TrackingEndsClean
<1> DEFINE Clean == mode = "TRACK" /\ mode' # "TRACK" => mode' = "IDLE" /\ track_xs' = <<>>
<1>1. ASSUME [Next]_vars PROVE Clean
  <2>1. CASE RunMove \/ RunTrack \/ RunFlush
    BY <2>1 DEF RunMove, RunTrack, RunFlush
  <2>2. CASE RunPoint \/ RunExit \/ RunSetErrexit \/ RunWaitidle
    BY <2>2 DEF RunPoint, RunExit, RunSetErrexit, RunWaitidle
  <2>3. CASE Advance
    BY <2>3 DEF Advance, AdvanceTrack, AdvanceMove, AdvanceIdle
  <2>4. CASE PickUpInterrupt \/ PickUp \/ PickUpNothing \/ RunNothing
    BY <2>4 DEF PickUpInterrupt, PickUp, PickUpNothing, RunNothing
  <2>5. CASE NotRunning \/ MoveAxes
    BY <2>5 DEF NotRunning, MoveAxes
  <2>6. CASE ThreadRuns \/ Environment \/ UNCHANGED vars
    BY <2>6 DEF ThreadRuns, Environment, ReadLine, ReadEof, StdinEnds, SigInt,
       vars, loopVars
  <2>7. QED
    BY <1>1, <2>1, <2>2, <2>3, <2>4, <2>5, <2>6 DEF Next, MainStep, Running
<1>2. QED
  BY <1>1, PTL DEF Spec, TrackingEndsClean
=============================================================================
