----------------------------- MODULE Regulators -----------------------------
(***************************************************************************)
(* The regulators of dishp: AxisControl of src/sw/dishp/src/regulators.cpp *)
(* with the outer loop of its pulse thread.  The state numbers are the     *)
(* code's.  Positions are left out: whether a homing pass goes on, ends at *)
(* the home switch or runs out of the axis range is a free choice, as are  *)
(* alarms of the drives.                                                   *)
(***************************************************************************)
EXTENDS Integers

CONSTANTS
  SkipHoming,   \* the -h option
  Patience      \* periods the drives have to come up (1000)

ASSUME RegulatorsAssumption == SkipHoming \in BOOLEAN /\ Patience \in Nat

VARIABLES
  rstate,   \* AxisControl.state
  dx,       \* counts Patience down in state 11 (0 in the others)
  power,    \* the POWER output
  movEnable,   \* PositionControl.movEnable
  posted,   \* the pulse thread's semaphore is not zero
  thread    \* the pulse thread: waiting, past its test of movEnable, or pulsing

regVars == <<rstate, dx, power, movEnable, posted, thread>>

RegTypeOK ==
  /\ rstate \in {0, 10, 11, 20, 21, 22, 23, 30, 40, 100, 255}
  /\ dx \in 0..Patience
  /\ power \in {"low", "high"}
  /\ movEnable \in {"off", "on"}
  /\ posted \in {"no", "yes"}
  /\ thread \in {"wait", "tested", "busy"}

RegInit ==
  /\ rstate = 0 /\ dx = 0 /\ power = "low"
  /\ movEnable = "off" /\ posted = "no" /\ thread = "wait"

running == rstate = 30
error   == rstate > 200

-----------------------------------------------------------------------------
(* AxisControl.step.  Before the switch, a request to terminate and then an *)
(* alarm of the drives may replace the state.                              *)

\* Mutant: a request to terminate waits for the homing to end.
EntryRunning(req, ok) ==
  IF rstate = 30 /\ req THEN 40
  ELSE IF rstate \in 20..39 /\ ~ok THEN 255
  ELSE rstate

Entry(req, ok) ==
  IF rstate < 40 /\ req THEN 40
  ELSE IF rstate \in 20..39 /\ ~ok THEN 255
  ELSE rstate

Keep == UNCHANGED <<power, movEnable, posted>>

\* gAxis->update() posts the semaphore when some axis has to move.
update == posted' \in {"yes", posted}

SwitchOff == rstate' = 10 /\ Keep

SwitchStarting ==
  /\ power' = "high" /\ rstate' = 11
  /\ UNCHANGED <<movEnable, posted>>

\* The drives come up (no alarm), or the wait goes on until it times out.
SwitchWaiting(ok) ==
  /\ IF ok THEN rstate' = 20 /\ movEnable' = "on"
           ELSE rstate' = (IF dx <= 0 THEN 255 ELSE 11) /\ movEnable' = movEnable
  /\ UNCHANGED <<power, posted>>

SwitchHoming == rstate' = (IF SkipHoming THEN 23 ELSE 21) /\ Keep

\* Down to the home switch (21), up until it is released (22).  A pass that
\* leaves the axis range is an error, and still calls update.
SwitchPass(s) ==
  /\ \/ rstate' = s + 1 /\ posted' = posted
     \/ rstate' \in {s, 255} /\ update
  /\ UNCHANGED <<power, movEnable>>

SwitchHomed == rstate' = 30 /\ Keep

SwitchRunning ==
  /\ rstate' = 30 /\ update
  /\ UNCHANGED <<power, movEnable>>

SwitchStopping ==
  /\ movEnable' = "off"
  /\ IF thread # "busy"
       THEN power' = "low" /\ rstate' = 100
       ELSE power' = power /\ rstate' = 40
  /\ UNCHANGED posted

\* Mutant: an error is left without switching the power off.
SwitchErrorPowered(req) ==
  /\ rstate' = 255 /\ movEnable' = "off"
  /\ UNCHANGED <<power, posted>>

SwitchError(req) ==
  /\ rstate' = 255 /\ movEnable' = "off"
  /\ power' = IF req THEN "low" ELSE power
  /\ UNCHANGED posted

Switch(s, req, ok) ==
  \/ s = 0   /\ SwitchOff
  \/ s = 10  /\ SwitchStarting
  \/ s = 11  /\ SwitchWaiting(ok)
  \/ s = 20  /\ SwitchHoming
  \/ s \in {21, 22} /\ SwitchPass(s)
  \/ s = 23  /\ SwitchHomed
  \/ s = 30  /\ SwitchRunning
  \/ s = 40  /\ SwitchStopping
  \/ s = 100 /\ rstate' = 100 /\ Keep
  \/ s = 255 /\ SwitchError(req)

\* step returns result: done only when there is nothing left to stop.
RegStep(req, result) ==
  \E ok \in BOOLEAN :
    LET s == Entry(req, ok) IN
      /\ Switch(s, req, ok)
      /\ dx' = IF rstate' # 11 THEN 0 ELSE IF s = 10 THEN Patience ELSE dx - 1
      /\ result = IF s = 100 \/ (s = 255 /\ req) THEN "done" ELSE "goes on"
      /\ UNCHANGED thread

\* AxisControl.flush
RegFlush ==
  /\ rstate' = IF rstate \in {20, 21, 22} THEN 23 ELSE rstate
  /\ UNCHANGED <<dx, power, movEnable, posted, thread>>

-----------------------------------------------------------------------------
(* PositionControl.loop.                                                   *)

ThreadWakes ==
  /\ thread = "wait" /\ posted = "yes"
  /\ posted' \in {"no", "yes"}
  /\ thread' = IF movEnable = "on" THEN "tested" ELSE "wait"
  /\ UNCHANGED <<rstate, dx, power, movEnable>>

ThreadPulses ==
  /\ thread = "tested" /\ thread' = "busy"
  /\ UNCHANGED <<rstate, dx, power, movEnable, posted>>

ThreadArrives ==
  /\ thread = "busy" /\ thread' = "wait"
  /\ UNCHANGED <<rstate, dx, power, movEnable, posted>>

ThreadStep == ThreadWakes \/ ThreadPulses \/ ThreadArrives
=============================================================================
