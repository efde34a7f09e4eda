# TALIR01 in TLA+

A verification development for the control software of the TALIR01 radio
telescope: TLA+ modules translated from the source under `src/sw`, TLC
configurations that check them on small instances, and TLAPS proofs of their
safety properties for every value of the constants.

Paths below are relative to the repository (`src/` is its root); line numbers are
those of the commit modelled.

## 1. The system

A dish with two stepper axes is driven by `dishp`, which reads commands from
standard input and prints positions. `controlmux` runs `dishp` on demand and lets
several clients take control of its input and output in turn, by priority.
`talir_cmd_desk` is a web server that starts a `controlmux` client for an
operator; `satplan` prints `dishp` commands that follow a satellite. `gr-talir`
holds signal blocks of the receiver and shares nothing with the rest; the largest
part of its code is the tool that turns Doxygen's XML into docstrings for SWIG.

    satplan --.                                     (commands, points)
              +--> controlmux client --socket--> controlmux server --pipes--> dishp
    browser --> talir_cmd_desk --^                                              |
                                                                  pulses, GPIO <+

### Inventory

| Component | State | Operations | What is hard | What makes it correct |
|---|---|---|---|---|
| `controlmux`, one process (`main.go` 35-296) | the hill (owner, kick and free channels, mutex), pipes, `pipeOutBuffs`, idle timer, `drain` | `Claim`, `attach`, `stopTimeout`, `resetTimeout`, the three goroutines of `run`, two copies per client | six kinds of goroutine meeting on unbuffered channels; hang-ups, kicks, time-outs and the death of the program at any step | exclusive control, output goes to the client in control, the timer runs exactly while nobody is in control, no goroutine wedges, an idle program stops, a dead one is reaped |
| `controlmux`, `serve` (298-379) | the global `proc`, `procM`, each connection's `procRef` | acquire a reference, wait for a closing process, attach | `proc` is read again without the mutex; references outlive the process | one program at a time, exclusive control across restarts, started on demand, priority respected |
| `controlmux`, listeners, handshake, client mode (303-335, 381-462) | none shared | accept, pass file descriptors | - | - |
| `dishp`, command entry and loop (`util.h`, `main.cpp` 370-564) | `line` and two semaphores, the queue, mode, tracking points, `should_exit`, `exit_on_error` | read a line, SIGINT, pick up, run each command, one period | reader thread and signal against the loop; `waitidle` holding up the queue; points running out; errors | flush is immediate, interpolation never gets a bad list, exit and errexit end the program with the drives off |
| `dishp`, regulators (`regulators.cpp`) | `state`, `POWER`, `movEnable`, `busy`, positions, a semaphore | `step`, `flush`, the pulse thread | alarms and termination in every state; the pulse thread shares plain variables with the loop | the drives are off whenever the program ends; no pulse without power; while the regulators run, no runaway that lasts |
| `dishp`, axis motion (`main.cpp` 60-240) | current position, its fraction, velocity, target | `step`, `in_position` | integer truncation, limits, speed parameters of any sign | a move ends on target, the axis comes back to its range, a parameter that is not negative keeps the hard speed |
| `dishp`, printing (309-335) | one point, two semaphores | hand over or drop | two threads | no torn point, the loop never blocks |
| `talir_cmd_desk` (`session.go`, `main.go`, the page's script) | `sess`, its pipe, a 5 s timer | start, cmd, up (ping), shut-down | timer against ping, handlers against each other, a program that dies or does not start | one program, an attended session is kept, an unattended session ends, every request is answered |
| `satplan` | none | search for passes at two grains, map azimuths, print commands | a coarse search and a refined one that need not find the same pass; the seam of the azimuth range | what is printed is a pass, none is skipped, the track does not jump |
| `gr-talir`, XML binding (`doxyxml/generated`) | an object per element | `build`, `export` of 81 classes | mixed content, quoting, absent attributes, subclasses put in at load time | what is exported is what was built |
| `gr-talir`, `doxyxml` and `swig_doc.py` | the members of the index, parsed when first asked for; `make_funcs`; the output | read the index, find blocks of two styles, write four kinds of entries | files that are broken or missing at any of these points, names that clash | the output is complete and says nothing twice; the script survives bad files |
| `gr-talir` signal blocks, receiver scripts, build files | - | - | - | - |

Every hazard that follows from this, with its line and the property that would
catch it, is listed under `hazards` in `PROJECT.json`.

## 2. Modules

| Module | What it is |
|---|---|
| `ExclusiveControl` | What one process promises: at most one connected client, control changes hands by release or by a strictly higher priority. |
| `ControlMux` | One process of `controlmux` and its clients in full. Implements `ExclusiveControl`. |
| `MuxServe` | `serve` over successive processes, with `attach` taken as `ExclusiveControl` promises it. |
| `Regulators` | The states of `AxisControl` and the outer loop of the pulse thread. |
| `DishLoop` | The main loop of `dishp` with its command entry; EXTENDS `Regulators`. |
| `Axis` | `axis.step` under the modes of the main loop, for one axis, with the code's truncating division and speed parameters of any sign. |
| `PulseThread` | `update` and the pulse thread that serves both axes, one read or write of a shared variable a step. |
| `Drive` | The two composed, through the limiter of `AxisControl`: periods of state 30, then of state 40. |
| `DeskSession` | A session of `talir_cmd_desk`, the handlers and the pages. |
| `SatPlan` | The searches and the script of `satplan.py`. |
| `DoxyBinding` | The classes of `compoundsuper.py` and `indexsuper.py` as a table, with `build` and `export` over it. |
| `SwigDoc` | `swig_doc.py` and the part of `doxyxml` it uses. |
| `DoxyDocs` | `SwigDoc` reading files that `DoxyBinding` builds. |
| `NumberFacts` | Two lemmas about sets of naturals: a least and a greatest element. |
| `MC...` | Instances for TLC. |
| `..._proofs` | Theorems and proofs. |

Definitions named `Mutant:` in a comment are wrong on purpose: each is what a
plausible bug would make of the definition after it, and replacing that
definition by it makes the run of the property named in `PROJECT.json` fail.

### ControlMux

`pc[c]` is where connection `c` is in `serve`/`attach`: `select` (216), `lock`
and `kick` and `await` (49, 62, 64 of `Claim`), `stop` (228), `on` (the select at
266), `leave` (271-276), `reset` and `free` (the deferred calls). `inp[c]` and
`outp[c]` are its two copy goroutines, `errch[c]` the results waiting. `run`,
`reader` and `watcher` are the three goroutines of `process.run`; `exited`,
`closed` and `pipesReady` are functions of where these are. A send on an unbuffered
channel is one step of both ends (`Kick`, `StopTimeout`, `ResetTimeout`,
`RunOutEnded`); a close is a change of the state the receivers' guards read.
`mutex` names a claimant blocked inside `Claim`; a claim that does not block is
one step under the mutex.

Left out: payloads (chunks are counted), messages, and receives from the closed
`pipeOutBuffs`, which change nothing.

### MuxServe

The two critical sections of 340-348 are separate steps because between them
`proc` is nil for a reader without the mutex; `CheckClosed` and `WaitRead` are
such reads. A nil `proc` there is a run-time panic that ends the server
(`server = "panicked"`). A process is `live`, then `closing` (its watcher timed
out: `Closed`) or `dead` (`Exited`, watcher not yet told), then `gone`. Names of
processes are used again once nothing refers to them, which keeps the model finite
without a bound on restarts.

### Regulators and DishLoop

State numbers are the code's. `Entry` is the part of `step` before the switch,
`Switch` the switch, with one operator per case. Coordinates are left out: whether
a homing pass goes on, ends or runs out of range, whether the drives signal an alarm,
and when the axes arrive are free choices. The wait for the drives ends: `dx` counts
`Patience` periods down (1000 in the code) and then the regulators are in error. A
semaphore that may have been posted several times is `posted`, left set or cleared at a
wait.

A round of `DishLoop` is `pickup` (388-395), `process` (397-469), `regulators`
(471-521) and, when the regulators run, `axes` (523-559). `line` holds the line
the reader thread has posted and waits to see taken.

### Axis, PulseThread and Drive

A `Period` is one round of the main loop in state 30: at most one command, the
mode (488-521), `axis.step`, and the write of `movTargetPos` before `update`. What is
written is `Limited(current)`: `AxisControl.step` clamps its argument to the range of the
axis (`regulators.cpp` 349-357) while the axis keeps the position it has run to.
Positions are pulses; `currentSub` counts `1/Frequency` of a pulse, so that
`currentVel` is what a period adds. `Approach` is the integer part of the code's
square root (197), `Quotient` the division of C (222). `TRACK` hands `Step` any
position and velocity interpolation could. `Speeds` holds integers of either sign, as the
code takes any value of `atof` without a check (357, 443-463). A negative one turns `min`
and `clamp` around and the axis moves for ever; the module follows it up to `Far` pulses
and while the thread keeps up.

`main` is where the main thread is in `update` (293-327) and `thread` where the
pulse thread is (177-191, 253-289); `up` and `down` are the places between the
count of a pulse and the pulse, which `PulseMade` compares with the pins. An
increment that was never written may be 0, as may `alldone` be anything. One thread
serves both axes in one loop (257-277), and `update` goes over both (294-316). One axis is
modelled in full, of the other `otherBehind`: whether it is behind its target, which any
of its targets or pulses may change. What the two share, the thread, the semaphore, `busy`
and `alldone`, is all there; `OtherFirst` says which of them has the smaller number. `late`
records that a period began before the thread had caught up; what is proved about
directions holds until then, and after it only that the thread settles. `Stop` is
a period of state 40 (456-463).

`reset` and the coordinates of homing are left out, and after a late period the operator
gives no more commands (`Told`): this bounds how far position and target can part.

### DeskSession

A second passes (`Tick`) when no goroutine can go on. `timer[s]` counts down to 0,
a value that waits in `t.C`; `Off` says that the select has received it. Each
page is in `acquire` (`idle`), in an up request (`ping` until `session.ping` is
received, then `wait`), or between two (`away`). `fast` pings again within
`Latency`; `slow` when it likes, or never. A handler that only looks at `sess`, or
closes its pipe, is one step under `sessM`; `cmdHandler` is two, since it writes after
unlocking. The names of sessions are used again once nothing refers to them.

What the module shows beside its properties: a page that comes back between the
time-out and the end of the program has its ping received at 78, finds `Stop` false
and the value gone, and `run` waits at 80 for ever. From then on `startHandler` never
sees `exited` and no session can be started. Both liveness properties name this
state (`wedged`) as their exception.

### SatPlan

The course of the satellite is a table of elevations by tick and an azimuth that
turns evenly; outside the table it is below the horizon. Each round of a loop is a step:
`Sample` is the body of the loop of `pass_search` (60-67), with whatever start, increment
and number of samples the callers give; `Refine`, `ListPass`, `ReportPass`, `PlanPass` and
`NoPass` are what the callers do with its result; `PlanPoint` is a round of the loop
over the grid (162-170) and `MapAndPrint` the rest of `main`. A script of fewer than two points raises
(`numpy.max` of nothing). The threshold is not negative: below zero the first sample
under the horizon would end a pass that starts and ends there.

### DoxyBinding, SwigDoc and DoxyDocs

The generated classes differ only in which attributes and children they know and
whether they keep their text and its order. Each is a row; `Schema` holds the rows
under the name by which a parent's row refers to them. `Build` and `Export` are written
once, over rows, with what the classes do by themselves: the title that `compounddefType`
writes through `'%s'` if it has one, `int()` on some attributes, attributes written
although absent, members of value classes that are read and not written. The classes are
used in two ways. `parse` of `compoundsuper.py` (8287-8300), the only caller of `export`,
runs them as they are: an absent text is `None` and not written (`Base`). `doxyindex.py`
loads `compound.py`, whose subclasses have empty text as default and a `docParaType` of
their own, and exports nothing (`Loaded`). `RoundTrip` is about the first, the files of
`DoxyDocs` are built by the second. Text is words, one of which needs
quoting. White space between elements, CDATA sections, and text outside ASCII in
`export` are left out, and so are `exportLiteral`, getters and setters.

`SwigDoc` walks the lists of `swig_doc.py` element by element (`pos`), so that a
script that dies does so at a place. An object of `doxyxml` is a place: an entry of the
index, or a member of the file an entry names, which is parsed when its contents are
asked for; a file is `ok`, `broken` (caught) or `raises` (missing, or no compound in
it). `out` is the set of entries, each with the round of the loop that wrote it; their
order in the file is left out. `IndicesAssumption` says what Doxygen writes: no member is
a class, and a class is in the index once. Make names are not assumed to differ:
`make_name` gives `x` and `x_` one, and the properties say what that does
(`PassedOver`, `OldStyle`). `index.xml` itself is taken to be
readable, Doxygen to write both description elements and to name every documented
parameter. Groups and references by id are never reached by `swig_doc.py`. A
function without documented parameters has the declared ones, with their names and brief
descriptions (`DeclaredParameters`, `doxyindex.py` 122-127).

`DoxyDocs` makes the files of `SwigDoc` from XML with `Build`, `text.py` and the
accessors of `doxyindex.py`. A run is either of the binding alone or of the script.

## 3. Runs

| Run | Question | Instance |
|---|---|---|
| `mux_safety` | safety of `ControlMux` and refinement of `ExclusiveControl` | 3 clients, priorities 0, 1, 1; the start may fail; 1.2 M states up to swapping the two clients of one priority (`SYMMETRY`) |
| `mux_live` | liveness of `ControlMux` | 2 clients, priorities 0, 1; the start may fail |
| `mux_seize` | *violated*: "seize control ... at any time" | as `mux_live` |
| `mux_serve` | safety and liveness across restarts | 3 connections (0, 0, 1), 3 process names |
| `mux_serve_inversion` | *violated*: the same sentence, across restarts | 2 connections (0, 1) |
| `dish_track` | the invariant of the loop; tracking, moves, flush and exit | points at times 1-3, clock to 3, moves, track, waitidle, flush, exit; two queued commands; 6.1 M states |
| `dish_exit` | exit, errors, flush; safety and liveness | moves, waitidle, errexit, exit, flush; two queued commands; homing; drives that have one period to come up; 595 k states |
| `drive` | motion, pulses and speed; settling and end of moves | frequency 2, acceleration 4, hard limit 2, range -1..1, targets -1 and 5, speed parameters -3 and 2; `Reach` 2, `SemMax` 1, `Far` 2; the other axis after this one; 187 k states |
| `desk` | safety and liveness of a session | one prompt page, one that is not, 3 session names; times 5 and 3 as in the code, latency 1; 108 k states |
| `satplan` | searches and script | all 19683 courses over {-1, 3, 6} degrees in 9 ticks, thresholds 2 and 4, up to three passes, four azimuths, a mock start or none; 1.44 M states |
| `docs` | the binding's round trip; what `swig_doc.py` dies of and writes | every class with every child it knows, texts and unknown elements around it; 19 compound files in all indexes of a class `gr_a`, a class `gr_b`, a namespace, two headers and one more entry, and of two classes with one make name; 95 k states |
| `dish_eof` | *violated*: the end of standard input ends the program | moves, waitidle; two queued commands |

Why the bounds are enough. Three clients on two levels give an owner, a
challenger that seizes, and a third that is refused, finds the mutex taken or
meets the next owner; a client may come back any number of times. One place in
`pipeOutBuffs` and one in the pipe are enough for "full" and "empty" to alternate
(four in the code: the goroutines only ask whether there is room). Three processes
cover the one in `proc`, the one a client still refers to and the one another
waits for. Three points and one clock tick past each give lists of 0 to 3 points in
every position against the clock. Two queued commands are needed for one
behind a `waitidle`. `MaxTime` and `QueueMax` are the only caps; the clock stays at
`MaxTime`, past every point, and a command is not picked up while the queue is full.

`Patience` is one period: the regulators are seen waiting, succeeding and giving up.
In `drive` a velocity changes by up to a pulse per period, so that
moves speed up, slow down, overshoot and leave the range; 5 lies outside it, and the
parameter -3 is beyond the hard limit in the wrong direction. With the other axis first
(`OtherFirst`) the same instance has 201 k states and was checked once; the theorems cover
both. `Far` bounds a runaway at negative speed to one pulse past the range on either side. `Reach` bounds how far a late thread may run away and `SemMax` the semaphore, one above
what it holds on time being a late thread's business: a thread that is late stays
so. Three names of sessions are the one in `sess` and two that a page and a command
may still hold. Two nested searches with increments 3 and 1 (2 and 1 for `main`)
over eight ticks meet zero, one or two passes, passes shorter than the increment, and
passes longer than the refined horizon of seven. The compound files have one case for
each condition of `swig_doc.py`: blocks of both styles, a class that is both, make
functions that are befriended, missing, duplicate or overloaded, two headers of one
name, broken and missing files of each kind, qualified and `std::` names, accents, and
two classes (`gr`, `gr_`) whose make functions have one name.

### Fairness

- `ControlMux`: goroutines that can go on do (weak fairness of each step group),
  `sync.Mutex` starves nobody and a `select` that finds a case ready again and
  again takes it, as Go chooses at random (strong fairness of the claim and of
  `DropOutput`), time passes. Nothing is assumed of clients or of the program:
  they may stop reading, writing or running. Properties that need a read by the
  program say so (`[]<>(inp[c] # "write")` as a hypothesis): a write to a program that never reads
  cannot be interrupted (239).
- `MuxServe`: the same, and the program ends once its input is closed.
- `DishLoop`: the loop runs, and neither the reader thread nor signals keep it in
  the pick-up loop for ever (390 has no bound of its own; a person or a script sends
  finitely many commands between two periods). The pulse thread may never finish a
  movement, and then `ExitHonoured` and `EofExits` promise nothing.

- `Drive`: periods follow one another and the pulse thread runs (weak fairness of each);
  a thread's period is not bounded, so that `late` may happen at any time. Commands
  and stopping are never forced.
- `DeskSession`: goroutines run, requests that can be answered are (strong fairness, since
  a channel may be ready only now and then, and time passes between); a prompt page
  pings again as soon as it is answered, as its script does; the program ends once its input is closed, as
  `controlmux` does at the end of its input. `slow` need not do anything.
- `SatPlan`, `DoxyDocs`: none; both runs check safety of programs that end.

### What the violated runs show

1. `mux_seize`: `Claim` sends on `kickch` under the mutex (62). An owner that has
   already left its select, or is about to return because the process closed
   (229), never receives: the claimant blocks and with it every later claim.
2. `mux_serve_inversion`: 350-351 read `proc` again. The process waited for may be
   a newer one, controlled by a client of lower priority.
3. `dish_eof`: a move, a `waitidle` and the end of input. The `exit` made of it stands
   behind the `waitidle` (441); the drives do not come up in time, and with the regulators
   in state 255 the mode stays `MOVE` for ever. No signal comes in between: `EofExits`
   excepts a queue that signals flush again and again, a pulse thread that never
   finishes and axes that never arrive.

## 4. Proofs

`tlapm` proves, for every value of the constants under the named assumptions:

- `ControlMux_proofs` (`ClaimantsAssumption`, `CapacityAssumption`). `MuxInv` is
  inductive: types; `HillInv` - a claim is open exactly while its owner is between
  `Claim` and `close(freech)`, and one claimant at most is inside `Claim`;
  `CopyInv` - copies and `errch` against `pc`; `WatchInv` - the watcher, its timer
  and its drain against whether the owner is attached. Without `HillInv` nothing
  says that the claimant that passes 64 is alone; without `WatchInv` nothing relates
  one client's `resetTimeout` to the next one's `stopTimeout`. `ExclusiveCopy`,
  `WatcherNeverWedges` and `Undisturbed` follow from it, the action property
  `OutputKept` and the refinement of `ExclusiveControl` from it step by step.
- `MuxServe_proofs` (`ServeAssumption`): `ServeInv` is inductive; `OneLive` is
  part of it, `OneController` follows.
- `DishLoop_proofs` (`LoopAssumption`, `RegulatorsAssumption`): `DishInv` is inductive: types
  (`WaitCounts`: the countdown for the drives never passes zero); state 100
  only with the drives off; a flush only at the head of the queue; increasing
  times, and a usable list whenever the axes are stepped in `TRACK`. The last part
  needs that pruning stops at a first point: `RemainingTail`, from a
  least-element lemma that rests on the well-foundedness of inclusion between finite
  sets. `InterpSafe`, `FlushImmediate` and `ExitsPoweredOff` follow;
  `TrackingEndsClean` is proved step by step.

- `DeskSession_proofs` (`DeskAssumption`: waiting and latency are together shorter than
  the session's time). `DeskInv` is inductive: types; `SessionInv` - only `sess` may
  not have exited; `PageInv` - what a page waits for has started; `TimerInv` - the timer
  outlasts the rest of the wait and the latency. `AttendedStays` is not inductive by itself:
  it needs `TimerInv`, and this that an answer hands the rest of the wait over to the
  latency. `OneProgram` follows from `SessionInv`.
- `SatPlan_proofs` (`SatPlanAssumption`: elevations are numbers, the threshold is not
  negative, increments and grid are at least a tick). `SatInv` is inductive: types;
  `SinceInv` - a search starts at 0 or where the last pass ended, below the horizon;
  `SearchInv` - the start lies at a sample below the horizon, and the highest sample so
  far is at most the threshold or no older than the start, although `maxele` is not
  reset when the start moves (63-67); `ListInv` - samples `ListInc` apart cannot
  step over a stretch of `ListInc` ticks, so whatever the two searches left
  behind has none; `PointsInv`. `FoundIsPass` and `NoneSkipped` follow pass by pass. `NoneSkipped` needs
  `SearchInv` too: the refined search moves its start only past ticks that are at most
  the threshold. `SmoothTrack` needs arithmetic: `FullCircles`, and `OneSeam` -
  an arc of at most 179 degrees does not cross both the seam of the start -270 and that of -90,
  so one of the two maps without a jump, and the loop over the starts ends at one that does
  even when it falls through to the last.
- `Drive_proofs` (`AxisAssumption`: the acceleration of a period is at least one unit, speed
  parameters are integers, of which the program starts with a positive one;
  `PulseAssumption`, `FarAssumption`). `DriveInv` is inductive: types; the velocity
  within its limit, for a parameter that is not negative; and, while no period was late,
  `UpdateInv` - the thread waits during `update`; `ThreadInv`; `ChaseInv` - from the end of
  `update` on, increment and pin point to the target, and the thread leaves its loop only
  there, although the other axis sets and clears `alldone` too; `TargetInv` - the target
  is the position within the limits, except between the two writes of the targets when
  this axis has the second. `InStep` follows. `SpeedKept` and `BroughtBack` are proved of
  each step of the axis; that `Root` is a natural number needs `GreatestUpTo` of
  `NumberFacts`.
- `SwigDoc_proofs` (`IndicesAssumption`). `SwigInv` is inductive: types and, for each walk,
  what its finished rounds have done: `IndexInv` - every object of the entries read is a
  member, once, in the order of the index; `BlocksInv`, `Blocks2Inv` - the blocks found are
  the classes that qualify, in that order, and those looked at did not have to kill the
  script; `MadeInv`, `OutInv`
  - which round put a name into `make_funcs` and an entry into the file; `WrittenInv` -
  what each round has documented. `DiesOnlyFor` and `Complete` hold when the last
  walk has passed every position; that they except exactly the blocks passed over for an
  earlier one needs the order of the lists, and that `make_funcs` holds the make name of
  every block whose turn is over, written or not (`MadeBefore`). `WrittenOnce` needs `OnceInv`: a name without a second
  declaration is a name of one object, and a round that writes an object meets the entry
  of another round only between the two loops over blocks. That a function is
  not written again by the third loop is what `make_funcs` is for, and `OutInv` keeps that
  the name of a make function written for a block is in it.

Only model-checked: every liveness property (`IdleStops`, `ChildReaped`,
`Releases`, `StartsOnDemand`, `ExitHonoured`, `ErrorExits`, `UnattendedEnds`, `Answered`,
`Settles`, `MoveEnds`), since liveness under fairness is outside what the prover can do;
`RoundTrip`, which rests on recursion over XML and would need induction over data; and
the three violations.

### What was met on the way

- A move of `dishp` to a negative position need not end (`main.cpp` 201, 222): the middle
  aimed at lies in the pulse before the target, division truncates towards zero, and an
  axis that comes to rest there is neither in position nor moved any more. `MoveEnds` is
  stated for the other targets.
- A negative speed parameter is not refused (357, 443-463) and makes the limits of 193 and
  218 negative. `SpeedKept` says what follows: the axis then moves at every step as fast as
  the parameter says, whatever the hard limit, while `dishp/README.md` 23 has it that hard
  limits "prevent maximal speed to be set too high".
- A late ping wedges a session for good (`session.go` 80).
- `parse` of `compoundsuper.py` loses the title of a compound that has one, which becomes
  the text of a Python object (424), and writes mixed content unquoted. `RoundTrip` says
  exactly which objects survive.
- A pulse thread that is late when the program is told to stop may run away from its
  target for ever, as no period turns it any more: state 40 then waits for `busy` (459).
  `Settles` speaks of running regulators, and `ExitHonoured` names this exception.
- `swig_doc.py` dies of a header or namespace with broken XML, although `doxyindex.py`
  means to survive it (218 comes before the test), and writes a class that is a block of
  both styles twice (271). Of two blocks whose class names differ by a final `_` it
  documents the first only: neither the second's class nor its methods are in the file, as
  the last loop leaves out every class that is a block (293).
- `satplan.py` never reaches its message about azimuths (175 starts with `True`): a
  satellite that turns half a circle or more may get a track that jumps. `SmoothTrack` says
  what holds without that check: nothing jumps below half a circle.

## 5. Not modelled

Listeners, handshake and client mode of `controlmux` (plain input and output), and the
contents of its output (chunks are counted). Of `dishp`: the coordinate
systems and homing coordinates with `reset`, interpolation's arithmetic (its result is
free), point printing, the mock regulators and the set-up of the pins; `poly.h` is only
reached from code that is commented out. `broadcast.go` is commented out, and what the
page of `talir_cmd_desk` shows is left out. The prediction of orbits under `satplan` is
library code. Of `gr-talir`: signal processing in floating point inside GNU Radio's
scheduler; and of its documentation tools `exportLiteral`, accessors and the helpers
nothing calls. Scripts, build and packaging have no run-time state of the system.

## 6. Plan

Done: `ExclusiveControl`, `ControlMux`, `MuxServe`, `Regulators`, `DishLoop`, then `Axis`,
`PulseThread`, `Drive`, `DeskSession`, `SatPlan`, `DoxyBinding`, `SwigDoc`, `DoxyDocs`, with
the proofs of section 4. Left:

1. `OutputPipe`: the shared read buffer behind `pipeOutBuffs` (130-135) with two
   payload values, an abstract byte stream as the promise.
2. `reset` and the homing coordinates in `Drive`: a reset that meets a pulse being counted.
3. A composition of `DeskSession` with `ExclusiveControl`, and `satplan`'s scripts as an
   environment of `DishLoop`.
4. The refinement of a one-command-at-a-time abstract loop by `DishLoop`.
