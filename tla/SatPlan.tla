------------------------------ MODULE SatPlan ------------------------------
(***************************************************************************)
(* satplan.py: the search for satellite passes and the tracking script for *)
(* dishp.  Orbit prediction is a table of elevations, one per tick of the  *)
(* refined search, and a turning azimuth; both are inputs.  Elevations and *)
(* azimuths are whole degrees.  Beyond the table the satellite is below    *)
(* the horizon.  Each round of a loop is a step.                           *)
(***************************************************************************)
EXTENDS Integers, Sequences, SequencesExt

CONSTANTS
  Elevations,   \* the tables: functions from ticks to degrees
  Azimuths,     \* records [from, turn]: azimuth at tick 0, turn per tick
  Thresholds,   \* --ele-threshold
  Passes,       \* -n
  Mocks,        \* --mock-start: a set of times, NoTime among them
  ListInc, ListSamples,     \* first search of print_passes
  FirstInc, FirstSamples,   \* first search of main
  FineSamples,              \* refined search, one tick apart
  Grid                      \* distance of the points of a script

NoTime == -1
Below == -1

ASSUME SatPlanAssumption ==
  /\ \A e \in Elevations : \A t \in DOMAIN e : e[t] \in Int
  /\ Azimuths \subseteq [from : Int, turn : Int]
  /\ Thresholds \subseteq Nat /\ Mocks \subseteq Int /\ Passes \in Nat \ {0}
  /\ ListInc \in Nat \ {0} /\ FirstInc \in Nat \ {0} /\ Grid \in Nat \ {0}
  /\ ListSamples \in Nat /\ FirstSamples \in Nat /\ FineSamples \in Nat

VARIABLES
  phase,      \* search, refine, plan; done, nothing (no pass), raised
  job,        \* list (print_passes), report (--print-...), dishp
  elevation, azimuth, ele_th,   \* inputs
  since,      \* where the next search starts
  start, maxele,                \* of pass_search
  next, left, \* the time of the loop's next round, the samples left
  listed,     \* the passes printed or reported: [start, end, maxele]
  points,     \* the points of the script: [tick, az]
  script      \* the commands printed

satVars == <<phase, job, elevation, azimuth, ele_th, since, start, maxele, next, left,
             listed, points, script>>

inputs == <<job, elevation, ele_th>>
search == <<start, maxele, next, left>>
output == <<points, script>>

-----------------------------------------------------------------------------
(* pass_search *)

Alt(t) == IF t \in DOMAIN elevation THEN elevation[t] ELSE Below

Inc == CASE phase = "refine"                -> 1
         [] phase # "refine" /\ job = "list" -> ListInc
         [] OTHER                           -> FirstInc

Samples == IF job = "list" THEN ListSamples ELSE FirstSamples

Begin(from, samples) ==
  /\ start' = from /\ maxele' = 0
  /\ next' = from /\ left' = samples

Sampling == phase \in {"search", "refine"} /\ left > 0

Highest == IF Alt(next) > maxele THEN Alt(next) ELSE maxele

\* A sample below the horizon ends the pass if the highest one so far is
\* above the threshold, and is the latest possible start if not.
Ends == Alt(next) < 0 /\ Highest > ele_th

\* Mutant: a sample below the horizon does not move the start.
NextStartKept == start

NextStart == IF Alt(next) < 0 THEN next ELSE start

Found == [start |-> start, end |-> next, maxele |-> Highest]

Sample ==
  /\ Sampling /\ ~Ends
  /\ start' = NextStart /\ maxele' = Highest
  /\ next' = next + Inc /\ left' = left - 1
  /\ UNCHANGED <<inputs, phase, azimuth, since, listed, output>>

\* No pass ends within the samples.
NoPass ==
  /\ phase \in {"search", "refine"} /\ left = 0
  /\ phase' = IF job = "list" THEN "done" ELSE "nothing"
  /\ UNCHANGED <<inputs, search, azimuth, since, listed, output>>

-----------------------------------------------------------------------------
(* print_passes and the first half of main *)

SatInit ==
  /\ phase = "search"
  /\ job \in {"list", "report", "dishp"}
  /\ elevation \in Elevations /\ ele_th \in Thresholds
  /\ azimuth = [from |-> 0, turn |-> 0]
  /\ since = 0 /\ start = 0 /\ maxele = 0 /\ next = 0 /\ left = Samples
  /\ listed = <<>> /\ points = <<>> /\ script = <<>>

\* Mutant: the refined search begins at the end of the pass.
RefinedFromEnd == Found.end

RefinedFrom == Found.start

\* The first search has found a pass.
Refine ==
  /\ phase = "search" /\ Sampling /\ Ends
  /\ phase' = "refine" /\ Begin(RefinedFrom, FineSamples)
  /\ UNCHANGED <<inputs, azimuth, since, listed, output>>

\* The refined search has found a pass.
Report ==
  /\ phase = "refine" /\ Sampling /\ Ends
  /\ listed' = Append(listed, Found)
  /\ since' = next
  /\ UNCHANGED <<inputs, output>>

ListPass ==
  /\ job = "list" /\ Report
  /\ IF Len(listed') < Passes
     THEN phase' = "search" /\ Begin(next, ListSamples)
     ELSE phase' = "done" /\ UNCHANGED search
  /\ UNCHANGED azimuth

ReportPass ==
  /\ job = "report" /\ Report
  /\ phase' = "done"
  /\ UNCHANGED <<search, azimuth>>

-----------------------------------------------------------------------------
(* main: the points of a script are the times of a grid over the pass at   *)
(* which the satellite is at least 5 degrees up.                           *)

Lowest == 5
Az(t) == (azimuth.from + azimuth.turn * t) % 360

PlanPass ==
  /\ job = "dishp" /\ Report
  /\ phase' = "plan"
  /\ azimuth' \in Azimuths
  /\ next' = start
  /\ UNCHANGED <<start, maxele, left>>

PlanPoint ==
  /\ phase = "plan" /\ next < Last(listed).end
  /\ points' = IF Alt(next) < Lowest THEN points
               ELSE Append(points, [tick |-> next, az |-> Az(next)])
  /\ next' = next + Grid
  /\ UNCHANGED <<inputs, phase, azimuth, since, start, maxele, left, listed, script>>

Mapped(az, az_start) == ((az - az_start - 180) % 360) + az_start

\* Mutant: the difference is taken without abs.
ContinuousNoAbs(az_start) ==
  \A i \in 2..Len(points) :
    Mapped(points[i].az, az_start) - Mapped(points[i - 1].az, az_start) < 180

Continuous(az_start) ==
  \A i \in 2..Len(points) :
    Mapped(points[i].az, az_start) - Mapped(points[i - 1].az, az_start) \in -179..179

\* The first start that maps without a jump; "good" is True from the outset,
\* so without any the last one is used.
ChosenStart ==
  CASE Continuous(-270)                      -> -270
    [] ~Continuous(-270) /\ Continuous(-180) -> -180
    [] OTHER                                 -> -90

Command(name) == [cmd |-> name, at |-> NoTime, az |-> 0]

ScriptFor(az_start, shift) ==
  LET az(i) == Mapped(points[i].az, az_start)
  IN <<Command("flush"), [cmd |-> "move", at |-> NoTime, az |-> az(1)]>>
     \o [i \in DOMAIN points |-> [cmd |-> "point", at |-> points[i].tick + shift, az |-> az(i)]]
     \o <<Command("waitidle"), Command("track"), Command("waitidle"),
          Command("move"), Command("waitidle")>>

\* numpy has no maximum of an empty array: fewer than two points raise.
MapAndPrint ==
  /\ phase = "plan" /\ next >= Last(listed).end
  /\ IF Len(points) < 2
     THEN phase' = "raised" /\ UNCHANGED script
     ELSE /\ phase' = "done"
          /\ \E mock \in Mocks :
               script' = ScriptFor(ChosenStart,
                                   IF mock = NoTime THEN 0 ELSE mock - points[1].tick)
  /\ UNCHANGED <<inputs, search, azimuth, since, listed, points>>

SatNext ==
  \/ Sample \/ NoPass \/ Refine
  \/ ListPass \/ ReportPass \/ PlanPass
  \/ PlanPoint \/ MapAndPrint

SatSpec == SatInit /\ [][SatNext]_satVars

-----------------------------------------------------------------------------
(* Properties *)

\* What is printed or reported is a pass: above the horizon at every tick
\* between its start and its end, below it at the end and, unless the search
\* began in the middle of a pass, at the start; maxele is its highest
\* elevation and above the threshold.  The passes follow one another.
Pass(p, begin) ==
  /\ p.start < p.end /\ Alt(p.end) < 0
  /\ Alt(p.start) < 0 \/ p.start = begin
  /\ \A t \in (p.start + 1)..(p.end - 1) : Alt(t) >= 0
  /\ p.maxele > ele_th
  /\ \A t \in p.start..p.end : Alt(t) <= p.maxele
  /\ \E t \in p.start..p.end : Alt(t) = p.maxele

FoundIsPass ==
  \A i \in DOMAIN listed :
    /\ Pass(listed[i], 0)
    /\ i > 1 => listed[i - 1].end <= listed[i].start

\* Sampling at ListInc ticks can miss a pass, but none that is above the
\* threshold for ListInc ticks: such a stretch before the end of the last
\* pass printed is in a pass printed.
Stretch(t) == \A u \in t..(t + ListInc - 1) : Alt(u) > ele_th

NoneSkipped ==
  job = "list" /\ listed # <<>> =>
    \A t \in 0..(Last(listed).end - ListInc) :
      Stretch(t) =>
        \E i \in DOMAIN listed : listed[i].start <= t /\ t + ListInc <= listed[i].end

\* A script has at least two points, at increasing times of the pass or of
\* its mock; the azimuths stay within 270 degrees of the origin, start where
\* the dish is told to wait and, for a satellite that turns less than half a
\* circle, never jump by half a circle.
Points == SubSeq(script, 3, Len(script) - 5)
Turned == azimuth.turn * (Last(points).tick - points[1].tick)

SmoothTrack ==
  script # <<>> =>
    /\ Len(Points) >= 2
    /\ script[2].az = Points[1].az
    /\ \A i \in DOMAIN Points : Points[i].cmd = "point" /\ Points[i].az \in -270..269
    /\ \A i \in 2..Len(Points) :
         /\ Points[i - 1].at < Points[i].at
         /\ Turned \in -179..179 => Points[i].az - Points[i - 1].az \in -179..179

-----------------------------------------------------------------------------
(* The invariant the three rest on: types, and what the loops know. *)

PassType == [start : Nat, end : Nat, maxele : Nat]
PointType == [tick : Nat, az : Int]

SatTypeOK ==
  /\ phase \in {"search", "refine", "plan", "done", "nothing", "raised"}
  /\ job \in {"list", "report", "dishp"}
  /\ elevation \in Elevations /\ ele_th \in Thresholds
  /\ azimuth \in [from : Int, turn : Int]
  /\ since \in Nat /\ start \in Nat /\ maxele \in Nat /\ next \in Nat /\ left \in Nat
  /\ listed \in Seq(PassType)
  /\ points \in Seq(PointType)

\* The next search starts where the last pass ended.
SinceInv ==
  IF listed = <<>> THEN since = 0
  ELSE since = Last(listed).end /\ Alt(since) < 0

\* Before any pass is found there are no points, and before the end no script.
OutputInv ==
  /\ phase \in {"search", "refine"} => points = <<>>
  /\ phase # "done" => script = <<>>

\* The loop of pass_search: the start lies at or after since, at a sample below the
\* horizon or at 0.  The highest sample counted is at most the threshold or
\* since the start; the refined search has seen every tick since the start,
\* and none below the horizon.
SearchInv ==
  phase \in {"search", "refine"} =>
    /\ since <= start /\ start <= next
    /\ start = 0 \/ Alt(start) < 0
    /\ phase = "refine" =>
         /\ \A t \in (start + 1)..(next - 1) : Alt(t) >= 0
         /\ \A t \in start..(next - 1) : Alt(t) <= maxele
         /\ maxele <= ele_th \/ \E t \in start..(next - 1) : Alt(t) = maxele

\* A list has passed over no stretch: none lies between since and the start,
\* and the first search has noticed any that lies before the next sample.
ListInv ==
  job = "list" =>
    /\ phase = "search" =>
         \A t \in since..(next - ListInc) : Stretch(t) => maxele > ele_th
    /\ phase \in {"search", "refine"} => \A t \in since..(start - 1) : ~Stretch(t)

\* The points are in order, in the past of the loop, each with its azimuth.
PointsInv ==
  /\ \A i \in DOMAIN points :
       /\ points[i].az = Az(points[i].tick)
       /\ phase = "plan" => points[i].tick < next
  /\ \A i, j \in DOMAIN points : i < j => points[i].tick < points[j].tick
  /\ phase = "plan" => listed # <<>>

SatInv ==
  SatTypeOK /\ SinceInv /\ OutputInv /\ SearchInv /\ ListInv /\ PointsInv
=============================================================================
