-------------------------- MODULE SatPlan_proofs --------------------------
(***************************************************************************)
(* Proofs about satplan.py for any table of elevations, threshold, number  *)
(* of passes, sampling and grid: what is found is a pass, a list skips no  *)
(* stretch above the threshold, and a script does not jump in azimuth.     *)
(***************************************************************************)
EXTENDS SatPlan, SequenceTheorems, TLAPS

\* The elevation is a number at every tick, of the table or beyond.
LEMMA AltInt ==
  ASSUME elevation \in Elevations
  PROVE  \A t : Alt(t) \in Int
  BY SatPlanAssumption DEF Alt, Below

LEMMA IncPositive == Inc \in Nat \ {0}
  BY SatPlanAssumption DEF Inc

\* The invariant holds initially: no tick has been looked at.
LEMMA SatInitInv == SatInit => SatInv
<1> SUFFICES ASSUME SatInit PROVE SatInv
  OBVIOUS
<1>1. SatTypeOK
  BY SatPlanAssumption DEF SatInit, SatTypeOK, Samples
<1>2. SinceInv /\ OutputInv /\ SearchInv
  BY SatPlanAssumption DEF SatInit, SinceInv, OutputInv, SearchInv
<1>3. ListInv
  BY SatPlanAssumption DEF SatInit, ListInv
<1>4. PointsInv
  BY DEF SatInit, PointsInv
<1>5. QED
  BY <1>1, <1>2, <1>3, <1>4 DEF SatInv

\* A step that leaves the table alone leaves every elevation alone.
LEMMA SameSky ==
  ASSUME UNCHANGED <<elevation, ele_th>>
  PROVE  /\ \A t : Alt(t)' = Alt(t)
         /\ \A t : Stretch(t)' = Stretch(t)
<1>1. \A t : Alt(t)' = Alt(t)
  BY DEF Alt
<1>2. \A t : Stretch(t)' = Stretch(t)
  BY <1>1 DEF Stretch
<1>3. QED
  BY <1>1, <1>2

\* One sample that does not end the pass.
LEMMA SampleInv ==
  ASSUME SatInv, Sample
  PROVE  SatInv'
<1> USE DEF SatInv, inputs, output
<1>1. \A t : Alt(t) \in Int
  BY AltInt DEF SatTypeOK
<1>2. (\A t : Alt(t)' = Alt(t)) /\ (\A t : Stretch(t)' = Stretch(t))
  BY SameSky DEF Sample
<1>3. Inc \in Nat \ {0} /\ (phase = "refine" => Inc = 1)
      /\ (phase = "search" /\ job = "list" => Inc = ListInc)
  BY IncPositive DEF Inc
<1>4. /\ Highest \in Nat /\ Highest >= maxele /\ Highest >= Alt(next)
      /\ Highest = maxele \/ Highest = Alt(next)
  BY <1>1 DEF Highest, SatTypeOK
<1>5. ele_th \in Nat /\ ListInc \in Nat \ {0}
  BY SatPlanAssumption DEF SatTypeOK
<1>6. Alt(next) < 0 => Highest = maxele /\ Highest <= ele_th
  BY <1>1, <1>4, <1>5 DEF Sample, Ends, SatTypeOK
<1>7. SatTypeOK'
  BY <1>1, <1>3, <1>4 DEF Sample, Sampling, SatTypeOK, NextStart
<1>8. SinceInv' /\ OutputInv'
  BY <1>2 DEF Sample, SinceInv, OutputInv
<1>9. SearchInv'
  <2>1. (since <= start /\ start <= next)'
    BY <1>3 DEF Sample, Sampling, SearchInv, SatTypeOK, NextStart
  <2>2. (start = 0 \/ Alt(start) < 0)'
    BY <1>2 DEF Sample, Sampling, SearchInv, NextStart
  <2>3. ASSUME phase = "refine"
        PROVE  /\ \A t \in (start' + 1)..(next' - 1) : Alt(t) >= 0
               /\ \A t \in start'..(next' - 1) : Alt(t) <= maxele'
               /\ maxele' <= ele_th \/ \E t \in start'..(next' - 1) : Alt(t) = maxele'
    <3>1. next' = next + 1 /\ maxele' = Highest
      BY <1>3, <2>3 DEF Sample
    <3>2. CASE Alt(next) < 0
      <4>1. start' = next
        BY <3>2 DEF Sample, NextStart
      <4>2. QED
        BY <1>1, <1>4, <1>5, <1>6, <3>1, <3>2, <4>1 DEF SatTypeOK
    <3>3. CASE Alt(next) >= 0
      <4>1. start' = start
        BY <1>1, <3>3 DEF Sample, NextStart
      <4>2. /\ start <= next
            /\ \A t \in (start + 1)..(next - 1) : Alt(t) >= 0
            /\ \A t \in start..(next - 1) : Alt(t) <= maxele
            /\ maxele <= ele_th \/ \E t \in start..(next - 1) : Alt(t) = maxele
        BY <2>3 DEF SearchInv
      <4>3. next \in start'..(next' - 1)
        BY <3>1, <4>1, <4>2 DEF SatTypeOK
      <4>4. \A t \in (start' + 1)..(next' - 1) : Alt(t) >= 0
        BY <1>1, <3>1, <3>3, <4>1, <4>2 DEF SatTypeOK
      <4>5. \A t \in start'..(next' - 1) : Alt(t) <= maxele'
        BY <1>1, <1>4, <3>1, <4>1, <4>2 DEF SatTypeOK
      <4>6. maxele' <= ele_th \/ \E t \in start'..(next' - 1) : Alt(t) = maxele'
        BY <1>4, <3>1, <4>1, <4>2, <4>3 DEF SatTypeOK
      <4>7. QED
        BY <4>4, <4>5, <4>6
    <3>4. QED
      BY <1>1, <3>2, <3>3
  <2>4. QED
    BY <1>2, <2>1, <2>2, <2>3 DEF Sample, SearchInv
<1>10. ListInv'
  <2> SUFFICES ASSUME job = "list"
               PROVE  /\ (phase = "search" =>
                           \A t \in since..(next - ListInc) : Stretch(t) => maxele > ele_th)'
                      /\ (phase \in {"search", "refine"} =>
                           \A t \in since..(start - 1) : ~Stretch(t))'
    BY DEF Sample, ListInv
  <2>1. ASSUME phase = "search", NEW t \in since..(next' - ListInc), Stretch(t)
        PROVE  maxele' > ele_th
    <3>1. next' = next + ListInc /\ maxele' = Highest
      BY <1>3, <2>1 DEF Sample
    <3>2. CASE t + ListInc <= next
      <4>1. maxele > ele_th
        BY <1>5, <2>1, <3>2 DEF ListInv, SatTypeOK
      <4>2. QED
        BY <1>4, <1>5, <3>1, <4>1 DEF SatTypeOK
    <3>3. CASE t + ListInc > next
      <4>1. next \in t..(t + ListInc - 1)
        BY <1>5, <2>1, <3>1, <3>3 DEF SatTypeOK
      <4>2. Alt(next) > ele_th
        BY <2>1, <4>1 DEF Stretch
      <4>3. QED
        BY <1>1, <1>4, <1>5, <3>1, <4>2
    <3>4. QED
      BY <1>5, <2>1, <3>1, <3>2, <3>3 DEF SatTypeOK
  <2>2. ASSUME phase \in {"search", "refine"}, NEW t \in since..(start' - 1)
        PROVE  ~Stretch(t)
    <3>1. CASE t < start
      BY <2>2, <3>1 DEF ListInv, SatTypeOK
    <3>2. CASE t >= start
      <4>1. Alt(next) < 0 /\ start' = next /\ Highest = maxele /\ maxele <= ele_th
        BY <1>6, <2>2, <3>2 DEF Sample, NextStart, SatTypeOK
      <4>2. CASE phase = "refine"
        <5>1. Alt(t) <= maxele
          BY <2>2, <3>2, <4>1, <4>2 DEF SearchInv, SatTypeOK
        <5>2. QED
          BY <1>1, <1>5, <2>2, <4>1, <5>1 DEF Stretch, SatTypeOK
      <4>3. CASE phase = "search"
        <5>1. CASE t + ListInc <= next
          BY <1>5, <2>2, <4>1, <4>3, <5>1 DEF ListInv, SatTypeOK
        <5>2. CASE t + ListInc > next
          <6>1. next \in t..(t + ListInc - 1)
            BY <1>5, <2>2, <4>1, <5>2 DEF SatTypeOK
          <6>2. QED
            BY <1>1, <1>5, <4>1, <6>1 DEF Stretch
        <5>3. QED
          BY <1>5, <2>2, <5>1, <5>2 DEF SatTypeOK
      <4>4. QED
        BY <2>2, <4>2, <4>3
    <3>3. QED
      BY <2>2, <3>1, <3>2 DEF SatTypeOK
  <2>3. QED
    BY <1>2, <2>1, <2>2 DEF Sample
<1>11. PointsInv'
  BY DEF Sample, Sampling, PointsInv, OutputInv
<1>12. QED
  BY <1>7, <1>8, <1>9, <1>10, <1>11

\* The refined search starts anew where the first one found the pass to start.
LEMMA RefineInv ==
  ASSUME SatInv, Refine
  PROVE  SatInv'
<1> USE DEF SatInv, inputs, output
<1>1. (\A t : Alt(t)' = Alt(t)) /\ (\A t : Stretch(t)' = Stretch(t))
  BY SameSky DEF Refine
<1>2. /\ phase = "search" /\ phase' = "refine" /\ start' = start /\ next' = start
      /\ maxele' = 0 /\ left' = FineSamples
  BY DEF Refine, Begin, RefinedFrom, Found
<1>3. ele_th \in Nat
  BY SatPlanAssumption DEF SatTypeOK
<1>4. SatTypeOK'
  BY <1>2, SatPlanAssumption DEF Refine, SatTypeOK
<1>5. SinceInv' /\ OutputInv' /\ PointsInv'
  BY <1>1, <1>2 DEF Refine, SinceInv, OutputInv, PointsInv
<1>6. SearchInv'
  BY <1>1, <1>2, <1>3 DEF Refine, SearchInv, SatTypeOK
<1>7. ListInv'
  BY <1>1, <1>2 DEF Refine, ListInv
<1>8. QED
  BY <1>4, <1>5, <1>6, <1>7

\* A pass is found: where it lies, and what the refined search has seen of it.
LEMMA FoundPass ==
  ASSUME SatInv, Report
  PROVE  /\ Found \in PassType
         /\ Pass(Found, 0)
         /\ since <= Found.start /\ Found.start = start
         /\ Found.end = next /\ since' = next /\ Alt(next) < 0
<1> USE DEF SatInv
<1>1. \A t : Alt(t) \in Int
  BY AltInt DEF SatTypeOK
<1>2. ele_th \in Nat
  BY SatPlanAssumption DEF SatTypeOK
<1>3. phase = "refine" /\ since' = next /\ Alt(next) < 0 /\ Highest > ele_th
  BY DEF Report, Ends
<1>4. Highest = maxele
  BY <1>1, <1>3 DEF Highest, SatTypeOK
<1>5. /\ since <= start /\ start <= next
      /\ start = 0 \/ Alt(start) < 0
      /\ \A t \in (start + 1)..(next - 1) : Alt(t) >= 0
      /\ \A t \in start..(next - 1) : Alt(t) <= maxele
      /\ \E t \in start..(next - 1) : Alt(t) = maxele
  BY <1>2, <1>3, <1>4 DEF SearchInv, SatTypeOK
<1>6. Found \in PassType
  BY <1>4 DEF Found, PassType, SatTypeOK
<1>7. start < next
  BY <1>5 DEF SatTypeOK
<1>8. \A t \in start..next : Alt(t) <= maxele
  BY <1>1, <1>3, <1>5 DEF SatTypeOK
<1>9. \E t \in start..next : Alt(t) = maxele
  BY <1>5 DEF SatTypeOK
<1>10. Pass(Found, 0)
  BY <1>3, <1>4, <1>5, <1>7, <1>8, <1>9 DEF Pass, Found
<1>11. QED
  BY <1>3, <1>5, <1>6, <1>10 DEF Found

\* The parts of the invariant that printing a pass touches, whatever follows.
LEMMA ReportInv ==
  ASSUME SatInv, Report
  PROVE  /\ listed' \in Seq(PassType) /\ listed' # <<>> /\ Last(listed') = Found
         /\ since' \in Nat /\ SinceInv'
<1>1. listed \in Seq(PassType) /\ listed' = Append(listed, Found) /\ Found \in PassType
  BY FoundPass DEF SatInv, SatTypeOK, Report
<1>2. listed' \in Seq(PassType) /\ Len(listed') = Len(listed) + 1 /\ listed'[Len(listed')] = Found
  BY <1>1
<1>3. listed' # <<>> /\ Last(listed') = Found
  BY <1>2 DEF Last
<1>4. \A t : Alt(t)' = Alt(t)
  BY SameSky DEF Report, inputs
<1>5. since' = next /\ Alt(next) < 0 /\ Found.end = next
  BY FoundPass
<1>6. QED
  BY <1>2, <1>3, <1>4, <1>5 DEF SinceInv, SatInv, SatTypeOK

\* A list goes on where the pass ended, or is complete.
LEMMA ListPassInv ==
  ASSUME SatInv, ListPass
  PROVE  SatInv'
<1> USE DEF inputs, output, search
<1>1. Report
  BY DEF ListPass
<1>2. \/ /\ phase' = "search" /\ start' = next /\ next' = next
         /\ maxele' = 0 /\ left' = ListSamples
      \/ phase' = "done" /\ UNCHANGED search
  BY DEF ListPass, Begin
<1>3. since' = next /\ Alt(next) < 0 /\ phase = "refine"
  BY <1>1, FoundPass DEF Report
<1>4. (\A t : Alt(t)' = Alt(t)) /\ (\A t : Stretch(t)' = Stretch(t))
  BY <1>1, SameSky DEF Report
<1>5. listed' \in Seq(PassType) /\ since' \in Nat /\ SinceInv'
  BY <1>1, ReportInv
<1>6. SatTypeOK'
  BY <1>1, <1>2, <1>5, SatPlanAssumption DEF ListPass, Report, SatInv, SatTypeOK
<1>7. OutputInv' /\ PointsInv'
  BY <1>1, <1>2, <1>3 DEF Report, SatInv, OutputInv, PointsInv
<1>8. SearchInv'
  BY <1>2, <1>3, <1>4 DEF SatInv, SatTypeOK, SearchInv
<1>9. ListInv'
  <2>1. since' = next' \/ phase' = "done"
    BY <1>2, <1>3
  <2>2. \A t : t \notin next..(next - ListInc) /\ t \notin next..(next - 1)
    BY SatPlanAssumption DEF SatInv, SatTypeOK
  <2>3. QED
    BY <1>2, <1>3, <2>2 DEF ListInv
<1>10. QED
  BY <1>5, <1>6, <1>7, <1>8, <1>9 DEF SatInv

\* A pass reported or planned ends the searches.
LEMMA ReportPassInv ==
  ASSUME SatInv, ReportPass \/ PlanPass
  PROVE  SatInv'
<1> USE DEF inputs, output, search
<1>1. Report /\ job' # "list"
  BY DEF ReportPass, PlanPass, Report
<1>2. /\ phase' \in {"done", "plan"} /\ next' \in {next, start}
      /\ azimuth' = azimuth \/ azimuth' \in Azimuths
      /\ UNCHANGED <<start, maxele, left>>
  BY DEF ReportPass, PlanPass
<1>3. listed' \in Seq(PassType) /\ since' \in Nat /\ SinceInv' /\ listed' # <<>>
  BY <1>1, ReportInv
<1>4. phase = "refine" /\ points' = <<>> /\ script' = <<>>
  BY <1>1 DEF Report, SatInv, OutputInv
<1>5. SatTypeOK'
  BY <1>1, <1>2, <1>3, <1>4, SatPlanAssumption DEF Report, SatInv, SatTypeOK
<1>6. OutputInv' /\ SearchInv' /\ ListInv'
  BY <1>1, <1>2, <1>4 DEF OutputInv, SearchInv, ListInv
<1>7. PointsInv'
  BY <1>3, <1>4 DEF PointsInv
<1>8. QED
  BY <1>3, <1>5, <1>6, <1>7 DEF SatInv

\* The points of a script are a sequence of numbers.
LEMMA PointNumbers ==
  ASSUME SatTypeOK
  PROVE  /\ Len(points) \in Nat /\ DOMAIN points = 1..Len(points)
         /\ \A i \in 1..Len(points) : points[i].tick \in Nat /\ points[i].az \in Int
<1>1. points \in Seq(PointType)
  BY DEF SatTypeOK
<1>2. \A i \in 1..Len(points) : points[i] \in PointType
  BY <1>1, ElementOfSeq
<1>3. \A p \in PointType : p.tick \in Nat /\ p.az \in Int
  BY DEF PointType
<1>4. QED
  BY <1>1, <1>2, <1>3, LenProperties

\* A point is later than those before it.
LEMMA PlanPointInv ==
  ASSUME SatInv, PlanPoint
  PROVE  SatInv'
<1> USE DEF SatInv, inputs
<1>1. \A t : Alt(t)' = Alt(t)
  BY SameSky DEF PlanPoint
<1>2. \A t : Az(t)' = Az(t)
  BY DEF PlanPoint, Az
<1>3. next' \in Nat /\ next < next' /\ phase = "plan" /\ phase' = "plan"
  BY SatPlanAssumption DEF PlanPoint, SatTypeOK
<1>4. Az(next) \in Int
  BY DEF Az, SatTypeOK
<1>5. SinceInv' /\ OutputInv' /\ SearchInv' /\ ListInv'
  BY <1>1, <1>3 DEF PlanPoint, SinceInv, OutputInv, SearchInv, ListInv
<1>6. listed' # <<>>
  BY <1>3 DEF PlanPoint, PointsInv
<1>7. CASE points' = points
  <2>1. SatTypeOK'
    BY <1>3, <1>7 DEF PlanPoint, SatTypeOK
  <2>2. \A i \in DOMAIN points : points[i].tick \in Nat /\ points[i].tick < next
    BY <1>3, PointNumbers DEF PointsInv
  <2>3. PointsInv'
    BY <1>2, <1>3, <1>6, <1>7, <2>2 DEF PointsInv, SatTypeOK
  <2>4. QED
    BY <1>5, <2>1, <2>3
<1>8. CASE points' = Append(points, [tick |-> next, az |-> Az(next)])
  <2> DEFINE new == [tick |-> next, az |-> Az(next)]
             n == Len(points)
  <2>1. new \in PointType
    BY <1>4 DEF PointType, SatTypeOK
  <2>2. /\ n \in Nat /\ DOMAIN points = 1..n
        /\ \A i \in 1..n : points[i].tick \in Nat /\ points[i].tick < next
    BY <1>3, PointNumbers DEF PointsInv
  <2>3. /\ points' \in Seq(PointType) /\ Len(points') = n + 1 /\ DOMAIN points' = 1..(n + 1)
        /\ \A i \in 1..n : points'[i] = points[i]
        /\ points'[n + 1] = new
    BY <1>8, <2>1, <2>2, AppendProperties, LenProperties DEF SatTypeOK
  <2>4. SatTypeOK'
    BY <1>3, <2>3 DEF PlanPoint, SatTypeOK
  <2>5. \A i \in 1..(n + 1) : points'[i].az = Az(points'[i].tick) /\ points'[i].tick < next'
    <3>1. \A i \in 1..n : points[i].az = Az(points[i].tick)
      BY <2>2 DEF PointsInv
    <3>2. \A i \in 1..n : points[i].tick < next'
      BY <1>3, <2>2 DEF SatTypeOK
    <3>3. points'[n + 1].az = Az(points'[n + 1].tick) /\ points'[n + 1].tick < next'
      BY <1>3, <2>3
    <3>4. QED
      BY <2>2, <2>3, <3>1, <3>2, <3>3
  <2>6. \A i, j \in 1..(n + 1) : i < j => points'[i].tick < points'[j].tick
    <3> SUFFICES ASSUME NEW i \in 1..(n + 1), NEW j \in 1..(n + 1), i < j
                 PROVE  points'[i].tick < points'[j].tick
      OBVIOUS
    <3>1. i \in 1..n /\ points'[i] = points[i]
      BY <2>2, <2>3
    <3>2. CASE j \in 1..n
      BY <2>2, <2>3, <3>1, <3>2 DEF PointsInv
    <3>3. CASE j = n + 1
      BY <2>2, <2>3, <3>1, <3>3
    <3>4. QED
      BY <2>2, <3>2, <3>3
  <2>7. PointsInv'
    BY <1>2, <1>6, <2>3, <2>5, <2>6 DEF PointsInv
  <2>8. QED
    BY <1>5, <2>4, <2>7
<1>9. QED
  BY <1>7, <1>8 DEF PlanPoint

\* Every step keeps the invariant.
LEMMA SatStep ==
  ASSUME SatInv, [SatNext]_satVars
  PROVE  SatInv'
<1> USE DEF SatInv, inputs, output, search
<1>1. CASE NoPass
  <2>1. (\A t : Alt(t)' = Alt(t)) /\ \A t : Az(t)' = Az(t)
    BY <1>1, SameSky DEF NoPass, Az
  <2>2. QED
    BY <1>1, <2>1 DEF NoPass, SatTypeOK, SinceInv, OutputInv, SearchInv, ListInv, PointsInv
<1>2. CASE MapAndPrint
  <2>1. (\A t : Alt(t)' = Alt(t)) /\ \A t : Az(t)' = Az(t)
    BY <1>2, SameSky DEF MapAndPrint, Az
  <2>2. QED
    BY <1>2, <2>1 DEF MapAndPrint, SatTypeOK, SinceInv, OutputInv, SearchInv, ListInv, PointsInv
<1>3. CASE UNCHANGED satVars
  <2>1. (\A t : Alt(t)' = Alt(t)) /\ (\A t : Az(t)' = Az(t)) /\ \A t : Stretch(t)' = Stretch(t)
    BY <1>3, SameSky DEF satVars, Az
  <2>2. QED
    BY <1>3, <2>1 DEF satVars, SatTypeOK, SinceInv, OutputInv, SearchInv, ListInv, PointsInv
<1>4. QED
  BY <1>1, <1>2, <1>3, SampleInv, RefineInv, ListPassInv, ReportPassInv, PlanPointInv DEF SatNext

\* The inductive invariant of the searches and of the script.
THEOREM SatInvariant == SatSpec => []SatInv
  BY SatInitInv, SatStep, PTL DEF SatSpec

\* Steps add at most one pass to those printed, and leave the sky alone.
LEMMA ListedStep ==
  ASSUME [SatNext]_satVars
  PROVE  /\ UNCHANGED <<job, elevation, ele_th>>
         /\ Report \/ UNCHANGED listed
<1> USE DEF inputs, satVars
<1>1. CASE SatNext
  BY <1>1 DEF SatNext, Sample, NoPass, Refine, Report, ListPass, ReportPass, PlanPass,
              PlanPoint, MapAndPrint
<1>2. CASE UNCHANGED satVars
  BY <1>2
<1>3. QED
  BY <1>1, <1>2

\* The passes after a report are those before it and the one found.
LEMMA Reported ==
  ASSUME SatInv, Report
  PROVE  /\ Len(listed) \in Nat /\ DOMAIN listed = 1..Len(listed)
         /\ DOMAIN listed' = 1..(Len(listed) + 1) /\ Len(listed') = Len(listed) + 1
         /\ \A i \in DOMAIN listed : listed'[i] = listed[i] /\ listed[i] \in PassType
         /\ listed'[Len(listed) + 1] = Found
         /\ listed # <<>> => Len(listed) > 0 /\ since = listed[Len(listed)].end
<1>1. listed \in Seq(PassType) /\ Found \in PassType /\ listed' = Append(listed, Found)
  BY FoundPass DEF SatInv, SatTypeOK, Report
<1>2. Append(listed, Found) \in Seq(PassType)
  BY <1>1
<1>3. QED
  BY <1>1, <1>2, AppendProperties, LenProperties, ElementOfSeq
     DEF SatInv, SinceInv, Last

\* Every pass printed or reported is a pass, and they follow one another.
THEOREM OnlyPasses == SatSpec => []FoundIsPass
<1>1. SatInit => FoundIsPass
  BY DEF SatInit, FoundIsPass
<1>2. ASSUME FoundIsPass, SatInv, [SatNext]_satVars
      PROVE  FoundIsPass'
  <2>1. \A p : Pass(p, 0)' <=> Pass(p, 0)
    BY <1>2, ListedStep, SameSky DEF Pass
  <2>2. CASE UNCHANGED listed
    BY <1>2, <2>1, <2>2 DEF FoundIsPass
  <2>3. CASE Report
    <3> DEFINE n == Len(listed)
    <3>1. \A i \in 1..(n + 1) : Pass(listed'[i], 0)
      BY <1>2, <2>3, Reported, FoundPass DEF FoundIsPass
    <3>2. \A i \in 2..(n + 1) : listed'[i - 1].end <= listed'[i].start
      <4> TAKE i \in 2..(n + 1)
      <4>1. CASE i \in 1..n
        <5>1. i - 1 \in 1..n
          BY <1>2, <2>3, <4>1, Reported
        <5>2. QED
          BY <1>2, <2>3, <4>1, <5>1, Reported DEF FoundIsPass
      <4>2. CASE i = n + 1
        <5>1. n \in 1..n /\ i - 1 = n /\ listed # <<>>
          BY <1>2, <2>3, <4>2, Reported
        <5>2. QED
          BY <1>2, <2>3, <4>2, <5>1, Reported, FoundPass
      <4>3. QED
        BY <1>2, <2>3, <4>1, <4>2, Reported
    <3>3. QED
      BY <1>2, <2>1, <2>3, <3>1, <3>2, Reported DEF FoundIsPass
  <2>4. QED
    BY <1>2, <2>2, <2>3, ListedStep
<1>3. QED
  BY <1>1, <1>2, SatInvariant, PTL DEF SatSpec

\* No stretch above the threshold that ends before the last pass printed
\* ends lies outside the passes printed.
THEOREM NoStretchSkipped == SatSpec => []NoneSkipped
<1>1. SatInit => NoneSkipped
  BY DEF SatInit, NoneSkipped
<1>2. ASSUME NoneSkipped, SatInv, [SatNext]_satVars
      PROVE  NoneSkipped'
  <2>1. UNCHANGED job /\ \A t : Stretch(t)' = Stretch(t)
    BY <1>2, ListedStep, SameSky
  <2>2. CASE UNCHANGED listed
    BY <1>2, <2>1, <2>2 DEF NoneSkipped, Last
  <2>3. CASE Report
    <3> SUFFICES ASSUME job = "list",
                        NEW t \in 0..(Last(listed').end - ListInc), Stretch(t)
                 PROVE  \E i \in DOMAIN listed' :
                          listed'[i].start <= t /\ t + ListInc <= listed'[i].end
      BY <2>1 DEF NoneSkipped
    <3> DEFINE n == Len(listed)
    <3>1. ListInc \in Nat \ {0} /\ ele_th \in Nat /\ since \in Nat /\ start \in Nat /\ next \in Nat
      BY <1>2, SatPlanAssumption DEF SatInv, SatTypeOK
    <3>2. \A u : Alt(u) \in Int
      BY <1>2, AltInt DEF SatInv, SatTypeOK
    <3>3. t + ListInc <= next
      BY <1>2, <2>3, <3>1, ReportInv, FoundPass
    <3>4. CASE t + ListInc <= since
      <4>1. listed # <<>> /\ since = Last(listed).end
        BY <1>2, <3>1, <3>4 DEF SatInv, SinceInv
      <4>2. PICK i \in DOMAIN listed : listed[i].start <= t /\ t + ListInc <= listed[i].end
        BY <1>2, <3>1, <3>4, <4>1 DEF NoneSkipped
      <4>3. QED
        BY <1>2, <2>3, <4>2, Reported
    <3>5. CASE t < since /\ since < t + ListInc
      <4>1. since \in t..(t + ListInc - 1) /\ since # 0
        BY <3>1, <3>5
      <4>2. Alt(since) < 0
        BY <1>2, <4>1 DEF SatInv, SinceInv
      <4>3. QED
        BY <3>1, <3>2, <4>1, <4>2 DEF Stretch
    <3>6. CASE since <= t
      <4>1. start <= t
        BY <1>2, <2>3, <3>1, <3>6 DEF SatInv, ListInv, Report
      <4>2. n + 1 \in DOMAIN listed' /\ listed'[n + 1] = Found
        BY <1>2, <2>3, Reported
      <4>3. QED
        BY <1>2, <2>3, <3>3, <4>1, <4>2, FoundPass
    <3>7. QED
      BY <3>1, <3>4, <3>5, <3>6
  <2>4. QED
    BY <1>2, <2>2, <2>3, ListedStep
<1>3. QED
  BY <1>1, <1>2, SatInvariant, PTL DEF SatSpec

\* An angle without its full circles, and the circles a start takes off it.
Azimuth(x) == x % 360
Circles(x, az_start) == (x - az_start - 180) \div 360

\* The full circles in an angle do not count.
LEMMA FullCircles ==
  ASSUME NEW x \in Int, NEW az_start \in Int
  PROVE  /\ Circles(x, az_start) \in Int
         /\ Mapped(Azimuth(x), az_start) = x - 180 - 360 * Circles(x, az_start)
<1> DEFINE q == x \div 360
           y == x - az_start - 180
<1>1. x = (360 * q) + (x % 360) /\ q \in Int /\ x % 360 \in 0..359
  OBVIOUS
<1>2. y = (360 * (y \div 360)) + (y % 360) /\ y \div 360 \in Int /\ y % 360 \in 0..359
  OBVIOUS
<1>3. ((x % 360) - az_start - 180) % 360 = y % 360
  BY <1>1, <1>2
<1>4. QED
  BY <1>1, <1>2, <1>3 DEF Mapped, Azimuth, Circles

\* The starts keep an azimuth within 270 degrees.
LEMMA InRange ==
  ASSUME NEW az \in Int, NEW az_start \in {-270, -180, -90}
  PROVE  Mapped(az, az_start) \in -270..269
<1>1. az_start \in Int /\ az_start >= -270 /\ az_start <= -90
  OBVIOUS
<1>2. az - az_start - 180 \in Int
  BY <1>1
<1>3. (az - az_start - 180) % 360 \in 0..359
  BY <1>2
<1>4. QED
  BY <1>1, <1>3 DEF Mapped

\* An arc of less than half a circle does not cross both the seam of the
\* first start and that of the last.
LEMMA OneSeam ==
  ASSUME NEW lo \in Int, NEW hi \in Int, lo <= hi, hi - lo <= 179
  PROVE  Circles(lo, -270) = Circles(hi, -270) \/ Circles(lo, -90) = Circles(hi, -90)
  BY DEF Circles

LEMMA SameCircle ==
  ASSUME NEW s \in Int, NEW a \in Int, NEW b \in Int, NEW c \in Int, a <= b, b <= c,
         Circles(a, s) = Circles(c, s)
  PROVE  Circles(b, s) = Circles(a, s)
<1>1. /\ a - s - 180 \in Int /\ b - s - 180 \in Int /\ c - s - 180 \in Int
      /\ a - s - 180 <= b - s - 180 /\ b - s - 180 <= c - s - 180
  OBVIOUS
<1>2. QED
  BY <1>1 DEF Circles

\* Two angles on the same side of the seam of a start are mapped as far from
\* each other as they are.
LEMMA SameSide ==
  ASSUME NEW s \in Int, NEW lo \in Int, NEW hi \in Int, NEW x \in Int, NEW y \in Int,
         lo <= x, x <= hi, lo <= y, y <= hi, hi - lo <= 179,
         Circles(lo, s) = Circles(hi, s)
  PROVE  Mapped(Azimuth(x), s) - Mapped(Azimuth(y), s) \in -179..179
<1>1. Circles(x, s) = Circles(lo, s) /\ Circles(y, s) = Circles(lo, s)
  BY SameCircle
<1> DEFINE k == Circles(lo, s)
<1>2. k \in Int /\ Mapped(Azimuth(x), s) = x - 180 - 360 * k
      /\ Mapped(Azimuth(y), s) = y - 180 - 360 * k
  BY <1>1, FullCircles
<1>3. QED
  <2> HIDE DEF k
  <2>1. QED
    BY <1>2

\* A turning satellite turns one way.
LEMMA OneWay ==
  ASSUME NEW from \in Int, NEW turn \in Int, NEW a \in Int, NEW b \in Int
  PROVE  /\ (from + turn * b) - (from + turn * a) = turn * (b - a)
         /\ a <= b /\ turn >= 0 => from + turn * a <= from + turn * b
         /\ a <= b /\ turn <= 0 => from + turn * b <= from + turn * a
<1>1. turn * (b - a) = turn * b - turn * a
  OBVIOUS
<1>2. a <= b /\ turn >= 0 => turn * (b - a) >= 0
  OBVIOUS
<1>3. a <= b /\ turn <= 0 => turn * (b - a) <= 0
  OBVIOUS
<1>4. turn * a \in Int /\ turn * b \in Int
  OBVIOUS
<1> DEFINE ta == turn * a
           tb == turn * b
<1>5. ta \in Int /\ tb \in Int /\ (a <= b /\ turn >= 0 => ta <= tb)
      /\ (a <= b /\ turn <= 0 => tb <= ta)
  BY <1>1, <1>2, <1>3, <1>4
<1>6. (from + tb) - (from + ta) = tb - ta
  <2> HIDE DEF ta, tb
  <2>1. QED
    BY <1>5
<1>7. QED
  <2>1. /\ a <= b /\ turn >= 0 => from + ta <= from + tb
        /\ a <= b /\ turn <= 0 => from + tb <= from + ta
    <3> HIDE DEF ta, tb
    <3>1. QED
      BY <1>5
  <2>2. QED
    BY <1>1, <1>6, <2>1

\* The azimuth of a point, full circles counted.
Angle(i) == azimuth.from + azimuth.turn * points[i].tick

LEMMA Angles ==
  ASSUME SatInv
  PROVE  \A i \in 1..Len(points) : Angle(i) \in Int /\ points[i].az = Azimuth(Angle(i))
<1>1. /\ DOMAIN points = 1..Len(points)
      /\ \A i \in 1..Len(points) : points[i].tick \in Int
      /\ azimuth.from \in Int /\ azimuth.turn \in Int
  BY PointNumbers DEF SatInv, SatTypeOK
<1>2. QED
  BY <1>1 DEF Angle, Az, Azimuth, SatInv, PointsInv

\* If the angles lie within less than half a circle, one of the starts maps
\* them without a jump.
LEMMA ArcFits ==
  ASSUME SatInv, NEW lo \in Int, NEW hi \in Int, lo <= hi, hi - lo <= 179,
         \A i \in 1..Len(points) : lo <= Angle(i) /\ Angle(i) <= hi
  PROVE  Continuous(-270) \/ Continuous(-90)
<1> DEFINE n == Len(points)
<1>1. ASSUME NEW s \in Int, Circles(lo, s) = Circles(hi, s)
      PROVE  Continuous(s)
  <2> SUFFICES ASSUME NEW i \in 2..n
               PROVE  Mapped(points[i].az, s) - Mapped(points[i - 1].az, s) \in -179..179
    BY DEF Continuous
  <2>1. i \in 1..n /\ i - 1 \in 1..n
    BY PointNumbers DEF SatInv
  <2>2. /\ Angle(i) \in Int /\ Angle(i - 1) \in Int
        /\ points[i].az = Azimuth(Angle(i)) /\ points[i - 1].az = Azimuth(Angle(i - 1))
    BY <2>1, Angles
  <2>3. QED
    BY <1>1, <2>1, <2>2, SameSide
<1>2. QED
  BY <1>1, OneSeam

LEMMA Apart ==
  ASSUME NEW a \in Int, NEW b \in Int, a - b \in -179..179
  PROVE  a - b <= 179 /\ b - a <= 179
  OBVIOUS

\* One of the starts maps the points of a short track without a jump.
LEMMA StartExists ==
  ASSUME SatInv, Len(points) >= 2, Turned \in -179..179
  PROVE  Continuous(-270) \/ Continuous(-90)
<1>0. PICK n : n = Len(points)
  OBVIOUS
<1>1. azimuth.from \in Int /\ azimuth.turn \in Int
  BY DEF SatInv, SatTypeOK
<1>2. n \in Nat /\ DOMAIN points = 1..n /\ \A i \in 1..n : points[i].tick \in Int
  BY <1>0, PointNumbers DEF SatInv
<1>3. 1 \in 1..n /\ n \in 1..n
  BY <1>0, <1>2
<1>4. \A i \in 1..n : points[1].tick <= points[i].tick /\ points[i].tick <= points[n].tick
  BY <1>2, <1>3 DEF SatInv, PointsInv
<1>5. Angle(n) - Angle(1) \in -179..179
  <2>1. Turned = azimuth.turn * (points[n].tick - points[1].tick)
    BY <1>0 DEF Turned, Last
  <2>2. points[1].tick \in Int /\ points[n].tick \in Int
    BY <1>2, <1>3
  <2>3. Angle(n) - Angle(1) = azimuth.turn * (points[n].tick - points[1].tick)
    BY <1>1, <2>2, OneWay DEF Angle
  <2>4. QED
    BY <2>1, <2>3
<1>6. Angle(1) \in Int /\ Angle(n) \in Int
  BY <1>0, <1>3, Angles
<1>7. CASE azimuth.turn >= 0
  <2>1. \A i \in 1..n : Angle(1) <= Angle(i) /\ Angle(i) <= Angle(n)
    BY <1>1, <1>2, <1>3, <1>4, <1>7, OneWay DEF Angle
  <2>2. Angle(1) <= Angle(n)
    BY <1>3, <2>1
  <2>3. Angle(n) - Angle(1) <= 179
    BY <1>5, <1>6, Apart
  <2>4. QED
    BY <1>0, <1>6, <2>1, <2>2, <2>3, ArcFits
<1>8. CASE azimuth.turn <= 0
  <2>1. \A i \in 1..n : Angle(n) <= Angle(i) /\ Angle(i) <= Angle(1)
    BY <1>1, <1>2, <1>3, <1>4, <1>8, OneWay DEF Angle
  <2>2. Angle(n) <= Angle(1)
    BY <1>3, <2>1
  <2>3. Angle(1) - Angle(n) <= 179
    BY <1>5, <1>6, Apart
  <2>4. QED
    BY <1>0, <1>6, <2>1, <2>2, <2>3, ArcFits
<1>9. QED
  BY <1>1, <1>7, <1>8

\* What lies between two commands and five.
LEMMA Between ==
  ASSUME NEW T, NEW a \in Seq(T), NEW b \in Seq(T), NEW c \in Seq(T),
         Len(a) = 2, Len(c) = 5
  PROVE  LET s == a \o b \o c
         IN s # <<>> /\ s[2] = a[2] /\ SubSeq(s, 3, Len(s) - 5) = b
<1> DEFINE ab == a \o b
           s == ab \o c
           n == Len(b)
           p == SubSeq(s, 3, Len(s) - 5)
<1>1. n \in Nat
  BY LenProperties
<1>2. ab \in Seq(T) /\ Len(ab) = n + 2
      /\ \A i \in 1..(n + 2) : ab[i] = IF i <= 2 THEN a[i] ELSE b[i - 2]
  <2>1. ab \in Seq(T) /\ Len(ab) = Len(a) + Len(b)
        /\ \A i \in 1..(Len(a) + Len(b)) :
             ab[i] = IF i <= Len(a) THEN a[i] ELSE b[i - Len(a)]
    BY ConcatProperties
  <2> HIDE DEF ab
  <2>2. QED
    BY <1>1, <2>1
<1>3. s \in Seq(T) /\ Len(s) = n + 7 /\ \A i \in 1..(n + 2) : s[i] = ab[i]
  <2> HIDE DEF ab
  <2>1. s \in Seq(T) /\ Len(s) = Len(ab) + Len(c)
        /\ \A i \in 1..(Len(ab) + Len(c)) :
             s[i] = IF i <= Len(ab) THEN ab[i] ELSE c[i - Len(ab)]
    BY <1>2, ConcatProperties
  <2> HIDE DEF s
  <2>2. QED
    BY <1>1, <1>2, <2>1
<1> HIDE DEF s, ab
<1>4. p \in Seq(T) /\ Len(p) = n /\ \A i \in 1..n : p[i] = s[i + 2]
  <2>1. \A i \in 3..(n + 2) : s[i] \in T
    BY <1>1, <1>3, ElementOfSeq
  <2>2. Len(s) - 5 = n + 2
    BY <1>1, <1>3
  <2>3. /\ SubSeq(s, 3, n + 2) \in Seq(T)
        /\ Len(SubSeq(s, 3, n + 2)) = IF 3 <= n + 2 THEN (n + 2) - 3 + 1 ELSE 0
        /\ \A i \in 1..((n + 2) - 3 + 1) : SubSeq(s, 3, n + 2)[i] = s[3 + i - 1]
    BY <1>1, <2>1, SubSeqProperties
  <2>4. QED
    BY <1>1, <2>2, <2>3
<1>5. \A i \in 1..n : s[i + 2] = b[i]
  <2> TAKE i \in 1..n
  <2>1. i + 2 \in 1..(n + 2) /\ ~(i + 2 <= 2) /\ (i + 2) - 2 = i
    BY <1>1
  <2>2. s[i + 2] = ab[i + 2]
    BY <1>3, <2>1
  <2>3. ab[i + 2] = b[(i + 2) - 2]
    BY <1>2, <2>1
  <2>4. QED
    BY <2>1, <2>2, <2>3
<1>6. p = b
  <2> HIDE DEF p
  <2>1. QED
    BY <1>4, <1>5, SeqEqual
<1>7. s # <<>> /\ s[2] = a[2]
  <2>1. 2 \in 1..(n + 2)
    BY <1>1
  <2>2. s[2] = ab[2] /\ ab[2] = a[2]
    BY <1>2, <1>3, <2>1
  <2>3. Len(s) # 0
    BY <1>1, <1>3
  <2>4. QED
    BY <2>2, <2>3
<1>8. QED
  BY <1>6, <1>7 DEF s, ab

LEMMA TwoCommands ==
  ASSUME NEW T, NEW x \in T, NEW y \in T
  PROVE  <<x, y>> \in Seq(T) /\ Len(<<x, y>>) = 2 /\ <<x, y>>[2] = y
  OBVIOUS

LEMMA FiveCommands ==
  ASSUME NEW T, NEW x \in T, NEW y \in T, NEW z \in T
  PROVE  <<x, y, x, z, x>> \in Seq(T) /\ Len(<<x, y, x, z, x>>) = 5
  OBVIOUS

LEMMA FunctionIsSeq ==
  ASSUME NEW T, NEW n \in Nat, NEW f \in [1..n -> T]
  PROVE  f \in Seq(T) /\ Len(f) = n
  OBVIOUS

CommandType == [cmd : {"flush", "move", "point", "waitidle", "track"}, at : Int, az : Int]

LEMMA IsCommand ==
  ASSUME NEW t \in Int, NEW z \in Int
  PROVE  /\ [cmd |-> "move", at |-> t, az |-> z] \in CommandType
         /\ [cmd |-> "point", at |-> t, az |-> z] \in CommandType
         /\ \A name \in {"flush", "move", "waitidle", "track"} : Command(name) \in CommandType
  BY DEF CommandType, Command, NoTime

\* The commands of a script: two, the points, five.
LEMMA ScriptParts ==
  ASSUME SatInv, Len(points) >= 2, NEW az_start \in Int, NEW shift \in Int
  PROVE  LET s == ScriptFor(az_start, shift)
         IN /\ s # <<>>
            /\ s[2].az = Mapped(points[1].az, az_start)
            /\ SubSeq(s, 3, Len(s) - 5) =
                 [i \in 1..Len(points) |->
                    [cmd |-> "point", at |-> points[i].tick + shift,
                     az |-> Mapped(points[i].az, az_start)]]
<1>0. PICK n : n = Len(points)
  OBVIOUS
<1> DEFINE T == CommandType
           az(i) == Mapped(points[i].az, az_start)
           point(i) == [cmd |-> "point", at |-> points[i].tick + shift, az |-> az(i)]
           move == [cmd |-> "move", at |-> NoTime, az |-> az(1)]
           a == <<Command("flush"), move>>
           b == [i \in 1..n |-> point(i)]
           c == <<Command("waitidle"), Command("track"), Command("waitidle"),
                  Command("move"), Command("waitidle")>>
<1>1. n \in Nat /\ DOMAIN points = 1..n /\ 1 \in 1..n
      /\ \A i \in 1..n : points[i].tick \in Int /\ points[i].az \in Int
  BY <1>0, PointNumbers DEF SatInv
<1>2. \A i \in 1..n : az(i) \in Int
  BY <1>1 DEF Mapped
<1>3. /\ Command("flush") \in T /\ Command("waitidle") \in T
      /\ Command("track") \in T /\ Command("move") \in T
  BY IsCommand
<1>4. move \in T /\ move.az = az(1)
  <2> HIDE DEF az
  <2>1. NoTime \in Int
    BY DEF NoTime
  <2>2. QED
    BY <1>1, <1>2, <2>1, IsCommand
<1>5. b \in [1..n -> T]
  <2>1. \A i \in 1..n : point(i) \in T
    <3> HIDE DEF az
    <3>1. \A i \in 1..n : points[i].tick + shift \in Int
      BY <1>1
    <3>2. QED
      BY <1>2, <3>1, IsCommand
  <2> HIDE DEF point, T
  <2>2. QED
    BY <2>1
<1> HIDE DEF T, move
<1>6. a \in Seq(T) /\ Len(a) = 2 /\ a[2] = move
  BY <1>3, <1>4, TwoCommands
<1>7. b \in Seq(T)
  <2> HIDE DEF b
  <2>1. QED
    BY <1>1, <1>5, FunctionIsSeq
<1>8. c \in Seq(T) /\ Len(c) = 5
  BY <1>3, FiveCommands
<1>9. ScriptFor(az_start, shift) = a \o b \o c
  BY <1>1 DEF ScriptFor, move
<1> HIDE DEF a, b, c
<1>10. LET s == a \o b \o c
       IN s # <<>> /\ s[2] = a[2] /\ SubSeq(s, 3, Len(s) - 5) = b
  BY <1>6, <1>7, <1>8, Between
<1>11. QED
  BY <1>0, <1>4, <1>6, <1>9, <1>10 DEF b

\* A step prints a script or leaves alone what it was made from.
LEMMA ScriptStep ==
  ASSUME SatInv, [SatNext]_satVars
  PROVE  \/ UNCHANGED <<script, points, azimuth>>
         \/ script' = <<>>
         \/ MapAndPrint /\ Len(points) >= 2
<1> USE DEF inputs, search, output, satVars
<1>1. CASE Sample \/ NoPass \/ Refine \/ ListPass \/ ReportPass
  BY <1>1 DEF Sample, NoPass, Refine, ListPass, ReportPass, Report
<1>2. CASE PlanPass \/ PlanPoint
  BY <1>2 DEF PlanPass, PlanPoint, Report, SatInv, OutputInv
<1>3. CASE MapAndPrint
  BY <1>3, PointNumbers DEF MapAndPrint, SatInv
<1>4. CASE UNCHANGED satVars
  BY <1>4
<1>5. QED
  BY <1>1, <1>2, <1>3, <1>4 DEF SatNext

\* The azimuths of a script stay within 270 degrees, and those of a pass of
\* less than half a circle do not jump by half a circle.
THEOREM NoJump == SatSpec => []SmoothTrack
<1>1. SatInit => SmoothTrack
  BY DEF SatInit, SmoothTrack
<1>2. ASSUME SmoothTrack, SatInv, [SatNext]_satVars
      PROVE  SmoothTrack'
  <2>1. CASE UNCHANGED <<script, points, azimuth>>
    BY <1>2, <2>1 DEF SmoothTrack, Points, Turned
  <2>2. CASE script' = <<>>
    BY <2>2 DEF SmoothTrack
  <2>3. CASE MapAndPrint /\ Len(points) >= 2
    <3>0. PICK n : n = Len(points)
      OBVIOUS
    <3>1. UNCHANGED <<points, azimuth>>
      BY <2>3 DEF MapAndPrint
    <3>2. /\ n \in Nat /\ n >= 2 /\ DOMAIN points = 1..n /\ 1 \in 1..n
          /\ \A i \in 1..n : points[i].tick \in Int /\ points[i].az \in Int
      BY <1>2, <2>3, <3>0, PointNumbers DEF SatInv
    <3>3. PICK shift \in Int : script' = ScriptFor(ChosenStart, shift)
      BY <2>3, <3>2, SatPlanAssumption DEF MapAndPrint
    <3> DEFINE s == ChosenStart
               az(i) == Mapped(points[i].az, s)
    <3>4. s \in {-270, -180, -90}
      BY DEF ChosenStart
    <3>5. \A i \in 1..n : az(i) \in -270..269
      <4> TAKE i \in 1..n
      <4>1. points[i].az \in Int
        BY <3>2
      <4> HIDE DEF s
      <4>2. QED
        BY <3>4, <4>1, InRange
    <3>6. Turned \in -179..179 => Continuous(s)
      BY <1>2, <2>3, StartExists DEF ChosenStart
    <3> HIDE DEF s
    <3>7. /\ script' # <<>> /\ script'[2].az = az(1)
          /\ Points' = [i \in 1..n |->
                         [cmd |-> "point", at |-> points[i].tick + shift, az |-> az(i)]]
      <4>1. s \in Int
        BY <3>4
      <4>2. script' = ScriptFor(s, shift)
        BY <3>3 DEF s
      <4>3. LET sc == ScriptFor(s, shift)
            IN /\ sc # <<>> /\ sc[2].az = az(1)
               /\ SubSeq(sc, 3, Len(sc) - 5) =
                    [i \in 1..Len(points) |->
                       [cmd |-> "point", at |-> points[i].tick + shift, az |-> az(i)]]
        BY <1>2, <2>3, <4>1, ScriptParts
      <4>4. QED
        <5>1. n = Len(points)
          BY <3>0
        <5>2. script' # <<>> /\ script'[2].az = az(1)
          BY <4>2, <4>3
        <5>3. Points' = SubSeq(script', 3, Len(script') - 5)
          BY DEF Points
        <5> HIDE DEF az
        <5>4. QED
          BY <4>2, <4>3, <5>1, <5>2, <5>3
    <3>8. /\ DOMAIN Points' = 1..n /\ Len(Points') = n
          /\ \A i \in 1..n : /\ Points'[i].cmd = "point"
                             /\ Points'[i].at = points[i].tick + shift
                             /\ Points'[i].az = az(i)
      BY <3>2, <3>7
    <3>9. Turned' = Turned
      BY <3>1 DEF Turned
    <3>10. ASSUME NEW i \in 2..n
           PROVE  /\ Points'[i - 1].at < Points'[i].at
                  /\ Turned \in -179..179 => Points'[i].az - Points'[i - 1].az \in -179..179
      <4>1. i \in 1..n /\ i - 1 \in 1..n /\ i - 1 < i
        BY <3>2
      <4>2. points[i - 1].tick < points[i].tick
        BY <1>2, <3>2, <4>1 DEF SatInv, PointsInv
      <4>3. Points'[i - 1].at < Points'[i].at
        BY <3>2, <3>8, <4>1, <4>2
      <4>4. Turned \in -179..179 => az(i) - az(i - 1) \in -179..179
        BY <3>0, <3>6 DEF Continuous
      <4>5. QED
        BY <3>8, <4>1, <4>3, <4>4
    <3>11. QED
      BY <3>2, <3>5, <3>7, <3>8, <3>9, <3>10 DEF SmoothTrack
  <2>4. QED
    BY <1>2, <2>1, <2>2, <2>3, ScriptStep
<1>3. QED
  BY <1>1, <1>2, SatInvariant, PTL DEF SatSpec

=============================================================================
