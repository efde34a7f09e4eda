--------------------------- MODULE MuxServe_proofs ---------------------------
(***************************************************************************)
(* Proofs about MuxServe for any number of connections, priorities and     *)
(* processes: one program runs at a time, and one client controls it.      *)
(***************************************************************************)
EXTENDS MuxServe, TLAPS

USE DEF Goto, Exited, Running

\* What the steps of serve before attach preserve: only the holder of procM
\* replaces proc, and only once the process in it has exited.
LEMMA ServeStepInv ==
  ASSUME ServeInv, NEW c \in Conns, ServeStep(c)
  PROVE  ServeInv'
<1> USE ServeAssumption DEF ServeInv, TypeOK, OneLive
<1>1. CASE AcquireLock(c)
  BY <1>1 DEF AcquireLock
<1>2. CASE AcquireRef(c)
  <2>1. CASE proc # None
    BY <1>2, <2>1 DEF AcquireRef
  <2>2. CASE proc = None
    <3>1. PICK g \in Gens : Unreferenced(g) /\ StartProcess(g)
      BY <1>2, <2>2 DEF AcquireRef
    <3>2. \A d \in Conns : ref[d] # g
      BY <3>1 DEF Unreferenced
    <3>3. \A h \in Gens : Running(h)' => h = g
      BY <2>2, <3>1 DEF StartProcess
    <3>4. QED
      BY <1>2, <3>1, <3>2, <3>3 DEF AcquireRef, StartProcess
  <2>3. QED
    BY <2>1, <2>2
<1>3. CASE CheckClosed(c)
  BY <1>3 DEF CheckClosed
<1>4. CASE WaitRead(c) \/ WaitExited(c)
  BY <1>4 DEF WaitRead, WaitExited
<1>5. QED
  BY <1>1, <1>2, <1>3, <1>4 DEF ServeStep

\* Attaching to a process and leaving it keep its holder the only client on it.
LEMMA AttachStepInv ==
  ASSUME ServeInv, NEW c \in Conns, AttachStep(c) \/ Detach(c)
  PROVE  ServeInv'
<1> USE ServeAssumption DEF ServeInv, TypeOK, OneLive
<1>1. CASE AttachTake(c)
  BY <1>1 DEF AttachTake
<1>2. CASE AttachSeize(c)
  <2>1. PICK h \in Conns : h = holder[ref[c]] /\ pc[h] = "on" /\ ref[h] = ref[c]
    BY <1>2 DEF AttachSeize
  <2>2. h # c /\ \A d \in Conns \ {h} : pc[d] = "on" => ref[d] # ref[c]
    BY <1>2, <2>1 DEF AttachSeize
  <2>3. QED
    BY <1>2, <2>1, <2>2 DEF AttachSeize
<1>3. CASE AttachRefused(c) \/ AttachTooLate(c)
  <2>1. pc[c] = "attach" /\ UNCHANGED holder /\ Return(c)
    BY <1>3 DEF AttachRefused, AttachTooLate
  <2>2. QED
    BY <2>1 DEF Return
<1>4. CASE Detach(c)
  BY <1>4 DEF Detach, Return
<1>5. QED
  BY <1>1, <1>2, <1>3, <1>4 DEF AttachStep

\* The invariant of serve (303-353) together with attach's promise.
THEOREM ServeInvariant == Spec => []ServeInv
<1>1. Init => ServeInv
  BY ServeAssumption DEF Init, ServeInv, TypeOK, OneLive
<1>2. ServeInv /\ [Next]_vars => ServeInv'
  <2> SUFFICES ASSUME ServeInv, [Next]_vars PROVE ServeInv'
    OBVIOUS
  <2> USE ServeAssumption DEF ServeInv, TypeOK, OneLive
  <2>1. ASSUME NEW c \in Conns, Arrive(c) PROVE ServeInv'
    BY <2>1 DEF Arrive
  <2>2. ASSUME NEW g \in Gens,
               TimeOut(g) \/ EndsAfterTimeout(g) \/ Ends(g) \/ WatcherTold(g)
        PROVE ServeInv'
    BY <2>2 DEF TimeOut, EndsAfterTimeout, Ends, WatcherTold, Become
  <2>3. CASE UNCHANGED vars
    BY <2>3 DEF vars
  <2>4. QED
    BY <2>1, <2>2, <2>3, ServeStepInv, AttachStepInv DEF Next
<1>3. QED
  BY <1>1, <1>2, PTL DEF Spec

\* The program never runs twice at the same time (340-348).
THEOREM NeverTwoPrograms == Spec => []OneLive
<1>1. ServeInv => OneLive
  BY DEF ServeInv
<1>2. QED
  BY <1>1, ServeInvariant, PTL

\* Across restarts no two clients control running programs (215-353).
THEOREM ExclusiveAcrossRestarts == Spec => []OneController
<1>1. ServeInv => OneController
  <2> SUFFICES ASSUME ServeInv, NEW c \in Conns, NEW d \in Conns,
                      pc[c] = "on", pc[d] = "on",
                      Running(ref[c]), Running(ref[d])
               PROVE  c = d
    BY DEF OneController
  <2>1. ref[c] = proc /\ ref[d] = proc
    BY DEF ServeInv, TypeOK, OneLive
  <2>2. QED
    BY <2>1 DEF ServeInv
<1>2. QED
  BY <1>1, ServeInvariant, PTL
=============================================================================
