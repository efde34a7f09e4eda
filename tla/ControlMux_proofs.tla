-------------------------- MODULE ControlMux_proofs --------------------------
(***************************************************************************)
(* Proofs about ControlMux for any number of claimants, any priorities and *)
(* any capacities: MuxInv is inductive, the three state properties follow  *)
(* from it, and with it every step keeps a connected client's output and   *)
(* implements ExclusiveControl.                                            *)
(***************************************************************************)
EXTENDS ControlMux, TLAPS

USE DEF kothVars, copyVars, watchVars, procVars, Goto, Attached, Holding

\* The sets the variables range over survive every step.  A third send on
\* errch is excluded by CopyInv alone.
LEMMA TypeStep == TypeOK /\ CopyInv /\ [Next]_vars => TypeOK'
<1> SUFFICES ASSUME TypeOK, CopyInv, [Next]_vars PROVE TypeOK'
  OBVIOUS
<1> USE CapacityAssumption DEF TypeOK
<1>1. ASSUME NEW c \in Claimants, ClaimStep(c) PROVE TypeOK'
  BY <1>1 DEF ClaimStep, ClaimFree, ClaimOver, Kick, ClaimFreed, TakeHill
<1>2. ASSUME NEW c \in Claimants, AttachStep(c) PROVE TypeOK'
  <2>1. CASE AttachSelect(c) \/ StopTimeoutClosed(c) \/ CopiesJoined(c)
    BY <2>1 DEF AttachSelect, StopTimeoutClosed, CopiesJoined
  <2>2. CASE StopTimeout(c)
    BY <2>2 DEF StopTimeout
  <2>3. CASE CopyEnded(c)
    BY <2>3 DEF CopyEnded
  <2>4. CASE ResetTimeout(c) \/ CloseFreech(c)
    BY <2>4 DEF ResetTimeout, CloseFreech
  <2>5. QED
    BY <1>2, <2>1, <2>2, <2>3, <2>4 DEF AttachStep
<1>3. ASSUME NEW c \in Claimants, InStep(c) \/ OutStep(c) PROVE TypeOK'
  <2> USE DEF CopyInv, Copying, InDone, OutDone
  <2>1. CASE InStep(c)
    BY <2>1 DEF InStep, InDeadline, InBroken
  <2>2. CASE OutTake(c)
    BY <2>2 DEF OutTake
  <2>3. CASE OutClosed(c) \/ OutExit(c) \/ OutDeadline(c)
    BY <2>3 DEF OutClosed, OutExit, OutDeadline
  <2>4. QED
    BY <1>3, <2>1, <2>2, <2>3 DEF OutStep
<1>4. ASSUME NEW c \in Claimants, ClientStep(c) PROVE TypeOK'
  <2>1. CASE Connect(c) \/ Disconnect(c)
    BY <2>1 DEF Connect, Disconnect
  <2>2. CASE InRead(c) \/ InWrite(c) \/ OutWrite(c)
    BY <2>2 DEF InRead, InWrite, OutWrite
  <2>3. CASE InEof(c) \/ OutBroken(c)
    BY <2>3 DEF InEof, OutBroken, InDone, OutDone, CopyInv, Copying
  <2>4. QED
    BY <1>4, <2>1, <2>2, <2>3 DEF ClientStep
<1>5. CASE RunStep
  BY <1>5 DEF RunStep, RunPipes, RunStart, RunStartFails, RunOutEnded, RunWait
<1>6. CASE ReaderStep
  BY <1>6 DEF ReaderStep, ReaderRead, ReaderPush, ReaderEof
<1>7. CASE WatcherStep
  BY <1>7 DEF WatcherStep, WatcherStopped, WatcherExited, WatcherTimeout
<1>8. CASE ChildWrite \/ ChildEnds \/ TimerFires \/ DropOutput
  BY <1>8 DEF ChildWrite, ChildEnds, TimerFires, DropOutput
<1>9. CASE UNCHANGED vars
  BY <1>9 DEF vars
<1>10. QED
  BY <1>1, <1>2, <1>3, <1>4, <1>5, <1>6, <1>7, <1>8, <1>9 DEF Next

-----------------------------------------------------------------------------
\* The steps of the program, of the goroutines of run and of the copies leave
\* owner, mutex, freech and pc alone.
LEMMA HillUntouched ==
  ASSUME \/ RunStep \/ ReaderStep \/ WatcherStep \/ UNCHANGED vars
         \/ ChildWrite \/ ChildEnds \/ TimerFires \/ DropOutput
         \/ \E c \in Claimants :
              InStep(c) \/ OutStep(c) \/ (ClientStep(c) /\ ~Connect(c))
  PROVE  UNCHANGED <<owner, mutex, freech, pc>>
<1>1. CASE RunStep \/ ReaderStep
  BY <1>1 DEF RunStep, RunPipes, RunStart, RunStartFails, RunOutEnded, RunWait,
              ReaderStep, ReaderRead, ReaderPush, ReaderEof
<1>2. CASE WatcherStep \/ UNCHANGED vars
  BY <1>2 DEF WatcherStep, WatcherStopped, WatcherExited, WatcherTimeout, vars
<1>3. CASE ChildWrite \/ ChildEnds \/ TimerFires \/ DropOutput
  BY <1>3 DEF ChildWrite, ChildEnds, TimerFires, DropOutput
<1>4. ASSUME NEW c \in Claimants, InStep(c) \/ OutStep(c)
      PROVE UNCHANGED <<owner, mutex, freech, pc>>
  BY <1>4 DEF InStep, InDeadline, InBroken, InDone,
              OutStep, OutTake, OutClosed, OutExit, OutDeadline, OutDone
<1>5. ASSUME NEW c \in Claimants, ClientStep(c), ~Connect(c)
      PROVE UNCHANGED <<owner, mutex, freech, pc>>
  BY <1>5 DEF ClientStep, Disconnect, InRead, InEof, InWrite, OutWrite,
              OutBroken, InDone, OutDone
<1>6. QED
  BY <1>1, <1>2, <1>3, <1>4, <1>5

\* One open claim at a time, and it belongs to the owner.
LEMMA HillStep == TypeOK /\ HillInv /\ [Next]_vars => HillInv'
<1> SUFFICES ASSUME TypeOK, HillInv, [Next]_vars PROVE HillInv'
  OBVIOUS
<1> USE ClaimantsAssumption DEF TypeOK, HillInv
<1>1. ASSUME NEW c \in Claimants, ClaimFree(c) PROVE HillInv'
  <2>1. owner # NoOne => freech[owner] = "closed"
    BY <1>1 DEF ClaimFree, HillFree
  <2>2. \A d \in Claimants : freech[d] = "closed" /\ pc[d] \notin Holding
    BY <2>1
  <2>3. QED
    BY <1>1, <2>2 DEF ClaimFree, TakeHill
<1>2. ASSUME NEW c \in Claimants, ClaimOver(c) PROVE HillInv'
  BY <1>2 DEF ClaimOver, HillFree
<1>3. ASSUME NEW c \in Claimants, Kick(c) PROVE HillInv'
  BY <1>3 DEF Kick
<1>4. ASSUME NEW c \in Claimants, ClaimFreed(c) PROVE HillInv'
  <2>1. \A d \in Claimants : freech[d] = "closed" /\ pc[d] \notin Holding
    BY <1>4 DEF ClaimFreed
  <2>2. QED
    BY <1>4, <2>1 DEF ClaimFreed, TakeHill
<1>5. ASSUME NEW c \in Claimants, CloseFreech(c) PROVE HillInv'
  BY <1>5 DEF CloseFreech
<1>6. ASSUME NEW c \in Claimants, AttachStep(c), ~CloseFreech(c) PROVE HillInv'
  BY <1>6 DEF AttachStep, AttachSelect, StopTimeout, StopTimeoutClosed,
              CopyEnded, CopiesJoined, ResetTimeout
<1>7. ASSUME NEW c \in Claimants, Connect(c) PROVE HillInv'
  BY <1>7 DEF Connect
<1>8. ASSUME UNCHANGED <<owner, mutex, freech, pc>> PROVE HillInv'
  BY <1>8
<1>9. QED
  BY <1>1, <1>2, <1>3, <1>4, <1>5, <1>6, <1>7, <1>8, HillUntouched
     DEF Next, ClaimStep

-----------------------------------------------------------------------------
\* A copy goroutine is started by the client that got through stopTimeout and
\* has ended when attach's wait group is done.
LEMMA CopyStep == TypeOK /\ CopyInv /\ HillInv /\ [Next]_vars => CopyInv'
<1> SUFFICES ASSUME TypeOK, CopyInv, HillInv, [Next]_vars PROVE CopyInv'
  OBVIOUS
<1> USE ClaimantsAssumption DEF TypeOK, CopyInv, Copying
<1>1. ASSUME NEW c \in Claimants, ClaimStep(c) PROVE CopyInv'
  BY <1>1 DEF ClaimStep, ClaimFree, ClaimOver, Kick, ClaimFreed, TakeHill, HillInv
<1>2. ASSUME NEW c \in Claimants, StopTimeout(c) PROVE CopyInv'
  BY <1>2 DEF StopTimeout
<1>3. ASSUME NEW c \in Claimants, CopyEnded(c) PROVE CopyInv'
  BY <1>3 DEF CopyEnded
<1>4. ASSUME NEW c \in Claimants, CopiesJoined(c) PROVE CopyInv'
  BY <1>4 DEF CopiesJoined
<1>5. ASSUME NEW c \in Claimants,
             AttachSelect(c) \/ StopTimeoutClosed(c) \/ ResetTimeout(c)
               \/ CloseFreech(c)
      PROVE CopyInv'
  BY <1>5 DEF AttachSelect, StopTimeoutClosed, ResetTimeout, CloseFreech
<1>6. ASSUME NEW c \in Claimants, InStep(c) PROVE CopyInv'
  BY <1>6 DEF InStep, InDeadline, InBroken, InDone
<1>7. ASSUME NEW c \in Claimants, OutStep(c) PROVE CopyInv'
  BY <1>7 DEF OutStep, OutTake, OutClosed, OutExit, OutDeadline, OutDone
<1>8. ASSUME NEW c \in Claimants, ClientStep(c) PROVE CopyInv'
  <2>1. CASE Connect(c) \/ Disconnect(c)
    BY <2>1 DEF Connect, Disconnect
  <2>2. CASE InRead(c) \/ InWrite(c) \/ OutWrite(c)
    BY <2>2 DEF InRead, InWrite, OutWrite
  <2>3. CASE InEof(c) \/ OutBroken(c)
    BY <2>3 DEF InEof, OutBroken, InDone, OutDone
  <2>4. QED
    BY <1>8, <2>1, <2>2, <2>3 DEF ClientStep
<1>9. ASSUME UNCHANGED <<pc, inp, outp, errch>> PROVE CopyInv'
  BY <1>9
<1>10. CASE RunStep \/ ReaderStep
  BY <1>9, <1>10 DEF RunStep, RunPipes, RunStart, RunStartFails, RunOutEnded,
              RunWait, ReaderStep, ReaderRead, ReaderPush, ReaderEof
<1>11. CASE WatcherStep \/ UNCHANGED vars
  BY <1>9, <1>11 DEF WatcherStep, WatcherStopped, WatcherExited, WatcherTimeout,
                     vars
<1>12. CASE ChildWrite \/ ChildEnds \/ TimerFires \/ DropOutput
  BY <1>9, <1>12 DEF ChildWrite, ChildEnds, TimerFires, DropOutput
<1>13. QED
  BY <1>1, <1>2, <1>3, <1>4, <1>5, <1>6, <1>7, <1>8, <1>10, <1>11, <1>12
     DEF Next, AttachStep

-----------------------------------------------------------------------------
\* At most one client is between stopTimeout and resetTimeout.
LEMMA OneAttached ==
  ASSUME HillInv, NEW c \in Claimants, NEW d \in Claimants,
         pc[c] \in Holding, pc[d] \in Holding
  PROVE  c = d
BY DEF HillInv

\* stopTimeout finds the timer as the last resetTimeout (or run itself) left it,
\* because resetTimeout runs before close(freech) lets anybody else claim.
LEMMA WatchStep == TypeOK /\ HillInv /\ WatchInv /\ [Next]_vars => WatchInv'
<1> SUFFICES ASSUME TypeOK, HillInv, WatchInv, [Next]_vars PROVE WatchInv'
  OBVIOUS
<1> USE ClaimantsAssumption DEF TypeOK, WatchInv, Exited, Closed
<1>1. ASSUME NEW c \in Claimants, StopTimeout(c) PROVE WatchInv'
  <2>1. \A d \in Claimants : pc[d] \notin Attached
    BY <1>1, OneAttached DEF StopTimeout
  <2>2. timer \in {"armed", "fired"} /\ drain = "buffs"
    BY <1>1, <2>1 DEF StopTimeout
  <2>3. \A d \in Claimants : pc'[d] \in Attached => d = c
    BY <1>1, <2>1 DEF StopTimeout
  <2>4. QED
    BY <1>1, <2>2, <2>3 DEF StopTimeout
<1>2. ASSUME NEW c \in Claimants, ResetTimeout(c) PROVE WatchInv'
  <2>1. \A d \in Claimants : pc'[d] \notin Attached
    BY <1>2, OneAttached DEF ResetTimeout
  <2>2. QED
    BY <1>2, <2>1 DEF ResetTimeout
<1>3. ASSUME NEW c \in Claimants, Kick(c) PROVE WatchInv'
  BY <1>3 DEF Kick, HillInv
<1>4. ASSUME NEW c \in Claimants, CopyEnded(c) \/ CopiesJoined(c) PROVE WatchInv'
  BY <1>4 DEF CopyEnded, CopiesJoined
<1>5. ASSUME NEW c \in Claimants,
             \/ ClaimFree(c) \/ ClaimOver(c) \/ ClaimFreed(c) \/ AttachSelect(c)
             \/ StopTimeoutClosed(c) \/ CloseFreech(c) \/ Connect(c)
      PROVE WatchInv'
  BY <1>5 DEF ClaimFree, ClaimOver, ClaimFreed, TakeHill, AttachSelect,
              StopTimeoutClosed, CloseFreech, Connect
<1>6. CASE RunStep
  BY <1>6 DEF RunStep, RunPipes, RunStart, RunStartFails, RunOutEnded, RunWait
<1>7. CASE WatcherStep \/ TimerFires
  BY <1>7 DEF WatcherStep, WatcherStopped, WatcherExited, WatcherTimeout, TimerFires
<1>8. ASSUME UNCHANGED <<pc, watcher, timer, drain, run, stdin>> PROVE WatchInv'
  BY <1>8
<1>9. CASE ReaderStep \/ ChildWrite \/ ChildEnds \/ DropOutput \/ UNCHANGED vars
  BY <1>8, <1>9 DEF ReaderStep, ReaderRead, ReaderPush, ReaderEof, ChildWrite,
                    ChildEnds, DropOutput, vars
<1>10. ASSUME NEW c \in Claimants,
              InStep(c) \/ OutStep(c) \/ (ClientStep(c) /\ ~Connect(c))
       PROVE WatchInv'
  BY <1>8, <1>10 DEF InStep, InDeadline, InBroken, InDone, OutStep, OutTake,
       OutClosed, OutExit, OutDeadline, OutDone, ClientStep, Disconnect, InRead,
       InEof, InWrite, OutWrite, OutBroken
<1>11. QED
  BY <1>1, <1>2, <1>3, <1>4, <1>5, <1>6, <1>7, <1>9, <1>10
     DEF Next, ClaimStep, AttachStep

-----------------------------------------------------------------------------
\* The invariant of every behaviour of the code (main.go 48-278): types, one
\* open claim, copies only while attached, and the watcher's timer and drain.
THEOREM Invariant == Spec => []MuxInv
<1>1. Init => MuxInv
  BY ClaimantsAssumption, CapacityAssumption
     DEF Init, MuxInv, TypeOK, HillInv, CopyInv, Copying, WatchInv
<1>2. MuxInv /\ [Next]_vars => MuxInv'
  BY TypeStep, HillStep, CopyStep, WatchStep DEF MuxInv
<1>3. QED
  BY <1>1, <1>2, PTL DEF Spec

\* Every variable of Claim, attach and run keeps to its set of values; errch
\* never holds more than its capacity of two (236).
THEOREM TypeCorrect == Spec => []TypeOK
<1>1. MuxInv => TypeOK
  BY DEF MuxInv
<1>2. QED
  BY <1>1, Invariant, PTL

\* Exclusive control (48-77, 226): only the owner of the open claim is connected
\* to the program, for any number of clients on any priority levels.
THEOREM Exclusive == Spec => []ExclusiveCopy
<1>1. MuxInv => ExclusiveCopy
  BY DEF MuxInv, HillInv, CopyInv, ExclusiveCopy
<1>2. QED
  BY <1>1, Invariant, PTL

\* The watcher is never stuck in its receive from timeout.C (164-166).
THEOREM NeverWedges == Spec => []WatcherNeverWedges
<1>1. MuxInv => WatcherNeverWedges
  BY DEF MuxInv, WatchInv, WatcherNeverWedges
<1>2. QED
  BY <1>1, Invariant, PTL

\* No idle timeout under a client in control (152-180, 228-231).
THEOREM ClientUndisturbed == Spec => []Undisturbed
<1>1. MuxInv => Undisturbed
  BY DEF MuxInv, TypeOK, WatchInv, Undisturbed
<1>2. QED
  BY <1>1, Invariant, PTL

\* While a client is connected its output goes nowhere else (160, 173-176,
\* 251-256).
THEOREM OutputIsKept == Spec => OutputKept
<1> DEFINE Kept(c) == pc[c] \in {"on", "leave"} /\ buffs' < buffs
                        => outp[c] = "select" /\ outp'[c] = "write"
<1>1. ASSUME MuxInv, [Next]_vars, NEW c \in Claimants PROVE Kept(c)
  <2> SUFFICES ASSUME pc[c] \in {"on", "leave"}, buffs' < buffs
               PROVE  outp[c] = "select" /\ outp'[c] = "write"
    OBVIOUS
  <2> USE DEF MuxInv, TypeOK
  <2>1. ~DropOutput
    BY <1>1 DEF WatchInv, DropOutput
  <2>2. ASSUME NEW d \in Claimants, OutTake(d) PROVE d = c
    <3>1. pc[d] \in {"on", "leave"}
      BY <1>1, <2>2 DEF OutTake, CopyInv, Copying
    <3>2. QED
      BY <1>1, <3>1, OneAttached
  <2>3. PICK d \in Claimants : OutTake(d)
    <3>1. ~(UNCHANGED buffs) /\ ~ReaderPush
      BY <1>1, CapacityAssumption DEF ReaderPush
    <3>2. ASSUME NEW d \in Claimants, ~OutTake(d),
                 ClaimStep(d) \/ AttachStep(d) \/ InStep(d) \/ OutStep(d)
                   \/ ClientStep(d)
          PROVE UNCHANGED buffs
      BY <3>2 DEF ClaimStep, ClaimFree, ClaimOver, Kick, ClaimFreed, TakeHill,
           AttachStep, AttachSelect, StopTimeout, StopTimeoutClosed, CopyEnded,
           CopiesJoined, ResetTimeout, CloseFreech, InStep, InDeadline,
           InBroken, InDone, OutStep, OutClosed, OutExit, OutDeadline, OutDone,
           ClientStep, Connect, Disconnect, InRead, InEof, InWrite, OutWrite,
           OutBroken
    <3>3. ~RunStep /\ ~WatcherStep
      BY <3>1 DEF RunStep, RunPipes, RunStart, RunStartFails, RunOutEnded, RunWait,
           WatcherStep, WatcherStopped, WatcherExited, WatcherTimeout
    <3>4. ~ReaderStep /\ ~ChildWrite /\ ~ChildEnds /\ ~TimerFires
      BY <3>1 DEF ReaderStep, ReaderRead, ReaderEof, ChildWrite, ChildEnds,
           TimerFires
    <3>5. QED
      BY <1>1, <2>1, <3>1, <3>2, <3>3, <3>4 DEF Next, vars
  <2>4. QED
    BY <1>1, <2>2, <2>3 DEF OutTake
<1>2. MuxInv /\ [Next]_vars => [\A c \in Claimants : Kept(c)]_vars
  BY <1>1
<1>3. QED
  BY <1>2, Invariant, PTL DEF Spec, OutputKept

-----------------------------------------------------------------------------
(* Refinement.  The abstraction sees owner, mutex, freech and which copies *)
(* run.                                                                    *)

Holder == IF owner # NoOne /\ freech[owner] = "open" THEN owner ELSE NoOne
Connected == {c \in Claimants : Copying(c)}

\* A client in Holding is the abstract holder; without one there is none.
LEMMA HolderIs ==
  ASSUME TypeOK, HillInv
  PROVE  /\ \A c \in Claimants : pc[c] \in Holding => Holder = c
         /\ Holder # NoOne => Holder \in Claimants /\ pc[Holder] \in Holding
BY ClaimantsAssumption DEF TypeOK, HillInv, Holder

\* Every step of the goroutines is a step of ExclusiveControl or leaves its
\* variables unchanged.
LEMMA StepRefines ==
  ASSUME MuxInv, MuxInv', [Next]_vars
  PROVE  [EC!Next]_(EC!vars)
<1> DEFINE Same == UNCHANGED <<Holder, mutex, Connected>>
<1> USE ClaimantsAssumption DEF MuxInv, TypeOK, Copying
<1>0. Same => UNCHANGED EC!vars
  BY DEF EC!vars, Holder, Connected
<1>1. ASSUME NEW c \in Claimants, ClaimFree(c) \/ ClaimFreed(c) PROVE EC!Acquire(c)
  <2>1. Holder = NoOne /\ mutex \in {NoOne, c}
    BY <1>1 DEF ClaimFree, HillFree, ClaimFreed, HillInv, Holder
  <2>2. Holder' = c /\ mutex' = NoOne
    BY <1>1 DEF ClaimFree, ClaimFreed, TakeHill, Holder
  <2>3. Connected' = Connected
    BY <1>1 DEF ClaimFree, ClaimFreed, TakeHill, Connected
  <2>4. QED
    BY <2>1, <2>2, <2>3 DEF EC!Acquire, Holder, Connected
<1>2. ASSUME NEW c \in Claimants, ClaimOver(c) PROVE EC!Challenge(c) \/ Same
  <2>1. UNCHANGED <<Holder, Connected>>
    BY <1>2 DEF ClaimOver, Holder, Connected
  <2>2. CASE Prio[c] > Prio[owner]
    BY <1>2, <2>1, <2>2 DEF ClaimOver, HillFree, EC!Challenge, Holder, Connected
  <2>3. CASE ~(Prio[c] > Prio[owner])
    BY <1>2, <2>1, <2>3 DEF ClaimOver
  <2>4. QED
    BY <2>2, <2>3
<1>3. ASSUME NEW c \in Claimants, Kick(c) PROVE Same
  BY <1>3 DEF Kick, HillInv, Holder, Connected
<1>4. ASSUME NEW c \in Claimants, pc[c] \in Holding
      PROVE Holder = c /\ Connected \subseteq {c}
  BY <1>4, HolderIs, OneAttached DEF CopyInv, Connected
<1>5. ASSUME NEW c \in Claimants, StopTimeout(c) PROVE EC!Open
  <2>1. Holder = c /\ Connected = {}
    BY <1>4, <1>5 DEF StopTimeout, CopyInv, Connected
  <2>2. Connected' = {c} /\ UNCHANGED <<Holder, mutex>>
    BY <1>5, <2>1 DEF StopTimeout, Connected, Holder
  <2>3. QED
    BY <2>1, <2>2 DEF EC!Open, Holder, Connected
<1>6. ASSUME NEW c \in Claimants, CloseFreech(c) PROVE EC!Release
  <2>1. Holder = c /\ Connected = {}
    BY <1>4, <1>6 DEF CloseFreech, CopyInv, Connected
  <2>2. Holder' = NoOne /\ UNCHANGED <<mutex, Connected>>
    BY <1>6 DEF CloseFreech, HillInv, Holder, Connected
  <2>3. QED
    BY <2>1, <2>2 DEF EC!Release, Holder, Connected
<1>7. ASSUME NEW c \in Claimants,
             AttachSelect(c) \/ StopTimeoutClosed(c) \/ CopyEnded(c)
               \/ CopiesJoined(c) \/ ResetTimeout(c) \/ Connect(c)
      PROVE Same
  BY <1>7 DEF AttachSelect, StopTimeoutClosed, CopyEnded, CopiesJoined,
              ResetTimeout, Connect, Holder, Connected
<1>8. ASSUME NEW c \in Claimants,
             InStep(c) \/ OutStep(c) \/ (ClientStep(c) /\ ~Connect(c))
      PROVE EC!Hangup \/ Same
  <2>1. /\ UNCHANGED <<Holder, mutex>>
        /\ \A d \in Claimants \ {c} : Copying(d)' = Copying(d)
        /\ Copying(c)' => Copying(c)
    BY <1>8, HillUntouched DEF InStep, InDeadline, InBroken, InDone, OutStep,
       OutTake, OutClosed, OutExit, OutDeadline, OutDone, ClientStep,
       Disconnect, InRead, InEof, InWrite, OutWrite, OutBroken, Holder
  <2>2. CASE Copying(c)' = Copying(c)
    BY <2>1, <2>2 DEF Connected
  <2>3. CASE Copying(c) /\ ~Copying(c)'
    <3>1. Connected = {c}
      BY <1>4, <2>3 DEF CopyInv, Connected
    <3>2. Connected' = {}
      BY <2>1, <2>3, <3>1 DEF Connected
    <3>3. QED
      BY <2>1, <3>1, <3>2 DEF EC!Hangup, Holder, Connected
  <2>4. QED
    BY <2>1, <2>2, <2>3
<1>10. CASE \/ RunStep \/ ReaderStep \/ WatcherStep \/ UNCHANGED vars
            \/ ChildWrite \/ ChildEnds \/ TimerFires \/ DropOutput
  <2>1. UNCHANGED <<inp, outp>>
    BY <1>10 DEF RunStep, RunPipes, RunStart, RunStartFails, RunOutEnded,
       RunWait, ReaderStep, ReaderRead, ReaderPush, ReaderEof, WatcherStep,
       WatcherStopped, WatcherExited, WatcherTimeout, vars, ChildWrite,
       ChildEnds, TimerFires, DropOutput
  <2>2. Same
    BY <1>10, <2>1, HillUntouched DEF Holder, Connected
  <2>3. QED
    BY <1>0, <2>2
<1>11. ASSUME NEW c \in Claimants, ClaimStep(c) \/ AttachStep(c)
       PROVE EC!Next \/ Same
  BY <1>1, <1>2, <1>3, <1>5, <1>6, <1>7, <1>11 DEF ClaimStep, AttachStep, EC!Next
<1>12. ASSUME NEW c \in Claimants, InStep(c) \/ OutStep(c) \/ ClientStep(c)
       PROVE EC!Next \/ Same
  BY <1>7, <1>8, <1>12 DEF EC!Next
<1>13. QED
  BY <1>0, <1>10, <1>11, <1>12 DEF Next

\* controlmux keeps the promise of README.md 3, save for "at any time": the
\* goroutines of Claim, attach and run implement ExclusiveControl.
THEOREM Refinement == Spec => ImplementsExclusiveControl
<1>1. Init => EC!Init
  BY DEF Init, EC!Init, Copying
<1>2. MuxInv /\ MuxInv' /\ [Next]_vars => [EC!Next]_(EC!vars)
  BY StepRefines
<1>3. QED
  BY <1>1, <1>2, Invariant, PTL DEF Spec, EC!Spec, ImplementsExclusiveControl
=============================================================================
